--------------------------- MODULE BackupRunsProofs --------------------------
(***************************************************************************)
(* What retention keeps its word about, for any number of runs, retention  *)
(* counts, crashes and faults: an expired artifact has gone (also when     *)
(* runs overlap), and, as long as one run of the schedule is admitted at a *)
(* time and its prefix stays the same, a success that nobody warned about  *)
(* has its artifact and the newest artifact is kept.                       *)
(***************************************************************************)
EXTENDS BackupRuns, FiniteSetTheorems, TLAPS

\* Before its artifact can have arrived.
Early == {"new", "dumping", "verifying", "uploading"}

\* A run that has uploaded nothing is in nobody's hands.
EarlyInv ==
  \A r \in Runs : stage[r] \in Early =>
    /\ r \notin files /\ row[r] \notin {"success", "expired"}
    /\ \A x \in Runs : gone[x] # r /\ r \notin removed[x] /\ r \notin listed[x]

\* What is removed does not come back.
GoneInv ==
  \A r \in Runs :
    /\ gone[r] # None => stage[r] = "deleting" /\ gone[r] \notin files
    /\ \A f \in removed[r] : f \notin files

IInv == TypeOK /\ EarlyInv /\ GoneInv /\ ExpiredIsGone

\* The initial state.
LEMMA InitIInv == Init => IInv
BY BackupRunsAssumption DEF Init, IInv, TypeOK, EarlyInv, GoneInv, ExpiredIsGone, Stages, Confirming

\* Types are kept by every step.
LEMMA StepTypeOK == ASSUME TypeOK, NEW r \in Runs, Step(r) PROVE TypeOK'
<1> USE BackupRunsAssumption DEF TypeOK
<1>1. CASE Begin(r)
  BY <1>1 DEF Begin, Goto, Stages, Confirming, Expired, Excess, Matching, RotationEnds
<1>2. CASE Name(r)
  BY <1>2 DEF Name, Goto, Stages, Confirming, Expired, Excess, Matching, RotationEnds
<1>3. CASE Upload(r)
  BY <1>3 DEF Upload, Goto, Stages, Confirming, Expired, Excess, Matching, RotationEnds
<1>4. CASE Arrive(r)
  BY <1>4 DEF Arrive, Goto, Stages, Confirming, Expired, Excess, Matching, RotationEnds
<1>5. CASE Fail(r)
  BY <1>5 DEF Fail, Goto, Stages, Confirming, Expired, Excess, Matching, RotationEnds
<1>6. CASE Confirm(r)
  BY <1>6 DEF Confirm, Goto, Stages, Confirming, Expired, Excess, Matching, RotationEnds
<1>7. CASE List(r)
  BY <1>7 DEF List, Goto, Stages, Confirming, Expired, Excess, Matching, RotationEnds
<1>8. CASE Delete(r)
  BY <1>8 DEF Delete, Goto, Stages, Confirming, Expired, Excess, Matching, RotationEnds
<1>9. CASE Acknowledge(r)
  BY <1>9 DEF Acknowledge, Goto, Stages, Confirming, Expired, Excess, Matching, RotationEnds
<1>10. CASE StopRotation(r)
  BY <1>10 DEF StopRotation, Goto, Stages, Confirming, Expired, Excess, Matching, RotationEnds
<1>11. CASE Finish(r)
  BY <1>11 DEF Finish, Goto, Stages, Confirming, Expired, Excess, Matching, RotationEnds
<1>12. CASE FinishFault(r)
  BY <1>12 DEF FinishFault, Goto, Stages, Confirming, Expired, Excess, Matching, RotationEnds
<1>13. CASE Abort(r)
  BY <1>13 DEF Abort, Goto, Stages, Confirming, Expired, Excess, Matching, RotationEnds
<1>14. CASE Reconcile(r)
  BY <1>14 DEF Reconcile, Goto, Stages, Confirming, Expired, Excess, Matching, RotationEnds
<1> QED
  BY <1>1, <1>2, <1>3, <1>4, <1>5, <1>6, <1>7, <1>8, <1>9, <1>10, <1>11, <1>12, <1>13, <1>14 DEF Step

\* Nobody gets hold of a run before its artifact has arrived.
LEMMA StepEarlyInv == ASSUME IInv, TypeOK', NEW r \in Runs, Step(r) PROVE EarlyInv'
<1> USE BackupRunsAssumption DEF IInv, TypeOK, EarlyInv, GoneInv, ExpiredIsGone
<1>1. CASE Begin(r)
  BY <1>1 DEF Begin, Goto, Early, Expired, RotationEnds, Active
<1>2. CASE Name(r)
  BY <1>2 DEF Name, Goto, Early, Expired, RotationEnds, Active
<1>3. CASE Upload(r)
  BY <1>3 DEF Upload, Goto, Early, Expired, RotationEnds, Active
<1>4. CASE Arrive(r)
  BY <1>4 DEF Arrive, Goto, Early, Expired, RotationEnds, Active
<1>5. CASE Fail(r)
  BY <1>5 DEF Fail, Goto, Early, Expired, RotationEnds, Active
<1>6. CASE Confirm(r)
  BY <1>6 DEF Confirm, Goto, Early, Expired, RotationEnds, Active
<1>7. CASE List(r)
  BY <1>7 DEF List, Goto, Early, Excess, Matching
<1>8. CASE Delete(r)
  BY <1>8 DEF Delete, Goto, Early, Expired, RotationEnds, Active
<1>9. CASE Acknowledge(r)
  BY <1>9 DEF Acknowledge, Goto, Early, Expired, RotationEnds, Active
<1>10. CASE StopRotation(r)
  BY <1>10 DEF StopRotation, Goto, Early, Expired, RotationEnds, Active
<1>11. CASE Finish(r)
  BY <1>11 DEF Finish, Goto, Early, Expired, RotationEnds, Active
<1>12. CASE FinishFault(r)
  BY <1>12 DEF FinishFault, Goto, Early, Expired, RotationEnds, Active
<1>13. CASE Abort(r)
  BY <1>13 DEF Abort, Goto, Early, Expired, RotationEnds, Active
<1>14. CASE Reconcile(r)
  BY <1>14 DEF Reconcile, Goto, Early, Expired, RotationEnds, Active
<1> QED
  BY <1>1, <1>2, <1>3, <1>4, <1>5, <1>6, <1>7, <1>8, <1>9, <1>10, <1>11, <1>12, <1>13, <1>14 DEF Step

\* What has been removed stays so.
LEMMA StepGoneInv == ASSUME IInv, TypeOK', NEW r \in Runs, Step(r) PROVE GoneInv'
<1> USE BackupRunsAssumption DEF IInv, TypeOK, EarlyInv, GoneInv, ExpiredIsGone
<1>1. CASE Begin(r)
  BY <1>1 DEF Begin, Goto, Early, Expired, RotationEnds, Active
<1>2. CASE Name(r)
  BY <1>2 DEF Name, Goto, Early, Expired, RotationEnds, Active
<1>3. CASE Upload(r)
  BY <1>3 DEF Upload, Goto, Early, Expired, RotationEnds, Active
<1>4. CASE Arrive(r)
  BY <1>4 DEF Arrive, Goto, Early, Expired, RotationEnds, Active
<1>5. CASE Fail(r)
  BY <1>5 DEF Fail, Goto, Early, Expired, RotationEnds, Active
<1>6. CASE Confirm(r)
  BY <1>6 DEF Confirm, Goto, Early, Expired, RotationEnds, Active
<1>7. CASE List(r)
  BY <1>7 DEF List, Goto, Early, Expired, RotationEnds, Active
<1>8. CASE Delete(r)
  BY <1>8 DEF Delete, Goto, Early, Expired, RotationEnds, Active
<1>9. CASE Acknowledge(r)
  BY <1>9 DEF Acknowledge, Goto, Early, Expired, RotationEnds, Active
<1>10. CASE StopRotation(r)
  BY <1>10 DEF StopRotation, Goto, Early, Expired, RotationEnds, Active
<1>11. CASE Finish(r)
  BY <1>11 DEF Finish, Goto, Early, Expired, RotationEnds, Active
<1>12. CASE FinishFault(r)
  BY <1>12 DEF FinishFault, Goto, Early, Expired, RotationEnds, Active
<1>13. CASE Abort(r)
  BY <1>13 DEF Abort, Goto, Early, Expired, RotationEnds, Active
<1>14. CASE Reconcile(r)
  BY <1>14 DEF Reconcile, Goto, Early, Expired, RotationEnds, Active
<1> QED
  BY <1>1, <1>2, <1>3, <1>4, <1>5, <1>6, <1>7, <1>8, <1>9, <1>10, <1>11, <1>12, <1>13, <1>14 DEF Step

\* A row expires after its artifact has gone.
LEMMA StepExpiredIsGone == ASSUME IInv, TypeOK', NEW r \in Runs, Step(r) PROVE ExpiredIsGone'
<1> USE BackupRunsAssumption DEF IInv, TypeOK, EarlyInv, GoneInv, ExpiredIsGone
<1>1. CASE Begin(r)
  BY <1>1 DEF Begin, Goto, Early, Expired, RotationEnds, Active
<1>2. CASE Name(r)
  BY <1>2 DEF Name, Goto, Early, Expired, RotationEnds, Active
<1>3. CASE Upload(r)
  BY <1>3 DEF Upload, Goto, Early, Expired, RotationEnds, Active
<1>4. CASE Arrive(r)
  BY <1>4 DEF Arrive, Goto, Early, Expired, RotationEnds, Active
<1>5. CASE Fail(r)
  BY <1>5 DEF Fail, Goto, Early, Expired, RotationEnds, Active
<1>6. CASE Confirm(r)
  BY <1>6 DEF Confirm, Goto, Early, Expired, RotationEnds, Active
<1>7. CASE List(r)
  BY <1>7 DEF List, Goto, Early, Expired, RotationEnds, Active
<1>8. CASE Delete(r)
  BY <1>8 DEF Delete, Goto, Early, Expired, RotationEnds, Active
<1>9. CASE Acknowledge(r)
  BY <1>9 DEF Acknowledge, Goto, Early, Expired, RotationEnds, Active
<1>10. CASE StopRotation(r)
  BY <1>10 DEF StopRotation, Goto, Early, Expired, RotationEnds, Active
<1>11. CASE Finish(r)
  BY <1>11 DEF Finish, Goto, Early, Expired, RotationEnds, Active
<1>12. CASE FinishFault(r)
  BY <1>12 DEF FinishFault, Goto, Early, Expired, RotationEnds, Active
<1>13. CASE Abort(r)
  BY <1>13 DEF Abort, Goto, Early, Expired, RotationEnds, Active
<1>14. CASE Reconcile(r)
  BY <1>14 DEF Reconcile, Goto, Early, Expired, RotationEnds, Active
<1> QED
  BY <1>1, <1>2, <1>3, <1>4, <1>5, <1>6, <1>7, <1>8, <1>9, <1>10, <1>11, <1>12, <1>13, <1>14 DEF Step

\* A crash keeps the invariant.
LEMMA CrashIInv == ASSUME IInv, Crash PROVE IInv'
<1> USE BackupRunsAssumption DEF IInv, TypeOK, Crash
<1>1. TypeOK'
  <2>1. \A r \in Runs : ({gone[r]} \ {None}) \cup removed[r] \subseteq Runs
    OBVIOUS
  <2>2. lost' \subseteq Runs
    BY <2>1 DEF Active
  <2>3. stage' \in [Runs -> Stages] /\ gone' \in [Runs -> Runs \cup {None}]
    BY DEF Stages
  <2> QED
    BY <2>2, <2>3
<1>2. EarlyInv'
  BY DEF EarlyInv, GoneInv, Early, Active
<1>3. GoneInv'
  BY DEF GoneInv
<1>4. ExpiredIsGone'
  BY DEF ExpiredIsGone
<1> QED
  BY <1>1, <1>2, <1>3, <1>4

\* The invariant holds in every reachable state.
THEOREM IInvHolds == Spec => []IInv
<1>1. IInv /\ [Next]_vars => IInv'
  <2> SUFFICES ASSUME IInv, [Next]_vars PROVE IInv'
    OBVIOUS
  <2>1. ASSUME NEW r \in Runs, Step(r) PROVE IInv'
    BY <2>1, StepTypeOK, StepEarlyInv, StepGoneInv, StepExpiredIsGone DEF IInv
  <2>2. CASE UNCHANGED vars
    BY <2>2 DEF vars, run, IInv, TypeOK, EarlyInv, GoneInv, ExpiredIsGone
  <2> QED
    BY <2>1, <2>2, CrashIInv DEF Next, Over
<1> QED
  BY <1>1, InitIInv, PTL DEF Spec

\* An expired row has no artifact (BackupService.expireRotatedRuns), for any
\* number of overlapping runs.
THEOREM ExpiredStaysGone == Spec => []ExpiredIsGone
<1>1. IInv => ExpiredIsGone
  BY DEF IInv
<1> QED
  BY <1>1, IInvHolds, PTL

-----------------------------------------------------------------------------
\* One run of the schedule at a time, under one prefix.
Steady == Together = 1 /\ \A p, q \in Prefixes : p = q

\* The run that is admitted has the latest name of all.
LatestInv ==
  /\ \A r, s \in Active : r = s
  /\ \A r \in Runs : at[r] <= clock
  /\ \A r \in Active : stage[r] # "dumping" => \A s \in Runs \ {r} : at[s] < at[r]

\* It has removed nothing before its rotation, and never its own artifact.
OwnInv ==
  \A r \in Runs :
    /\ stage[r] \notin {"deleting", "finishing", "done"} =>
         gone[r] = None /\ removed[r] = {} /\ listed[r] = {}
    /\ stage[r] \in {"stored"} \cup Confirming => r \in files /\ r \notin listed[r]
    /\ stage[r] = "stored" => row[r] \notin {"success", "expired"}
    /\ stage[r] \in Confirming => row[r] = "success"

SInv == IInv /\ LatestInv /\ OwnInv /\ SuccessIsStored /\ NewestConfirmedKept

\* Nothing else is active where one run begins.
LEMMA BeginsAlone == ASSUME Steady, Cardinality(Active) < Together PROVE Active = {}
<1>1. IsFiniteSet(Active)
  BY BackupRunsAssumption, FS_Subset DEF Active
<1>2. Cardinality(Active) = 0
  BY <1>1, FS_CardinalityType DEF Steady
<1> QED
  BY <1>1, <1>2, FS_EmptySet

\* The retention of a run does not list its own artifact.
LEMMA OwnKept ==
  ASSUME Steady, SInv, NEW r \in Runs, stage[r] = "listing" PROVE r \notin Excess(r)
<1>1. \A g \in Matching(r) : ~Newer(g, r)
  <2> SUFFICES ASSUME NEW g \in Matching(r) PROVE ~Newer(g, r)
    OBVIOUS
  <2>1. g \in Runs /\ prefix[g] = prefix[r] /\ prefix[r] \in Nat
    BY BackupRunsAssumption DEF Steady, SInv, IInv, TypeOK, Matching
  <2>2. at[g] \in Nat /\ at[r] \in Nat /\ (g # r => at[g] < at[r])
    BY <2>1 DEF SInv, IInv, TypeOK, LatestInv, Active
  <2> QED
    BY <2>1, <2>2 DEF Newer
<1>2. Cardinality({g \in Matching(r) : Newer(g, r)}) = 0
  BY <1>1, FS_EmptySet
<1>3. keep[r] \in Nat
  BY BackupRunsAssumption DEF SInv, IInv, TypeOK
<1> QED
  BY <1>2, <1>3 DEF Excess

\* The latest name stays the latest.
LEMMA StepLatestInv == ASSUME Steady, SInv, IInv', NEW r \in Runs, Step(r) PROVE LatestInv'
<1> USE BackupRunsAssumption DEF SInv, IInv, TypeOK, LatestInv
<1>1. CASE Begin(r)
  BY <1>1, BeginsAlone DEF Begin, Goto, Active, RotationEnds
<1>2. CASE Name(r)
  BY <1>2 DEF Name, Goto, Active, RotationEnds
<1>3. CASE Upload(r)
  BY <1>3 DEF Upload, Goto, Active, RotationEnds
<1>4. CASE Arrive(r)
  BY <1>4 DEF Arrive, Goto, Active, RotationEnds
<1>5. CASE Fail(r)
  BY <1>5 DEF Fail, Goto, Active, RotationEnds
<1>6. CASE Confirm(r)
  BY <1>6 DEF Confirm, Goto, Active, RotationEnds
<1>7. CASE List(r)
  BY <1>7, OwnKept DEF List, Goto, Active, RotationEnds
<1>8. CASE Delete(r)
  BY <1>8 DEF Delete, Goto, Active, RotationEnds
<1>9. CASE Acknowledge(r)
  <2>1. stage[r] = "deleting"
    BY <1>9 DEF Acknowledge, GoneInv
  <2>2. at' = at /\ clock' = clock /\ \A x \in Runs : stage'[x] = stage[x] \/ x = r
    BY <1>9 DEF Acknowledge, Goto
  <2> QED
    BY <2>1, <2>2 DEF Active
<1>10. CASE StopRotation(r)
  BY <1>10 DEF StopRotation, Goto, Active, RotationEnds
<1>11. CASE Finish(r)
  BY <1>11 DEF Finish, Goto, Active, RotationEnds
<1>12. CASE FinishFault(r)
  BY <1>12 DEF FinishFault, Goto, Active, RotationEnds
<1>13. CASE Abort(r)
  BY <1>13 DEF Abort, Goto, Active, RotationEnds
<1>14. CASE Reconcile(r)
  BY <1>14 DEF Reconcile, Goto, Active, RotationEnds
<1> QED
  BY <1>1, <1>2, <1>3, <1>4, <1>5, <1>6, <1>7, <1>8, <1>9, <1>10, <1>11, <1>12, <1>13, <1>14 DEF Step

\* A run keeps its own artifact.
LEMMA StepOwnInv == ASSUME Steady, SInv, IInv', NEW r \in Runs, Step(r) PROVE OwnInv'
<1> USE BackupRunsAssumption DEF SInv, IInv, TypeOK, OwnInv
<1>1. CASE Begin(r)
  BY <1>1, BeginsAlone DEF Begin, Goto, Active, RotationEnds, GoneInv, EarlyInv, LatestInv, Early, Confirming,
     Expired
<1>2. CASE Name(r)
  BY <1>2 DEF Name, Goto, Active, RotationEnds, GoneInv, EarlyInv, LatestInv, Early, Confirming,
     Expired
<1>3. CASE Upload(r)
  BY <1>3 DEF Upload, Goto, Active, RotationEnds, GoneInv, EarlyInv, LatestInv, Early, Confirming,
     Expired
<1>4. CASE Arrive(r)
  BY <1>4 DEF Arrive, Goto, Active, RotationEnds, GoneInv, EarlyInv, LatestInv, Early, Confirming,
     Expired
<1>5. CASE Fail(r)
  BY <1>5 DEF Fail, Goto, Active, RotationEnds, GoneInv, EarlyInv, LatestInv, Early, Confirming,
     Expired
<1>6. CASE Confirm(r)
  BY <1>6 DEF Confirm, Goto, Active, RotationEnds, GoneInv, EarlyInv, LatestInv, Early, Confirming,
     Expired
<1>7. CASE List(r)
  BY <1>7, OwnKept DEF List, Goto, Active, RotationEnds, GoneInv, EarlyInv, LatestInv, Early, Confirming,
     Expired
<1>8. CASE Delete(r)
  BY <1>8 DEF Delete, Goto, Active, RotationEnds, GoneInv, EarlyInv, LatestInv, Early, Confirming,
     Expired
<1>9. CASE Acknowledge(r)
  BY <1>9 DEF Acknowledge, Goto, Active, RotationEnds, GoneInv, EarlyInv, LatestInv, Early, Confirming,
     Expired
<1>10. CASE StopRotation(r)
  BY <1>10 DEF StopRotation, Goto, Active, RotationEnds, GoneInv, EarlyInv, LatestInv, Early, Confirming,
     Expired
<1>11. CASE Finish(r)
  BY <1>11 DEF Finish, Goto, Active, RotationEnds, GoneInv, EarlyInv, LatestInv, Early, Confirming,
     Expired
<1>12. CASE FinishFault(r)
  BY <1>12 DEF FinishFault, Goto, Active, RotationEnds, GoneInv, EarlyInv, LatestInv, Early, Confirming,
     Expired
<1>13. CASE Abort(r)
  BY <1>13 DEF Abort, Goto, Active, RotationEnds, GoneInv, EarlyInv, LatestInv, Early, Confirming,
     Expired
<1>14. CASE Reconcile(r)
  BY <1>14 DEF Reconcile, Goto, Active, RotationEnds, GoneInv, EarlyInv, LatestInv, Early, Confirming,
     Expired
<1> QED
  BY <1>1, <1>2, <1>3, <1>4, <1>5, <1>6, <1>7, <1>8, <1>9, <1>10, <1>11, <1>12, <1>13, <1>14 DEF Step

\* A removal is recorded, or warned about.
LEMMA StepSuccessIsStored == ASSUME Steady, SInv, IInv', NEW r \in Runs, Step(r) PROVE SuccessIsStored'
<1> USE BackupRunsAssumption DEF SInv, IInv, TypeOK, SuccessIsStored
<1>1. CASE Begin(r)
  BY <1>1, BeginsAlone DEF Begin, Goto, Active, RotationEnds, GoneInv, OwnInv, Confirming, Expired
<1>2. CASE Name(r)
  BY <1>2 DEF Name, Goto, Active, RotationEnds, GoneInv, OwnInv, Confirming, Expired
<1>3. CASE Upload(r)
  BY <1>3 DEF Upload, Goto, Active, RotationEnds, GoneInv, OwnInv, Confirming, Expired
<1>4. CASE Arrive(r)
  BY <1>4 DEF Arrive, Goto, Active, RotationEnds, GoneInv, OwnInv, Confirming, Expired
<1>5. CASE Fail(r)
  BY <1>5 DEF Fail, Goto, Active, RotationEnds, GoneInv, OwnInv, Confirming, Expired
<1>6. CASE Confirm(r)
  BY <1>6 DEF Confirm, Goto, Active, RotationEnds, GoneInv, OwnInv, Confirming, Expired
<1>7. CASE List(r)
  BY <1>7, OwnKept DEF List, Goto, Active, RotationEnds, GoneInv, OwnInv, Confirming, Expired
<1>8. CASE Delete(r)
  BY <1>8 DEF Delete, Goto, Active, RotationEnds, GoneInv, OwnInv, Confirming, Expired
<1>9. CASE Acknowledge(r)
  BY <1>9 DEF Acknowledge, Goto, Active, RotationEnds, GoneInv, OwnInv, Confirming, Expired
<1>10. CASE StopRotation(r)
  BY <1>10 DEF StopRotation, Goto, Active, RotationEnds, GoneInv, OwnInv, Confirming, Expired
<1>11. CASE Finish(r)
  BY <1>11 DEF Finish, Goto, Active, RotationEnds, GoneInv, OwnInv, Confirming, Expired
<1>12. CASE FinishFault(r)
  BY <1>12 DEF FinishFault, Goto, Active, RotationEnds, GoneInv, OwnInv, Confirming, Expired
<1>13. CASE Abort(r)
  BY <1>13 DEF Abort, Goto, Active, RotationEnds, GoneInv, OwnInv, Confirming, Expired
<1>14. CASE Reconcile(r)
  BY <1>14 DEF Reconcile, Goto, Active, RotationEnds, GoneInv, OwnInv, Confirming, Expired
<1> QED
  BY <1>1, <1>2, <1>3, <1>4, <1>5, <1>6, <1>7, <1>8, <1>9, <1>10, <1>11, <1>12, <1>13, <1>14 DEF Step

\* The newest confirmed artifact stays.
LEMMA StepNewestConfirmedKept == ASSUME Steady, SInv, IInv', NEW r \in Runs, Step(r) PROVE NewestConfirmedKept'
<1> USE BackupRunsAssumption DEF SInv, IInv, TypeOK, NewestConfirmedKept
<1>1. CASE Begin(r)
  BY <1>1, BeginsAlone DEF Begin, Goto, Active, RotationEnds, OwnInv, LatestInv, EarlyInv, Early, Confirming, Confirmed, Expired
<1>2. CASE Name(r)
  BY <1>2 DEF Name, Goto, Active, RotationEnds, OwnInv, LatestInv, EarlyInv, Early, Confirming, Confirmed, Expired
<1>3. CASE Upload(r)
  BY <1>3 DEF Upload, Goto, Active, RotationEnds, OwnInv, LatestInv, EarlyInv, Early, Confirming, Confirmed, Expired
<1>4. CASE Arrive(r)
  BY <1>4 DEF Arrive, Goto, Active, RotationEnds, OwnInv, LatestInv, EarlyInv, Early, Confirming, Confirmed, Expired
<1>5. CASE Fail(r)
  BY <1>5 DEF Fail, Goto, Active, RotationEnds, OwnInv, LatestInv, EarlyInv, Early, Confirming, Confirmed, Expired
<1>6. CASE Confirm(r)
  BY <1>6 DEF Confirm, Goto, Active, RotationEnds, OwnInv, LatestInv, EarlyInv, Early, Confirming, Confirmed, Expired
<1>7. CASE List(r)
  BY <1>7, OwnKept DEF List, Goto, Active, RotationEnds, OwnInv, LatestInv, EarlyInv, Early, Confirming, Confirmed, Expired
<1>8. CASE Delete(r)
  BY <1>8 DEF Delete, Goto, Active, RotationEnds, OwnInv, LatestInv, EarlyInv, Early, Confirming, Confirmed, Expired
<1>9. CASE Acknowledge(r)
  BY <1>9 DEF Acknowledge, Goto, Active, RotationEnds, OwnInv, LatestInv, EarlyInv, Early, Confirming, Confirmed, Expired
<1>10. CASE StopRotation(r)
  BY <1>10 DEF StopRotation, Goto, Active, RotationEnds, OwnInv, LatestInv, EarlyInv, Early, Confirming, Confirmed, Expired
<1>11. CASE Finish(r)
  BY <1>11 DEF Finish, Goto, Active, RotationEnds, OwnInv, LatestInv, EarlyInv, Early, Confirming, Confirmed, Expired
<1>12. CASE FinishFault(r)
  BY <1>12 DEF FinishFault, Goto, Active, RotationEnds, OwnInv, LatestInv, EarlyInv, Early, Confirming, Confirmed, Expired
<1>13. CASE Abort(r)
  BY <1>13 DEF Abort, Goto, Active, RotationEnds, OwnInv, LatestInv, EarlyInv, Early, Confirming, Confirmed, Expired
<1>14. CASE Reconcile(r)
  BY <1>14 DEF Reconcile, Goto, Active, RotationEnds, OwnInv, LatestInv, EarlyInv, Early, Confirming, Confirmed, Expired
<1> QED
  BY <1>1, <1>2, <1>3, <1>4, <1>5, <1>6, <1>7, <1>8, <1>9, <1>10, <1>11, <1>12, <1>13, <1>14 DEF Step

\* A crash keeps the invariant.
LEMMA CrashSInv == ASSUME SInv, IInv', Crash PROVE SInv'
<1> USE BackupRunsAssumption DEF SInv, IInv, TypeOK, Crash, Active
<1>1. LatestInv'
  BY DEF LatestInv
<1>2. OwnInv'
  BY DEF OwnInv, Confirming
<1>3. SuccessIsStored'
  BY DEF SuccessIsStored
<1>4. NewestConfirmedKept'
  BY DEF NewestConfirmedKept, Confirmed
<1> QED
  BY <1>1, <1>2, <1>3, <1>4

\* The invariant of steady runs.
THEOREM SInvHolds == ASSUME Steady PROVE Spec => []SInv
<1>1. Init => SInv
  BY InitIInv DEF Init, SInv, LatestInv, OwnInv, SuccessIsStored, NewestConfirmedKept, Confirmed,
     Confirming, Active
<1>2. IInv /\ IInv' /\ SInv /\ [Next]_vars => SInv'
  <2> SUFFICES ASSUME IInv', SInv, [Next]_vars PROVE SInv'
    OBVIOUS
  <2>1. ASSUME NEW r \in Runs, Step(r) PROVE SInv'
    BY <2>1, StepLatestInv, StepOwnInv, StepSuccessIsStored, StepNewestConfirmedKept DEF SInv
  <2>2. CASE UNCHANGED vars
    BY <2>2 DEF vars, run, SInv, LatestInv, OwnInv, SuccessIsStored, NewestConfirmedKept,
       Confirmed, Active
  <2> QED
    BY <2>1, <2>2, CrashSInv DEF Next, Over
<1> QED
  BY <1>1, <1>2, IInvHolds, PTL DEF Spec

\* A row that says success has its artifact, or a warning (BackupService.run).
THEOREM SuccessStaysStored == ASSUME Steady PROVE Spec => []SuccessIsStored
<1>1. SInv => SuccessIsStored
  BY DEF SInv
<1> QED
  BY <1>1, SInvHolds, PTL

\* The newest confirmed artifact is never removed by retention.
THEOREM NewestStaysKept == ASSUME Steady PROVE Spec => []NewestConfirmedKept
<1>1. SInv => NewestConfirmedKept
  BY DEF SInv
<1> QED
  BY <1>1, SInvHolds, PTL
=============================================================================
