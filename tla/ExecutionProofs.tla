--------------------------- MODULE ExecutionProofs ---------------------------
(***************************************************************************)
(* The coordinator, for any number of executions, selections, retries,     *)
(* groups, crashes and failing writes.  First what each transaction of the *)
(* store preserves (ExecutionStore), then the process: the queue and its   *)
(* memory agree in every reachable state (IInv).  From that, every step is *)
(* seen as one transaction of the store followed by the starts of pump()   *)
(* (StepTransacts, StepPumps); groups, artifacts, the order of admission,  *)
(* the limits and the contract are then proved transaction by transaction. *)
(***************************************************************************)
EXTENDS Execution, FiniteSetTheorems, TLAPS

USE StoreAssumption, ExecutionAssumption

-----------------------------------------------------------------------------
(* The store: types. *)

\* The empty database has the types of the schema.
LEMMA EmptyType == EmptyStore \in Store
BY DEF EmptyStore, Store, PairStatus, ExecStatus, AttemptStatus

\* insert() keeps the types.
LEMMA InsertType ==
  ASSUME NEW d \in Store, NEW e \in Executions, NEW S, NEW n \in Nat,
         NEW grp \in [Connections -> Groups]
  PROVE  Insert(d, e, S, n, grp) \in Store
<1> DEFINE ps == [p \in Pairs |-> IF p[1] = e /\ p[2] \in S THEN "queued" ELSE d.pstat[p]]
           es == [d.estat EXCEPT ![e] = "queued"]
           gr == [p \in Pairs |-> IF p[1] = e /\ p[2] \in S THEN grp[ConnOf[p[2]]] ELSE d.group[p]]
           sq == [d.seq EXCEPT ![e] = n]
<1>1. ps \in [Pairs -> PairStatus]
  BY DEF Store, PairStatus, PairReady
<1>2. es \in [Executions -> ExecStatus]
  BY DEF Store, ExecStatus, ExecActive, ExecOpen
<1>3. gr \in [Pairs -> Groups]
  <2>1. \A p \in Pairs : grp[ConnOf[p[2]]] \in Groups
    BY StoreAssumption DEF Pairs
  <2> QED
    BY <2>1 DEF Store
<1>4. sq \in [Executions -> Nat]
  BY DEF Store
<1>5. Insert(d, e, S, n, grp) = [d EXCEPT !.pstat = ps, !.estat = es, !.group = gr, !.seq = sq]
  BY DEF Insert
<1> HIDE DEF ps, es, gr, sq
<1> QED
  BY <1>1, <1>2, <1>3, <1>4, <1>5 DEF Store

\* startAttempt() keeps the types.
LEMMA StartType ==
  ASSUME NEW d \in Store, NEW A \in SUBSET Pairs
  PROVE  StartAttempts(d, A) \in Store
<1> DEFINE ps == [p \in Pairs |-> IF p \in A THEN "running" ELSE d.pstat[p]]
           la == [p \in Pairs |-> IF p \in A THEN "running" ELSE d.last[p]]
           tr == [p \in Pairs |-> IF p \in A THEN d.tries[p] + 1 ELSE d.tries[p]]
           es == [e \in Executions |-> IF \E p \in A : p[1] = e THEN "running" ELSE d.estat[e]]
           rc == d.recorded \ A
<1>1. ps \in [Pairs -> PairStatus]
  BY DEF Store, PairStatus, PairBusy
<1>2. la \in [Pairs -> AttemptStatus]
  BY DEF Store, AttemptStatus
<1>3. tr \in [Pairs -> Nat]
  BY DEF Store
<1>4. es \in [Executions -> ExecStatus]
  BY DEF Store, ExecStatus, ExecActive, ExecOpen
<1>5. rc \in SUBSET Pairs
  BY DEF Store
<1>6. StartAttempts(d, A) = [d EXCEPT !.pstat = ps, !.last = la, !.tries = tr,
                                      !.recorded = rc, !.estat = es]
  BY DEF StartAttempts
<1> HIDE DEF ps, la, tr, es, rc
<1> QED
  BY <1>1, <1>2, <1>3, <1>4, <1>5, <1>6 DEF Store

\* The status computed for an execution is one.
LEMMA AggregateType ==
  ASSUME NEW before, NEW P, NEW stat
  PROVE  Aggregate(before, P, stat) \in ExecStatus \ {"none"}
<1>1. Verdict(P, stat) \in ExecTerminal
  BY DEF Verdict, ExecTerminal
<1>2. Progress(P, stat) \in ExecOpen
  BY DEF Progress, ExecOpen
<1>3. Aggregate(before, P, stat) \in {"cancelled", "cancel_requested", Verdict(P, stat), Progress(P, stat)}
  BY DEF Aggregate
<1> QED
  BY <1>1, <1>2, <1>3 DEF ExecStatus, ExecActive, ExecOpen, ExecTerminal

\* finishAttempt() keeps the types.
LEMMA FinishType ==
  ASSUME NEW d \in Store, NEW p \in Pairs, NEW o \in Outcomes
  PROVE  FinishAttempt(d, p, o) \in Store
<1>1. CASE ~CanFinish(d, p)
  BY <1>1 DEF FinishAttempt
<1>2. CASE CanFinish(d, p)
  <2> DEFINE e == p[1]
             retry == WillRetry(d, p, o)
             stat == [d.pstat EXCEPT ![p] = IF retry THEN "retry_wait" ELSE Recorded(d, p, o)]
             la == [d.last EXCEPT ![p] = Recorded(d, p, o)]
             de == IF retry THEN d.delayed \cup {p} ELSE d.delayed \ {p}
             es == [d.estat EXCEPT ![e] = Aggregate(d.estat[e], PairsOf(d, e), stat)]
  <2>1. Recorded(d, p, o) \in Outcomes
    BY DEF Recorded, Outcomes
  <2>2. stat \in [Pairs -> PairStatus]
    BY <2>1 DEF Store, PairStatus, PairReady, PairTerminal, Outcomes
  <2>3. la \in [Pairs -> AttemptStatus]
    BY <2>1 DEF Store, AttemptStatus
  <2>4. de \in SUBSET Pairs
    BY DEF Store
  <2>5. es \in [Executions -> ExecStatus]
    <3>1. Aggregate(d.estat[e], PairsOf(d, e), stat) \in ExecStatus
      BY AggregateType
    <3> HIDE DEF stat
    <3> QED
      BY <3>1 DEF Store
  <2>6. FinishAttempt(d, p, o) =
          [d EXCEPT !.last = la, !.pstat = stat, !.delayed = de, !.estat = es]
    BY <1>2 DEF FinishAttempt
  <2> HIDE DEF stat, la, de, es
  <2> QED
    BY <2>2, <2>3, <2>4, <2>5, <2>6 DEF Store
<1> QED
  BY <1>1, <1>2

\* requestCancellation() keeps the types.
LEMMA CancelType ==
  ASSUME NEW d \in Store, NEW e \in Executions
  PROVE  RequestCancellation(d, e) \in Store
BY DEF RequestCancellation, Store, PairStatus, PairBusy, PairTerminal, ExecStatus, ExecActive, ExecTerminal

\* prioritize() keeps the types.
LEMMA PriorityType ==
  ASSUME NEW d \in Store, NEW e \in Executions, NEW n \in Nat
  PROVE  SetPriority(d, e, n) \in Store
BY DEF SetPriority, Store

-----------------------------------------------------------------------------
(* The stored status of an execution follows its pairs. *)

\* The status of an execution depends on nothing but its own rows.
LEMMA StatusFrame ==
  ASSUME NEW d, NEW r, NEW e \in Executions,
         \A p \in Pairs : p[1] = e => r.pstat[p] = d.pstat[p],
         r.estat[e] = d.estat[e],
         StatusAgreesOf(d, e)
  PROVE  StatusAgreesOf(r, e)
<1>1. PairsOf(r, e) = PairsOf(d, e)
  BY DEF PairsOf
<1>2. \A p \in PairsOf(d, e) : r.pstat[p] = d.pstat[p]
  BY DEF PairsOf
<1>3. AllTerminal(PairsOf(d, e), r.pstat) <=> AllTerminal(PairsOf(d, e), d.pstat)
  BY <1>2 DEF AllTerminal
<1>4. Progress(PairsOf(d, e), r.pstat) = Progress(PairsOf(d, e), d.pstat)
  BY <1>2 DEF Progress, Some
<1>5. Verdict(PairsOf(d, e), r.pstat) = Verdict(PairsOf(d, e), d.pstat)
  BY <1>2 DEF Verdict, Some
<1> QED
  BY <1>1, <1>2, <1>3, <1>4, <1>5 DEF StatusAgreesOf

\* A new execution is queued, with queued pairs.
LEMMA InsertStatus ==
  ASSUME NEW d \in Store, NEW e \in Executions, d.estat[e] = "none",
         NEW S \in SUBSET Selections, S # {}, NEW n \in Nat, NEW grp,
         \A f \in Executions : StatusAgreesOf(d, f)
  PROVE  \A f \in Executions : StatusAgreesOf(Insert(d, e, S, n, grp), f)
<1> DEFINE r == Insert(d, e, S, n, grp)
<1>1. /\ r.pstat = [p \in Pairs |-> IF p[1] = e /\ p[2] \in S THEN "queued" ELSE d.pstat[p]]
      /\ r.estat = [d.estat EXCEPT ![e] = "queued"]
  BY DEF Insert, Store
<1> HIDE DEF r
<1> SUFFICES ASSUME NEW f \in Executions
             PROVE  StatusAgreesOf(r, f)
  BY DEF r
<1>2. CASE f # e
  <2>1. \A p \in Pairs : p[1] = f => r.pstat[p] = d.pstat[p]
    BY <1>1, <1>2
  <2>2. r.estat[f] = d.estat[f]
    BY <1>1, <1>2 DEF Store
  <2> QED
    BY <2>1, <2>2, StatusFrame
<1>3. CASE f = e
  <2>1. PairsOf(d, e) = {}
    BY DEF StatusAgreesOf
  <2>2. \A p \in PairsOf(r, e) : r.pstat[p] = "queued"
    BY <2>1, <1>1 DEF PairsOf
  <2>3. PICK s \in S : TRUE
    OBVIOUS
  <2>4. <<e, s>> \in PairsOf(r, e)
    BY <1>1 DEF PairsOf, Pairs
  <2>5. r.estat[e] = "queued"
    BY <1>1 DEF Store
  <2>6. ~AllTerminal(PairsOf(r, e), r.pstat)
    BY <2>2, <2>4 DEF AllTerminal, PairTerminal
  <2>7. Progress(PairsOf(r, e), r.pstat) = "queued"
    BY <2>2 DEF Progress, Some
  <2> QED
    BY <1>3, <2>2, <2>4, <2>5, <2>6, <2>7 DEF StatusAgreesOf, ExecOpen, ExecTerminal
<1> QED
  BY <1>2, <1>3

\* An execution of which some pair starts is running.
LEMMA StartStatus ==
  ASSUME NEW d \in Store, NEW A \in SUBSET Ready(d),
         \A f \in Executions : StatusAgreesOf(d, f)
  PROVE  \A f \in Executions : StatusAgreesOf(StartAttempts(d, A), f)
<1> DEFINE r == StartAttempts(d, A)
<1>1. /\ r.pstat = [p \in Pairs |-> IF p \in A THEN "running" ELSE d.pstat[p]]
      /\ r.estat = [f \in Executions |-> IF \E p \in A : p[1] = f THEN "running" ELSE d.estat[f]]
  BY DEF StartAttempts, Store
<1> HIDE DEF r
<1> SUFFICES ASSUME NEW f \in Executions
             PROVE  StatusAgreesOf(r, f)
  BY DEF r
<1>2. CASE ~\E p \in A : p[1] = f
  BY <1>1, <1>2, StatusFrame
<1>3. CASE \E p \in A : p[1] = f
  <2>1. PICK p \in A : p[1] = f
    BY <1>3
  <2>2. p \in Pairs /\ d.estat[f] \in ExecOpen
    BY <2>1 DEF Ready
  <2>3. r.pstat[p] = "running" /\ p \in PairsOf(r, f)
    BY <1>1, <2>1, <2>2 DEF PairsOf
  <2>4. r.estat[f] = "running"
    BY <1>1, <1>3
  <2>5. ~AllTerminal(PairsOf(r, f), r.pstat)
    BY <2>3 DEF AllTerminal, PairTerminal
  <2>6. Progress(PairsOf(r, f), r.pstat) = "running"
    BY <2>3 DEF Progress, Some
  <2>7. \A q \in PairsOf(r, f) : r.pstat[q] \notin {"cancel_requested", "cancelled", "not_started"}
    <3>1. \A q \in PairsOf(d, f) : d.pstat[q] \notin {"cancel_requested", "cancelled", "not_started"}
      BY <2>2 DEF StatusAgreesOf
    <3> QED
      BY <1>1, <3>1 DEF PairsOf
  <2> QED
    BY <2>3, <2>4, <2>5, <2>6, <2>7 DEF StatusAgreesOf, ExecOpen, ExecTerminal
<1> QED
  BY <1>2, <1>3

\* A cancelled execution waits for its running pairs only.
LEMMA CancelStatus ==
  ASSUME NEW d \in Store, NEW e \in Executions,
         \A f \in Executions : StatusAgreesOf(d, f)
  PROVE  \A f \in Executions : StatusAgreesOf(RequestCancellation(d, e), f)
<1>1. CASE d.estat[e] \notin ExecActive
  BY <1>1 DEF RequestCancellation
<1>2. CASE d.estat[e] \in ExecActive
  <2> DEFINE r == RequestCancellation(d, e)
             busy == \E p \in PairsOf(d, e) : d.pstat[p] \in PairBusy
  <2>1. /\ r.pstat = [p \in Pairs |->
                        IF p \notin PairsOf(d, e) THEN d.pstat[p]
                        ELSE IF d.pstat[p] \in PairReady THEN "not_started"
                        ELSE IF d.pstat[p] = "running" THEN "cancel_requested"
                        ELSE d.pstat[p]]
        /\ r.estat = [d.estat EXCEPT ![e] = IF busy THEN "cancel_requested" ELSE "cancelled"]
    BY <1>2 DEF RequestCancellation, Store
  <2> HIDE DEF r
  <2> SUFFICES ASSUME NEW f \in Executions
               PROVE  StatusAgreesOf(r, f)
    BY DEF r
  <2>2. CASE f # e
    <3>1. \A p \in Pairs : p[1] = f => r.pstat[p] = d.pstat[p]
      BY <2>1, <2>2 DEF PairsOf
    <3>2. r.estat[f] = d.estat[f]
      BY <2>1, <2>2 DEF Store
    <3> QED
      BY <3>1, <3>2, StatusFrame
  <2>3. CASE f = e
    <3>1. PairsOf(r, e) = PairsOf(d, e)
      <4>1. \A p \in PairsOf(d, e) :
              d.pstat[p] # "none" /\ d.pstat[p] \in PairStatus
        BY DEF PairsOf, Store
      <4>2. \A p \in Pairs : (r.pstat[p] = "none") <=> (d.pstat[p] = "none")
        BY <2>1, <4>1 DEF PairReady
      <4> QED
        BY <4>2 DEF PairsOf
    <3>5. PairsOf(d, e) # {}
      BY <1>2 DEF StatusAgreesOf, ExecActive, ExecOpen
    <3>2. \A p \in PairsOf(d, e) : r.pstat[p] \in {"cancel_requested"} \cup PairTerminal
      BY <2>1 DEF PairsOf, Store, PairStatus, PairReady, PairBusy, PairTerminal
    <3>3. busy <=> ~AllTerminal(PairsOf(d, e), r.pstat)
      BY <2>1 DEF PairsOf, Store, PairStatus, PairReady, PairBusy, PairTerminal, AllTerminal
    <3>4. r.estat[e] = IF busy THEN "cancel_requested" ELSE "cancelled"
      BY <2>1 DEF Store
    <3> HIDE DEF busy
    <3> QED
      BY <2>3, <3>1, <3>2, <3>3, <3>4, <3>5 DEF StatusAgreesOf, ExecOpen, ExecTerminal
  <2> QED
    BY <2>2, <2>3
<1> QED
  BY <1>1, <1>2

\* finishAttempt() keeps the statuses in agreement, as long as only pairs whose
\* cancellation was requested end as cancelled.
LEMMA FinishStatus ==
  ASSUME NEW d \in Store, NEW p \in Pairs, NEW o \in Outcomes,
         o = "cancelled" => d.pstat[p] # "running",
         \A f \in Executions : StatusAgreesOf(d, f)
  PROVE  \A f \in Executions : StatusAgreesOf(FinishAttempt(d, p, o), f)
<1>1. CASE ~CanFinish(d, p)
  BY <1>1 DEF FinishAttempt
<1>2. CASE CanFinish(d, p)
  <2> DEFINE r == FinishAttempt(d, p, o)
             e == p[1]
             new == IF WillRetry(d, p, o) THEN "retry_wait" ELSE Recorded(d, p, o)
             stat == [d.pstat EXCEPT ![p] = new]
             mine == PairsOf(d, e)
  <2>1. r.pstat = stat /\ r.estat = [d.estat EXCEPT ![e] = Aggregate(d.estat[e], mine, stat)]
    BY <1>2 DEF FinishAttempt, Store
  <2>2. e \in Executions /\ d.pstat[p] \in PairBusy /\ p \in mine
    BY <1>2 DEF CanFinish, Pairs, PairsOf, PairBusy
  <2>3. new \in {"retry_wait"} \cup Outcomes
    BY DEF Recorded, Outcomes
  <2>4. stat \in [Pairs -> PairStatus] /\ stat[p] = new
    BY <2>3 DEF Store, PairStatus, PairReady, PairTerminal, Outcomes
  <2>5. \A q \in Pairs : q # p => stat[q] = d.pstat[q]
    BY DEF Store
  <2>6. PairsOf(r, e) = mine
    BY <2>1, <2>3, <2>4, <2>5, <2>2 DEF PairsOf, Outcomes
  <2>7. StatusAgreesOf(d, e) /\ mine \subseteq Pairs /\ mine # {}
    BY <2>2 DEF PairsOf
  <2>8. r.estat[e] = Aggregate(d.estat[e], mine, stat)
    BY <2>1, <2>2 DEF Store
  <2>9. ~AllTerminal(mine, d.pstat)
    BY <2>2 DEF AllTerminal, PairBusy, PairTerminal
  <2>10. d.estat[e] \in ExecActive
    BY <2>2, <2>7, <2>9 DEF StatusAgreesOf, Store, ExecStatus, ExecActive, ExecTerminal
  <2> HIDE DEF r, stat, mine, new
  <2>11. StatusAgreesOf(r, e)
    <3>1. CASE d.estat[e] = "cancel_requested"
      <4>1. \A q \in mine : d.pstat[q] \in {"cancel_requested"} \cup PairTerminal
        BY <2>7, <3>1 DEF StatusAgreesOf, mine
      <4>2. new \in {"success", "cancelled"}
        BY <4>1, <2>2 DEF new, WillRetry, Recorded, PairBusy, PairTerminal
      <4>3. \A q \in mine : stat[q] \in {"cancel_requested"} \cup PairTerminal
        BY <4>1, <4>2, <2>4, <2>5, <2>7 DEF PairTerminal
      <4>4. r.estat[e] = IF AllTerminal(mine, stat) THEN "cancelled" ELSE "cancel_requested"
        BY <2>8, <3>1 DEF Aggregate
      <4> QED
        BY <2>1, <2>6, <2>7, <4>3, <4>4 DEF StatusAgreesOf, ExecOpen, ExecTerminal
    <3>2. CASE d.estat[e] \in ExecOpen
      <4>1. \A q \in mine : d.pstat[q] \notin {"cancel_requested", "cancelled", "not_started"}
        BY <2>7, <3>2 DEF StatusAgreesOf, mine
      <4>2. new \notin {"cancel_requested", "cancelled", "not_started"}
        BY <4>1, <2>2 DEF new, WillRetry, Recorded, PairBusy, Outcomes
      <4>3. \A q \in mine : stat[q] \notin {"cancel_requested", "cancelled", "not_started"}
        BY <4>1, <4>2, <2>4, <2>5, <2>7
      <4>4. r.estat[e] = IF AllTerminal(mine, stat) THEN Verdict(mine, stat) ELSE Progress(mine, stat)
        BY <2>8, <3>2 DEF Aggregate, ExecOpen
      <4>5. Progress(mine, stat) \in ExecOpen /\ Verdict(mine, stat) \in ExecTerminal \ {"cancelled"}
        BY DEF Progress, Verdict, ExecOpen, ExecTerminal
      <4> QED
        BY <2>1, <2>6, <2>7, <4>3, <4>4, <4>5 DEF StatusAgreesOf, ExecOpen, ExecTerminal
    <3> QED
      BY <2>10, <3>1, <3>2 DEF ExecActive
  <2>12. ASSUME NEW f \in Executions, f # e
         PROVE  StatusAgreesOf(r, f)
    <3>1. r.estat[f] = d.estat[f]
      BY <2>1, <2>12 DEF Store
    <3>2. \A q \in Pairs : q[1] = f => r.pstat[q] = d.pstat[q]
      BY <2>1, <2>5, <2>12
    <3> QED
      BY <3>1, <3>2, StatusFrame
  <2> QED
    BY <2>11, <2>12 DEF r
<1> QED
  BY <1>1, <1>2

-----------------------------------------------------------------------------
(* The latest attempt of a pair follows the pair. *)

\* A pair that has just been inserted has no attempt.
LEMMA InsertAttempts ==
  ASSUME NEW d \in Store, NEW e \in Executions, d.estat[e] = "none",
         NEW S \in SUBSET Selections, NEW n \in Nat, NEW grp,
         \A f \in Executions : StatusAgreesOf(d, f),
         \A p \in Pairs : AttemptsAgreeOf(d, p)
  PROVE  \A p \in Pairs : AttemptsAgreeOf(Insert(d, e, S, n, grp), p)
<1> DEFINE r == Insert(d, e, S, n, grp)
<1>1. /\ r.pstat = [p \in Pairs |-> IF p[1] = e /\ p[2] \in S THEN "queued" ELSE d.pstat[p]]
      /\ r.last = d.last /\ r.tries = d.tries
  BY DEF Insert, Store
<1> HIDE DEF r
<1> SUFFICES ASSUME NEW p \in Pairs
             PROVE  AttemptsAgreeOf(r, p)
  BY DEF r
<1>2. CASE p[1] = e
  <2>1. d.pstat[p] = "none"
    BY <1>2 DEF StatusAgreesOf, PairsOf
  <2> QED
    BY <1>1, <2>1 DEF AttemptsAgreeOf, PairBusy, PairTerminal
<1>3. CASE p[1] # e
  BY <1>1, <1>3 DEF AttemptsAgreeOf
<1> QED
  BY <1>2, <1>3

\* Only a pair with a retry left, or without any attempt, starts another one.
LEMMA StartAttemptsAgree ==
  ASSUME NEW d \in Store, NEW A \in SUBSET Ready(d),
         \A p \in Pairs : AttemptsAgreeOf(d, p)
  PROVE  \A p \in Pairs : AttemptsAgreeOf(StartAttempts(d, A), p)
<1> DEFINE r == StartAttempts(d, A)
<1>1. /\ r.pstat = [p \in Pairs |-> IF p \in A THEN "running" ELSE d.pstat[p]]
      /\ r.last = [p \in Pairs |-> IF p \in A THEN "running" ELSE d.last[p]]
      /\ r.tries = [p \in Pairs |-> IF p \in A THEN d.tries[p] + 1 ELSE d.tries[p]]
  BY DEF StartAttempts, Store
<1> HIDE DEF r
<1> SUFFICES ASSUME NEW p \in Pairs
             PROVE  AttemptsAgreeOf(r, p)
  BY DEF r
<1>2. CASE p \in A
  <2>1. d.tries[p] \in Nat /\ RetryCount[p[2]] \in Nat
    BY DEF Store, Pairs
  <2>2. d.tries[p] <= RetryCount[p[2]]
    BY <1>2, <2>1 DEF AttemptsAgreeOf, Ready, PairReady
  <2>3. r.pstat[p] = "running" /\ r.last[p] = "running" /\ r.tries[p] = d.tries[p] + 1
    BY <1>1, <1>2
  <2> QED
    BY <2>1, <2>2, <2>3 DEF AttemptsAgreeOf, PairBusy, PairTerminal
<1>3. CASE p \notin A
  BY <1>1, <1>3 DEF AttemptsAgreeOf
<1> QED
  BY <1>2, <1>3

\* An attempt ends together with its pair, or leaves it waiting for a retry.
LEMMA FinishAttemptsAgree ==
  ASSUME NEW d \in Store, NEW p \in Pairs, NEW o \in Outcomes,
         \A q \in Pairs : AttemptsAgreeOf(d, q)
  PROVE  \A q \in Pairs : AttemptsAgreeOf(FinishAttempt(d, p, o), q)
<1>1. CASE ~CanFinish(d, p)
  BY <1>1 DEF FinishAttempt
<1>2. CASE CanFinish(d, p)
  <2> DEFINE r == FinishAttempt(d, p, o)
             out == Recorded(d, p, o)
             retry == WillRetry(d, p, o)
  <2>1. /\ r.pstat = [d.pstat EXCEPT ![p] = IF retry THEN "retry_wait" ELSE out]
        /\ r.last = [d.last EXCEPT ![p] = out]
        /\ r.tries = d.tries
    BY <1>2 DEF FinishAttempt, Store
  <2>2. out \in Outcomes
    BY DEF Recorded, Outcomes
  <2>3. retry => out = "failed" /\ d.tries[p] <= RetryCount[p[2]]
    BY DEF WillRetry, Recorded
  <2>4. r.pstat[p] = (IF retry THEN "retry_wait" ELSE out) /\ r.last[p] = out
    BY <2>1 DEF Store
  <2> HIDE DEF r, out, retry
  <2>5. AttemptsAgreeOf(r, p)
    BY <2>1, <2>2, <2>3, <2>4 DEF AttemptsAgreeOf, PairBusy, PairTerminal, Outcomes
  <2>6. ASSUME NEW q \in Pairs, q # p
        PROVE  AttemptsAgreeOf(r, q)
    <3>1. r.pstat[q] = d.pstat[q] /\ r.last[q] = d.last[q] /\ r.tries[q] = d.tries[q]
      BY <2>1, <2>6 DEF Store
    <3> QED
      BY <3>1 DEF AttemptsAgreeOf
  <2> QED
    BY <2>5, <2>6 DEF r
<1> QED
  BY <1>1, <1>2

\* Cancellation touches no attempt.
LEMMA CancelAttempts ==
  ASSUME NEW d \in Store, NEW e \in Executions,
         \A p \in Pairs : AttemptsAgreeOf(d, p)
  PROVE  \A p \in Pairs : AttemptsAgreeOf(RequestCancellation(d, e), p)
<1>1. CASE d.estat[e] \notin ExecActive
  BY <1>1 DEF RequestCancellation
<1>2. CASE d.estat[e] \in ExecActive
  <2> DEFINE r == RequestCancellation(d, e)
  <2>1. /\ r.pstat = [p \in Pairs |->
                        IF p \notin PairsOf(d, e) THEN d.pstat[p]
                        ELSE IF d.pstat[p] \in PairReady THEN "not_started"
                        ELSE IF d.pstat[p] = "running" THEN "cancel_requested"
                        ELSE d.pstat[p]]
        /\ r.last = d.last /\ r.tries = d.tries
    BY <1>2 DEF RequestCancellation, Store
  <2> HIDE DEF r
  <2> SUFFICES ASSUME NEW p \in Pairs
               PROVE  AttemptsAgreeOf(r, p)
    BY DEF r
  <2> QED
    BY <2>1 DEF AttemptsAgreeOf, PairBusy, PairReady, PairTerminal, PairsOf
<1> QED
  BY <1>1, <1>2

-----------------------------------------------------------------------------
(* The process *)

\* The inductive invariant: each part needs the others.
IInv == TypeOK /\ StatusAgrees /\ AttemptsAgree /\ SlotsAgree

\* The part of it that speaks about a store d, workers st and reasons ab.
Good(d, st, ab) ==
  /\ d \in Store
  /\ \A e \in Executions : StatusAgreesOf(d, e)
  /\ \A p \in Pairs : AttemptsAgreeOf(d, p)
  /\ st \in [Pairs -> Stages]
  /\ SlotsAgreeOf(d, st, ab)

\* The next enqueue sequence is a number.
LEMMA NextSeqType == ASSUME NEW d PROVE NextSeq(d) \in Nat
<1>1. IsFiniteSet({e \in Executions : d.estat[e] # "none"})
  BY FS_Subset
<1> QED
  BY <1>1, FS_CardinalityType DEF NextSeq

\* Starting eligible pairs keeps everything in agreement.
LEMMA StartGood ==
  ASSUME NEW d, NEW st, NEW ab, Good(d, st, ab), NEW A \in SUBSET Eligible(d),
         db' = StartAttempts(d, A),
         stage' = [p \in Pairs |-> IF p \in A THEN "working" ELSE st[p]]
  PROVE  /\ Good(db', stage', ab)
         /\ EveryRunHasWorker(d, st) => EveryRunHasWorker(db', stage')
<1>2. A \in SUBSET Ready(d) /\ A \in SUBSET Pairs
  BY DEF Eligible, Ready
<1>3. db' \in Store
  BY <1>2, StartType DEF Good
<1>4. \A e \in Executions : StatusAgreesOf(db', e)
  BY <1>2, StartStatus DEF Good
<1>5. \A p \in Pairs : AttemptsAgreeOf(db', p)
  BY <1>2, StartAttemptsAgree DEF Good
<1>6. stage' \in [Pairs -> Stages]
  BY DEF Good, Stages
<1>7. /\ db'.pstat = [p \in Pairs |-> IF p \in A THEN "running" ELSE d.pstat[p]]
      /\ db'.delayed = d.delayed
  BY DEF Good, StartAttempts, Store
<1>8. \A p \in A : d.pstat[p] \in PairReady
  BY <1>2 DEF Ready
<1>9. SlotsAgreeOf(db', stage', ab)
  <2> SUFFICES ASSUME NEW p \in Pairs
               PROVE  SlotAgrees(db', stage', ab, p)
    BY DEF SlotsAgreeOf
  <2>1. SlotAgrees(d, st, ab, p)
    BY DEF Good, SlotsAgreeOf
  <2>2. CASE p \in A
    BY <1>7, <1>8, <2>1, <2>2 DEF SlotAgrees, PairBusy, PairReady, PairTerminal
  <2>3. CASE p \notin A
    BY <1>7, <2>1, <2>3 DEF SlotAgrees
  <2> QED
    BY <2>2, <2>3
<1>10. EveryRunHasWorker(d, st) => EveryRunHasWorker(db', stage')
  BY <1>7 DEF EveryRunHasWorker
<1> QED
  BY <1>3, <1>4, <1>5, <1>6, <1>9, <1>10 DEF Good

\* pump() keeps everything in agreement, whatever it admits.
LEMMA PumpKeeps ==
  ASSUME NEW d, NEW st, NEW ab, NEW lim, NEW cp,
         Good(d, st, ab), Pump(d, st, lim, cp)
  PROVE  /\ Good(db', stage', ab)
         /\ EveryRunHasWorker(d, st) => EveryRunHasWorker(db', stage')
BY StartGood DEF Pump

\* A store that differs only in what the invariant does not read is as good.
LEMMA SamePairsGood ==
  ASSUME NEW d, NEW st, NEW ab, NEW r \in Store, Good(d, st, ab),
         r.pstat = d.pstat, r.estat = d.estat, r.tries = d.tries, r.last = d.last,
         r.delayed = d.delayed
  PROVE  Good(r, st, ab)
<1>1. \A e \in Executions : StatusAgreesOf(r, e)
  BY StatusFrame DEF Good
<1>2. \A p \in Pairs : AttemptsAgreeOf(r, p)
  BY DEF Good, AttemptsAgreeOf
<1> QED
  BY <1>1, <1>2 DEF Good, SlotsAgreeOf, SlotAgrees

\* insert() keeps everything in agreement: the new pairs have no worker.
LEMMA InsertGood ==
  ASSUME NEW d, NEW st, NEW ab, Good(d, st, ab), NEW e \in Executions, d.estat[e] = "none",
         NEW S \in SUBSET Selections, S # {}, NEW n \in Nat, NEW grp \in [Connections -> Groups]
  PROVE  /\ Good(Insert(d, e, S, n, grp), st, ab)
         /\ EveryRunHasWorker(d, st) => EveryRunHasWorker(Insert(d, e, S, n, grp), st)
<1> DEFINE r == Insert(d, e, S, n, grp)
<1>1. r \in Store
  BY InsertType DEF Good
<1>2. \A f \in Executions : StatusAgreesOf(r, f)
  BY InsertStatus DEF Good
<1>3. \A p \in Pairs : AttemptsAgreeOf(r, p)
  BY InsertAttempts DEF Good
<1>4. /\ r.pstat = [p \in Pairs |-> IF p[1] = e /\ p[2] \in S THEN "queued" ELSE d.pstat[p]]
      /\ r.delayed = d.delayed
  BY DEF Insert, Store, Good
<1>5. \A p \in Pairs : p[1] = e => d.pstat[p] = "none"
  BY DEF Good, StatusAgreesOf, PairsOf
<1> HIDE DEF r
<1>6. SlotsAgreeOf(r, st, ab)
  BY <1>4, <1>5 DEF Good, SlotsAgreeOf, SlotAgrees, PairBusy, PairTerminal
<1>7. EveryRunHasWorker(d, st) => EveryRunHasWorker(r, st)
  BY <1>4 DEF EveryRunHasWorker, PairBusy
<1> QED
  BY <1>1, <1>2, <1>3, <1>6, <1>7 DEF Good, r

\* finishAttempt() keeps everything in agreement when the worker is settled
\* in the same step, or has gone with the process.
LEMMA FinishGood ==
  ASSUME NEW d, NEW st, NEW ab, Good(d, st, ab), NEW p \in Pairs, NEW o \in Outcomes,
         o = "cancelled" => d.pstat[p] # "running",
         NEW fin \in {"none", "settled"}, d.pstat[p] \in PairBusy
  PROVE  LET r == FinishAttempt(d, p, o)
             sr == [st EXCEPT ![p] = fin]
         IN  Good(r, sr, ab) /\ (EveryRunHasWorker(d, st) => EveryRunHasWorker(r, sr))
<1> DEFINE r == FinishAttempt(d, p, o)
           sr == [st EXCEPT ![p] = fin]
<1>1. r \in Store
  BY FinishType DEF Good
<1>2. \A f \in Executions : StatusAgreesOf(r, f)
  BY FinishStatus DEF Good
<1>3. \A q \in Pairs : AttemptsAgreeOf(r, q)
  BY FinishAttemptsAgree DEF Good
<1>4. sr \in [Pairs -> Stages]
  BY DEF Good, Stages
<1>5. CanFinish(d, p)
  BY DEF CanFinish, Good, AttemptsAgreeOf
<1>6. /\ r.pstat = [d.pstat EXCEPT ![p] = IF WillRetry(d, p, o) THEN "retry_wait" ELSE Recorded(d, p, o)]
      /\ r.delayed = IF WillRetry(d, p, o) THEN d.delayed \cup {p} ELSE d.delayed \ {p}
  BY <1>5 DEF FinishAttempt, Store, Good
<1>7. Recorded(d, p, o) \in Outcomes
  BY DEF Recorded, Outcomes
<1>8. WillRetry(d, p, o) => d.pstat[p] = "running"
  BY DEF WillRetry, PairBusy
<1>9. ab[p] = "cancel" => d.pstat[p] = "cancel_requested"
  BY DEF Good, SlotsAgreeOf, SlotAgrees, PairBusy, PairTerminal
<1>10. \A q \in Pairs : q # p => r.pstat[q] = d.pstat[q] /\ sr[q] = st[q] /\ (q \in r.delayed <=> q \in d.delayed)
  BY <1>6 DEF Good, Store
<1>11. /\ r.pstat[p] = IF WillRetry(d, p, o) THEN "retry_wait" ELSE Recorded(d, p, o)
       /\ sr[p] = fin
       /\ WillRetry(d, p, o) => p \in r.delayed
  BY <1>6 DEF Good, Store
<1> HIDE DEF r, sr
<1>12. SlotsAgreeOf(r, sr, ab)
  <2> SUFFICES ASSUME NEW q \in Pairs
               PROVE  SlotAgrees(r, sr, ab, q)
    BY DEF SlotsAgreeOf
  <2>1. CASE q # p
    BY <2>1, <1>10 DEF Good, SlotsAgreeOf, SlotAgrees
  <2>2. CASE q = p /\ WillRetry(d, p, o)
    <3>1. r.pstat[p] = "retry_wait" /\ p \in r.delayed /\ ab[p] # "cancel"
      BY <2>2, <1>8, <1>9, <1>11
    <3> QED
      BY <2>2, <3>1, <1>11 DEF SlotAgrees
  <2>3. CASE q = p /\ ~WillRetry(d, p, o)
    <3>1. r.pstat[p] \in PairTerminal
      BY <2>3, <1>7, <1>11 DEF Outcomes, PairTerminal
    <3> QED
      BY <2>3, <3>1, <1>11 DEF SlotAgrees
  <2> QED
    BY <2>1, <2>2, <2>3
<1>13. EveryRunHasWorker(d, st) => EveryRunHasWorker(r, sr)
  BY <1>7, <1>10, <1>11 DEF EveryRunHasWorker, Outcomes, PairBusy
<1> QED
  BY <1>1, <1>2, <1>3, <1>4, <1>12, <1>13 DEF Good, r, sr

\* requestCancellation() and the abort of the workers keep everything in
\* agreement: after it no pair of the execution is waiting or plainly running.
LEMMA CancelGood ==
  ASSUME NEW d, NEW st, NEW ab, Good(d, st, ab), NEW e \in Executions, d.estat[e] # "none",
         NEW br, \A p \in Pairs : br[p] = "cancel" => ab[p] = "cancel" \/ p \in PairsOf(d, e)
  PROVE  /\ Good(RequestCancellation(d, e), st, br)
         /\ EveryRunHasWorker(d, st) => EveryRunHasWorker(RequestCancellation(d, e), st)
<1> DEFINE r == RequestCancellation(d, e)
<1>1. r \in Store
  BY CancelType DEF Good
<1>2. \A f \in Executions : StatusAgreesOf(r, f)
  BY CancelStatus DEF Good
<1>3. \A q \in Pairs : AttemptsAgreeOf(r, q)
  BY CancelAttempts DEF Good
<1>4. CASE d.estat[e] \in ExecActive
  <2>1. /\ r.pstat = [p \in Pairs |->
                        IF p \notin PairsOf(d, e) THEN d.pstat[p]
                        ELSE IF d.pstat[p] \in PairReady THEN "not_started"
                        ELSE IF d.pstat[p] = "running" THEN "cancel_requested"
                        ELSE d.pstat[p]]
        /\ r.delayed = d.delayed \ {p \in PairsOf(d, e) : d.pstat[p] \in PairReady}
    BY <1>4 DEF RequestCancellation, Store, Good
  <2> HIDE DEF r
  <2>2. SlotsAgreeOf(r, st, br)
    <3> SUFFICES ASSUME NEW p \in Pairs
                 PROVE  SlotAgrees(r, st, br, p)
      BY DEF SlotsAgreeOf
    <3>1. SlotAgrees(d, st, ab, p)
      BY DEF Good, SlotsAgreeOf
    <3>2. CASE p \notin PairsOf(d, e)
      <4>1. r.pstat[p] = d.pstat[p] /\ (p \in r.delayed <=> p \in d.delayed)
        BY <2>1, <3>2
      <4> QED
        BY <3>1, <3>2, <4>1 DEF SlotAgrees
    <3>3. CASE p \in PairsOf(d, e)
      <4>1. d.pstat[p] \in PairReady \cup PairBusy \cup PairTerminal
        BY <3>3 DEF PairsOf, Good, Store, PairStatus
      <4>2. r.pstat[p] \in {"cancel_requested"} \cup PairTerminal
        BY <2>1, <3>3, <4>1 DEF PairBusy, PairTerminal
      <4>3. d.pstat[p] \in PairBusy => r.pstat[p] = "cancel_requested"
        BY <2>1, <3>3, <4>1 DEF PairBusy, PairReady
      <4> QED
        BY <3>1, <4>2, <4>3 DEF SlotAgrees, PairBusy, PairTerminal
    <3> QED
      BY <3>2, <3>3
  <2>3. EveryRunHasWorker(d, st) => EveryRunHasWorker(r, st)
    BY <2>1 DEF EveryRunHasWorker, PairBusy, PairReady
  <2> QED
    BY <1>1, <1>2, <1>3, <2>2, <2>3 DEF Good, r
<1>5. CASE d.estat[e] \notin ExecActive
  <2>1. r = d
    BY <1>5 DEF RequestCancellation
  <2>2. AllTerminal(PairsOf(d, e), d.pstat)
    BY <1>5 DEF Good, StatusAgreesOf, Store, ExecStatus, ExecTerminal, ExecActive
  <2>3. SlotsAgreeOf(d, st, br)
    BY <2>2 DEF Good, SlotsAgreeOf, SlotAgrees, AllTerminal
  <2> QED
    BY <2>1, <2>3 DEF Good
<1> QED
  BY <1>4, <1>5

-----------------------------------------------------------------------------
\* The invariant in terms of its parts.
LEMMA IInvParts ==
  IInv <=> /\ Good(db, stage, abort)
           /\ TypeOK
           /\ phase \in {"up", "draining"} /\ ~dispatchError => EveryRunHasWorker(db, stage)
           /\ phase \in {"down", "recovering"} => Workers(stage) = {}
BY DEF IInv, Good, TypeOK, StatusAgrees, AttemptsAgree, SlotsAgree

\* The group that a connection belongs to is one of the groups.
LEMMA GroupNowType == TypeOK => GroupNow \in [Connections -> Groups]
BY DEF TypeOK, GroupNow

\* Nothing is queued in a new installation.
LEMMA InitIInv == Init => IInv
<1> SUFFICES ASSUME Init
             PROVE  IInv
  OBVIOUS
<1>1. db \in Store
  BY EmptyType DEF Init
<1>2. TypeOK
  <2>1. cap \in [Groups -> 1..8]
    BY DEF Init
  <2>2. alias \in [Connections -> Aliases \cup {NoAlias}] /\ host \in [Connections -> AutoGroups]
    BY DEF Init
  <2>3. stops \in 0..MaxStops /\ faults \in 0..MaxFaults
    BY DEF Init
  <2>4. stage \in [Pairs -> Stages] /\ abort \in [Pairs -> Aborts]
    BY DEF Init, Stages, Aborts
  <2> QED
    BY <1>1, <2>1, <2>2, <2>3, <2>4 DEF Init, TypeOK, Phases
<1>3. \A e \in Executions : PairsOf(db, e) = {} /\ db.estat[e] = "none"
  BY DEF Init, EmptyStore, PairsOf
<1>4. StatusAgrees
  BY <1>3 DEF StatusAgrees, StatusAgreesOf, ExecOpen, ExecTerminal
<1>5. \A p \in Pairs : db.pstat[p] = "none" /\ db.tries[p] = 0 /\ db.last[p] = "none"
  BY DEF Init, EmptyStore
<1>6. AttemptsAgree
  <2> SUFFICES ASSUME NEW p \in Pairs
               PROVE  AttemptsAgreeOf(db, p)
    BY DEF AttemptsAgree
  <2>1. RetryCount[p[2]] \in Nat
    BY DEF Pairs
  <2> QED
    BY <1>5, <2>1 DEF AttemptsAgreeOf, PairBusy, PairTerminal
<1>7. SlotsAgree
  BY <1>5 DEF Init, SlotsAgree, SlotsAgreeOf, SlotAgrees, EveryRunHasWorker, Workers, PairBusy
<1> QED
  BY <1>2, <1>4, <1>6, <1>7 DEF IInv

\* A handler that pumps at its end keeps the invariant when what it did
\* before that is good.
LEMMA PumpIInv ==
  ASSUME IInv, NEW d, NEW lim, NEW cp, NEW st,
         Good(d, st, abort'), EveryRunHasWorker(db, stage) => EveryRunHasWorker(d, st),
         Pump(d, st, lim, cp), phase \in {"up", "draining"},
         limit' \in Limits, cap' \in [Groups -> 1..8],
         alias' \in [Connections -> Aliases \cup {NoAlias}], host' \in [Connections -> AutoGroups],
         abort' \in [Pairs -> Aborts],
         UNCHANGED <<process, stops, faults>>
  PROVE  IInv'
<1>1. Good(db', stage', abort') /\ (EveryRunHasWorker(d, st) => EveryRunHasWorker(db', stage'))
  BY PumpKeeps
<1>2. TypeOK'
  BY <1>1 DEF Good, TypeOK, IInv, process
<1>3. phase' \in {"up", "draining"} /\ ~dispatchError' => EveryRunHasWorker(db', stage')
  BY <1>1, IInvParts DEF process
<1>4. StatusAgrees' /\ AttemptsAgree' /\ SlotsAgreeOf(db, stage, abort)'
  BY <1>1 DEF Good, StatusAgrees, AttemptsAgree
<1> QED
  BY <1>2, <1>3, <1>4 DEF IInv, SlotsAgree, process

\* The same for a step without pump().
LEMMA PlainIInv ==
  ASSUME IInv, Good(db', stage', abort'), abort' \in [Pairs -> Aborts],
         EveryRunHasWorker(db, stage) => EveryRunHasWorker(db', stage'),
         phase \in {"down", "recovering"} => Workers(stage') = {},
         UNCHANGED <<settings, process, stops>>, faults' \in 0..MaxFaults
  PROVE  IInv'
<1>1. TypeOK'
  BY DEF Good, TypeOK, IInv, process, settings
<1>2. StatusAgrees' /\ AttemptsAgree' /\ SlotsAgreeOf(db, stage, abort)'
  BY DEF Good, StatusAgrees, AttemptsAgree
<1> QED
  BY <1>1, <1>2, IInvParts DEF IInv, SlotsAgree, process

-----------------------------------------------------------------------------
(* Every action keeps the invariant. *)

\* Enqueue and Retry insert an execution.
LEMMA InsertStep ==
  ASSUME IInv, NEW e \in Executions, NEW S \in SUBSET Selections, S # {}, Unused(e),
         db' = Insert(db, e, S, NextSeq(db), GroupNow),
         UNCHANGED <<settings, process, stage, abort, stops, faults>>
  PROVE  IInv'
<1>1. Good(db, stage, abort) /\ TypeOK /\ GroupNow \in [Connections -> Groups] /\ NextSeq(db) \in Nat
  BY IInvParts, GroupNowType, NextSeqType
<1>2. Good(db', stage, abort) /\ (EveryRunHasWorker(db, stage) => EveryRunHasWorker(db', stage))
  BY <1>1, InsertGood DEF Unused
<1>3. abort' \in [Pairs -> Aborts] /\ faults' \in 0..MaxFaults
  BY <1>1 DEF TypeOK
<1>4. phase \in {"down", "recovering"} => Workers(stage') = {}
  BY IInvParts
<1> QED
  BY <1>2, <1>3, <1>4, PlainIInv

\* A due schedule that is enqueued and pumped keeps the invariant.
LEMMA RunDueStep ==
  ASSUME IInv, NEW e \in Executions, NEW S \in JobSelections, RunDue(e, S)
  PROVE  IInv'
<1>1. Good(db, stage, abort) /\ TypeOK /\ GroupNow \in [Connections -> Groups] /\ NextSeq(db) \in Nat
  BY IInvParts, GroupNowType, NextSeqType
<1> DEFINE r == Insert(db, e, S, NextSeq(db), GroupNow)
<1>2. Good(r, stage, abort) /\ (EveryRunHasWorker(db, stage) => EveryRunHasWorker(r, stage))
  BY <1>1, InsertGood DEF RunDue, Unused
<1>3. Pump(r, stage, limit, cap)
  BY DEF RunDue
<1>4. phase \in {"up", "draining"}
  BY DEF RunDue, Stopped
<1> HIDE DEF r
<1> QED
  BY <1>1, <1>2, <1>3, <1>4, PumpIInv DEF RunDue, TypeOK, settings

\* A pump on its own keeps the invariant.
LEMMA PumpStepStep == IInv /\ PumpStep => IInv'
BY IInvParts, PumpIInv DEF PumpStep, Stopped, TypeOK, settings

\* A prefix of the admitted pairs is started just as all of them are.
LEMMA PumpFaultStep ==
  ASSUME IInv, PumpFault
  PROVE  IInv'
<1>1. PICK B \in SUBSET Eligible(db) :
        /\ db' = StartAttempts(db, B)
        /\ stage' = [p \in Pairs |-> IF p \in B THEN "working" ELSE stage[p]]
  <2>1. PICK A \in SUBSET Eligible(db), f \in Pairs :
          LET B == {q \in A : Ahead(db, q, f)}
          IN  /\ db' = StartAttempts(db, B)
              /\ stage' = [p \in Pairs |-> IF p \in B THEN "working" ELSE stage[p]]
    BY DEF PumpFault, Eligible, Ready
  <2> QED
    BY <2>1
<1>2. Good(db, stage, abort) /\ TypeOK /\ (phase \in {"up", "draining"} /\ ~dispatchError => EveryRunHasWorker(db, stage))
  BY IInvParts
<1>3. Good(db', stage', abort) /\ (EveryRunHasWorker(db, stage) => EveryRunHasWorker(db', stage'))
  BY <1>1, <1>2, StartGood
<1>4. abort' \in [Pairs -> Aborts] /\ faults' \in 0..MaxFaults
  BY <1>2 DEF PumpFault, TypeOK
<1>5. phase = "up"
  BY DEF PumpFault, Stopped
<1> QED
  BY <1>2, <1>3, <1>4, <1>5, PlainIInv DEF PumpFault

\* The clock and the run row are not read by the rest of the invariant.
LEMMA DelayElapsesStep ==
  ASSUME IInv, NEW p \in Pairs, DelayElapses(p)
  PROVE  IInv'
<1>1. Good(db, stage, abort) /\ TypeOK
  BY IInvParts
<1>2. db' = [db EXCEPT !.delayed = @ \ {p}] /\ stage[p] = "none"
  BY DEF DelayElapses
<1>3. /\ db' \in Store /\ db'.pstat = db.pstat /\ db'.estat = db.estat
      /\ db'.tries = db.tries /\ db'.last = db.last /\ db'.delayed = db.delayed \ {p}
  BY <1>1, <1>2 DEF TypeOK, Store
<1>4. \A e \in Executions : StatusAgreesOf(db', e)
  BY <1>1, <1>3, StatusFrame DEF Good
<1>5. \A q \in Pairs : AttemptsAgreeOf(db', q)
  BY <1>1, <1>3 DEF Good, AttemptsAgreeOf
<1>6. SlotsAgreeOf(db', stage, abort)
  BY <1>1, <1>2, <1>3 DEF Good, SlotsAgreeOf, SlotAgrees
<1>7. Good(db', stage', abort')
  BY <1>1, <1>3, <1>4, <1>5, <1>6 DEF Good, DelayElapses
<1>8. EveryRunHasWorker(db, stage) => EveryRunHasWorker(db', stage')
  BY <1>3 DEF EveryRunHasWorker, DelayElapses
<1>9. abort' \in [Pairs -> Aborts] /\ faults' \in 0..MaxFaults
  BY <1>1 DEF TypeOK, DelayElapses
<1>10. phase \in {"down", "recovering"} => Workers(stage') = {}
  BY IInvParts DEF DelayElapses
<1> QED
  BY <1>7, <1>8, <1>9, <1>10, PlainIInv DEF DelayElapses

\* An attempt that starts its upload keeps the invariant.
LEMMA BeginUploadStep ==
  ASSUME IInv, NEW p \in Pairs, BeginUpload(p)
  PROVE  IInv'
<1>1. Good(db, stage, abort) /\ TypeOK
  BY IInvParts
<1>2. stage' = [stage EXCEPT ![p] = "uploading"] /\ stage[p] = "working" /\ db' = db /\ abort' = abort
  BY DEF BeginUpload
<1>3. stage' \in [Pairs -> Stages]
  BY <1>1, <1>2 DEF TypeOK, Stages
<1>4. SlotsAgreeOf(db', stage', abort')
  BY <1>1, <1>2 DEF Good, SlotsAgreeOf, SlotAgrees
<1>5. Good(db', stage', abort')
  BY <1>1, <1>2, <1>3, <1>4 DEF Good
<1>6. EveryRunHasWorker(db, stage) => EveryRunHasWorker(db', stage')
  BY <1>1, <1>2 DEF EveryRunHasWorker, Good
<1>7. phase \in {"up", "draining"}
  BY <1>1, <1>2, IInvParts DEF Workers, TypeOK, Phases
<1>8. abort' \in [Pairs -> Aborts] /\ faults' \in 0..MaxFaults
  BY <1>1, <1>2 DEF TypeOK, BeginUpload
<1> QED
  BY <1>5, <1>6, <1>7, <1>8, PlainIInv DEF BeginUpload

\* Recording the artifact of a running attempt keeps the invariant.
LEMMA RecordArtifactStep ==
  ASSUME IInv, NEW p \in Pairs, RecordArtifact(p)
  PROVE  IInv'
<1>1. Good(db, stage, abort) /\ TypeOK
  BY IInvParts
<1>2. /\ db' \in Store /\ db'.pstat = db.pstat /\ db'.estat = db.estat
      /\ db'.tries = db.tries /\ db'.last = db.last /\ db'.delayed = db.delayed
  BY <1>1 DEF RecordArtifact, TypeOK, Store
<1>3. Good(db', stage', abort')
  <2>1. Good(db', stage, abort)
    BY <1>1, <1>2, SamePairsGood
  <2> QED
    BY <2>1 DEF RecordArtifact
<1>4. EveryRunHasWorker(db, stage) => EveryRunHasWorker(db', stage')
  BY <1>2 DEF EveryRunHasWorker, RecordArtifact
<1>5. abort' \in [Pairs -> Aborts] /\ faults' \in 0..MaxFaults
  BY <1>1 DEF TypeOK, RecordArtifact
<1>6. phase \in {"down", "recovering"} => Workers(stage') = {}
  BY IInvParts DEF RecordArtifact
<1> QED
  BY <1>3, <1>4, <1>5, <1>6, PlainIInv DEF RecordArtifact

\* An attempt that ends with an outcome its abort reason allows.
LEMMA FinishStep ==
  ASSUME IInv, NEW p \in Pairs, NEW o \in Outcomes, AtWork(p), Finish(p, o),
         o = "cancelled" => abort[p] = "cancel", faults' \in 0..MaxFaults
  PROVE  IInv'
<1>1. Good(db, stage, abort) /\ TypeOK
  BY IInvParts
<1>2. SlotAgrees(db, stage, abort, p)
  BY <1>1 DEF Good, SlotsAgreeOf
<1>3. db.pstat[p] \in PairBusy /\ (o = "cancelled" => db.pstat[p] # "running")
  BY <1>2 DEF SlotAgrees, AtWork, PairTerminal
<1>4. Good(db', stage', abort') /\ (EveryRunHasWorker(db, stage) => EveryRunHasWorker(db', stage'))
  BY <1>1, <1>3, FinishGood DEF Finish
<1>5. phase \in {"up", "draining"}
  BY <1>1, IInvParts DEF AtWork, Workers, TypeOK, Phases
<1>6. abort' \in [Pairs -> Aborts]
  BY <1>1 DEF TypeOK, Finish
<1> QED
  BY <1>4, <1>5, <1>6, PlainIInv DEF Finish

\* Storing the outcome of an attempt keeps the invariant.
LEMMA SettleStep ==
  ASSUME IInv, NEW p \in Pairs, Settle(p)
  PROVE  IInv'
<1>1. abort[p] \in Aborts /\ faults \in 0..MaxFaults
  BY DEF IInv, TypeOK
<1>2. PICK o \in (IF p \in db.recorded THEN {"success"} ELSE Unsuccessful(abort[p])) : Finish(p, o)
  BY DEF Settle
<1>3. o \in Outcomes /\ (o = "cancelled" => abort[p] = "cancel")
  BY <1>1, <1>2 DEF Unsuccessful, Outcomes, Aborts
<1> QED
  BY <1>1, <1>2, <1>3, FinishStep DEF Settle

\* So does storing the outcome of an attempt whose last write failed.
LEMMA SettleFaultStep ==
  ASSUME IInv, NEW p \in Pairs, SettleFault(p)
  PROVE  IInv'
<1>1. faults' \in 0..MaxFaults
  BY DEF SettleFault, IInv, TypeOK
<1>2. (IF abort[p] = "cancel" THEN "cancelled" ELSE "interrupted") \in Outcomes
  BY DEF Outcomes
<1> QED
  BY <1>1, <1>2, FinishStep DEF SettleFault

\* After a failed write the store may know attempts that no worker has: the
\* invariant only speaks of a working database.
LEMMA FinishFaultStep ==
  ASSUME IInv, NEW p \in Pairs, FinishFault(p)
  PROVE  IInv'
<1>1. Good(db, stage, abort) /\ TypeOK
  BY IInvParts
<1>2. stage' = [stage EXCEPT ![p] = "settled"] /\ AtWork(p) /\ db' = db /\ abort' = abort
  BY DEF FinishFault
<1>3. stage' \in [Pairs -> Stages]
  BY <1>1, <1>2 DEF TypeOK, Stages
<1>4. SlotsAgreeOf(db', stage', abort')
  BY <1>1, <1>2 DEF Good, SlotsAgreeOf, SlotAgrees, AtWork
<1>5. TypeOK'
  BY <1>1, <1>2, <1>3 DEF TypeOK, FinishFault, settings
<1>6. phase' \in {"up", "draining"} /\ dispatchError'
  BY <1>1, <1>2, IInvParts DEF AtWork, Workers, TypeOK, Phases, FinishFault
<1>7. StatusAgrees' /\ AttemptsAgree'
  BY <1>2 DEF IInv, StatusAgrees, AttemptsAgree
<1> QED
  BY <1>4, <1>5, <1>6, <1>7 DEF IInv, SlotsAgree

\* Freeing a slot and pumping keeps the invariant.
LEMMA ReleaseStep ==
  ASSUME IInv, NEW p \in Pairs, Release(p)
  PROVE  IInv'
<1>1. Good(db, stage, abort) /\ TypeOK
  BY IInvParts
<1> DEFINE st == [stage EXCEPT ![p] = "none"]
<1>2. stage[p] = "settled" /\ abort' = [abort EXCEPT ![p] = "none"] /\ Pump(db, st, limit, cap)
  BY DEF Release
<1>3. st \in [Pairs -> Stages] /\ abort' \in [Pairs -> Aborts]
  BY <1>1, <1>2 DEF TypeOK, Stages, Aborts
<1>4. SlotsAgreeOf(db, st, abort')
  BY <1>1, <1>2 DEF TypeOK, Good, SlotsAgreeOf, SlotAgrees
<1>5. Good(db, st, abort')
  BY <1>1, <1>3, <1>4 DEF Good
<1>6. EveryRunHasWorker(db, stage) => EveryRunHasWorker(db, st)
  BY <1>1, <1>2 DEF EveryRunHasWorker, TypeOK
<1>7. phase \in {"up", "draining"}
  BY <1>1, <1>2, IInvParts DEF Workers, TypeOK, Phases
<1> HIDE DEF st
<1> QED
  BY <1>1, <1>2, <1>3, <1>5, <1>6, <1>7, PumpIInv DEF Release, TypeOK, settings

\* Workers that are told to stop stay in agreement when their pairs are.
LEMMA AbortedType ==
  ASSUME TypeOK, NEW W, NEW reason \in Aborts
  PROVE  Aborted(W, reason) \in [Pairs -> Aborts]
BY DEF Aborted, TypeOK

\* A cancellation, with the pump behind it, keeps the invariant.
LEMMA CancelStep ==
  ASSUME IInv, NEW e \in Executions, NEW confirmed \in BOOLEAN, Cancel(e, confirmed)
  PROVE  IInv'
<1>1. Good(db, stage, abort) /\ TypeOK
  BY IInvParts
<1> DEFINE r == RequestCancellation(db, e)
<1>2. abort' = Aborted(PairsOf(db, e), "cancel")
  BY DEF Cancel
<1>3. abort' \in [Pairs -> Aborts]
  BY <1>1, <1>2, AbortedType DEF Aborts
<1>4. \A p \in Pairs : abort'[p] = "cancel" => abort[p] = "cancel" \/ p \in PairsOf(db, e)
  BY <1>2 DEF Aborted
<1>5. Good(r, stage, abort') /\ (EveryRunHasWorker(db, stage) => EveryRunHasWorker(r, stage))
  BY <1>1, <1>4, CancelGood DEF Cancel, Unused
<1>6. Pump(r, stage, limit, cap) /\ phase \in {"up", "draining"}
  BY DEF Cancel, Serving
<1> HIDE DEF r
<1> QED
  BY <1>1, <1>3, <1>5, <1>6, PumpIInv DEF Cancel, TypeOK, settings

\* A new priority keeps the invariant.
LEMMA MoveAheadStep ==
  ASSUME IInv, NEW e \in Executions, MoveAhead(e)
  PROVE  IInv'
<1>1. Good(db, stage, abort) /\ TypeOK
  BY IInvParts
<1>2. PICK n \in Nat : Pump(SetPriority(db, e, n), stage, limit, cap)
  BY DEF MoveAhead
<1> DEFINE r == SetPriority(db, e, n)
<1>3. /\ r \in Store /\ r.pstat = db.pstat /\ r.estat = db.estat
      /\ r.tries = db.tries /\ r.last = db.last /\ r.delayed = db.delayed
  BY <1>1, PriorityType DEF TypeOK, SetPriority, Store
<1> HIDE DEF r
<1>4. Good(r, stage, abort)
  BY <1>1, <1>3, SamePairsGood
<1>5. EveryRunHasWorker(db, stage) => EveryRunHasWorker(r, stage)
  BY <1>3 DEF EveryRunHasWorker
<1>6. phase \in {"up", "draining"} /\ abort' = abort
  BY DEF MoveAhead, Serving
<1>7. Pump(r, stage, limit, cap)
  BY <1>2 DEF r
<1> QED
  BY <1>1, <1>4, <1>5, <1>6, <1>7, PumpIInv DEF MoveAhead, TypeOK, settings

\* A change of settings followed by pump().
LEMMA ConfigureStep ==
  ASSUME IInv, NEW n \in Limits, Configure(n)
  PROVE  IInv'
<1>1. Good(db, stage, abort) /\ TypeOK
  BY IInvParts
<1>2. phase \in {"up", "draining"} /\ Pump(db, stage, n, cap)
  BY DEF Configure, Serving
<1> QED
  BY <1>1, <1>2, PumpIInv DEF Configure, TypeOK

\* Assigning connections to an alias keeps the invariant.
LEMMA AssignAliasStep ==
  ASSUME IInv, NEW g \in Aliases, NEW C \in SUBSET Connections, NEW k \in GroupLimits,
         AssignAlias(g, C, k)
  PROVE  IInv'
<1>1. Good(db, stage, abort) /\ TypeOK
  BY IInvParts
<1>2. phase \in {"up", "draining"} /\ Pump(db, stage, limit, cap')
  BY DEF AssignAlias, Serving
<1>3. alias' \in [Connections -> Aliases \cup {NoAlias}]
  BY <1>1 DEF AssignAlias, TypeOK
<1>4. cap' \in [Groups -> 1..8]
  BY <1>1 DEF AssignAlias, TypeOK
<1> QED
  BY <1>1, <1>2, <1>3, <1>4, PumpIInv DEF AssignAlias, TypeOK

\* A new limit of an automatic group keeps the invariant.
LEMMA LimitGroupStep ==
  ASSUME IInv, NEW g \in AutoGroups, NEW k \in GroupLimits, LimitGroup(g, k)
  PROVE  IInv'
<1>1. Good(db, stage, abort) /\ TypeOK
  BY IInvParts
<1>2. phase \in {"up", "draining"} /\ Pump(db, stage, limit, cap')
  BY DEF LimitGroup, Serving
<1>3. cap' \in [Groups -> 1..8]
  BY <1>1 DEF LimitGroup, TypeOK
<1> QED
  BY <1>1, <1>2, <1>3, PumpIInv DEF LimitGroup, TypeOK

\* Another host of a connection keeps the invariant.
LEMMA MoveConnectionStep ==
  ASSUME IInv, NEW c \in Connections, NEW g \in AutoGroups, MoveConnection(c, g)
  PROVE  IInv'
<1>1. TypeOK'
  BY DEF MoveConnection, IInv, TypeOK, process
<1>2. UNCHANGED <<db, phase, stage, abort, dispatchError>>
  BY DEF MoveConnection, process
<1>3. StatusAgrees' /\ AttemptsAgree' /\ SlotsAgree'
  BY <1>2 DEF IInv, StatusAgrees, AttemptsAgree, SlotsAgree, Workers
<1> QED
  BY <1>1, <1>3 DEF IInv

\* Shutdown aborts with a reason of its own.
LEMMA ShutdownStep ==
  ASSUME IInv, Shutdown
  PROVE  IInv'
<1>1. TypeOK /\ SlotsAgree /\ StatusAgrees /\ AttemptsAgree
  BY DEF IInv
<1>2. abort' = Aborted(Pairs, "shutdown") /\ abort' \in [Pairs -> Aborts]
  BY <1>1, AbortedType DEF Shutdown, Aborts
<1>3. TypeOK'
  BY <1>1, <1>2 DEF Shutdown, TypeOK, settings, Phases
<1>4. UNCHANGED <<db, stage, dispatchError>> /\ phase = "up" /\ phase' = "draining"
  BY DEF Shutdown
<1>5. \A p \in Pairs : abort'[p] = "cancel" => abort[p] = "cancel"
  BY <1>2 DEF Aborted
<1>6. StatusAgrees' /\ AttemptsAgree' /\ SlotsAgree'
  BY <1>1, <1>4, <1>5 DEF StatusAgrees, AttemptsAgree, SlotsAgree, SlotsAgreeOf, SlotAgrees
<1> QED
  BY <1>3, <1>6 DEF IInv

\* Without a process there are no workers to disagree with the store.
LEMMA VanishStep ==
  ASSUME IInv, Vanish, stops' \in 0..MaxStops
  PROVE  IInv'
<1>1. TypeOK'
  BY DEF IInv, TypeOK, Vanish, settings, Phases, Stages, Aborts
<1>2. StatusAgrees' /\ AttemptsAgree'
  BY DEF IInv, StatusAgrees, AttemptsAgree, Vanish
<1>3. SlotsAgree'
  BY DEF Vanish, SlotsAgree, SlotsAgreeOf, SlotAgrees, Workers
<1> QED
  BY <1>1, <1>2, <1>3 DEF IInv

\* A process that starts keeps the invariant.
LEMMA BootStep == IInv /\ Boot => IInv'
<1> SUFFICES ASSUME IInv, Boot
             PROVE  IInv'
  OBVIOUS
<1>1. TypeOK'
  BY DEF IInv, TypeOK, Boot, settings, Phases
<1>2. StatusAgrees' /\ AttemptsAgree' /\ SlotsAgree'
  BY DEF IInv, StatusAgrees, AttemptsAgree, SlotsAgree, Workers, Boot
<1> QED
  BY <1>1, <1>2 DEF IInv

\* Recovery ends running attempts as interrupted or, with an artifact, as
\* successful: never as cancelled.
LEMMA RecoverAttemptStep ==
  ASSUME IInv, NEW p \in Pairs, RecoverAttempt(p)
  PROVE  IInv'
<1>1. Good(db, stage, abort) /\ TypeOK /\ Workers(stage) = {} /\ phase = "recovering"
  BY IInvParts DEF RecoverAttempt
<1> DEFINE o == IF p \in db.recorded THEN "success" ELSE "interrupted"
<1>2. o \in Outcomes /\ o # "cancelled" /\ db' = FinishAttempt(db, p, o)
  BY DEF Outcomes, RecoverAttempt
<1>3. db.pstat[p] \in PairBusy
  BY <1>1 DEF Good, AttemptsAgreeOf, RecoverAttempt
<1>4. stage[p] = "none" /\ [stage EXCEPT ![p] = "none"] = stage
  BY <1>1 DEF Workers, TypeOK
<1> HIDE DEF o
<1>5. Good(db', stage, abort)
  <2>1. Good(FinishAttempt(db, p, o), [stage EXCEPT ![p] = "none"], abort)
    BY <1>1, <1>2, <1>3, FinishGood
  <2> QED
    BY <1>2, <1>4, <2>1
<1>6. UNCHANGED <<stage, abort, process, settings, stops, faults>>
  BY DEF RecoverAttempt
<1>7. TypeOK'
  BY <1>1, <1>5, <1>6 DEF Good, TypeOK, process, settings
<1>8. StatusAgrees' /\ AttemptsAgree' /\ SlotsAgree'
  BY <1>1, <1>5, <1>6 DEF Good, StatusAgrees, AttemptsAgree, SlotsAgree, process, Workers
<1> QED
  BY <1>7, <1>8 DEF IInv

\* When the process is up again no pair is left running without a worker.
LEMMA BootDoneStep ==
  ASSUME IInv, BootDone
  PROVE  IInv'
<1>1. TypeOK /\ StatusAgrees /\ AttemptsAgree /\ SlotsAgree
  BY DEF IInv
<1>2. TypeOK'
  BY <1>1 DEF TypeOK, BootDone, settings, Phases
<1>3. \A p \in Pairs : db.pstat[p] \notin PairBusy
  BY <1>1 DEF AttemptsAgree, AttemptsAgreeOf, BootDone
<1>4. StatusAgrees' /\ AttemptsAgree' /\ SlotsAgree'
  BY <1>1, <1>3 DEF StatusAgrees, AttemptsAgree, SlotsAgree, EveryRunHasWorker, BootDone
<1> QED
  BY <1>2, <1>4 DEF IInv

-----------------------------------------------------------------------------
\* Each action of Next keeps the invariant.
LEMMA NextIInv == IInv /\ [Next]_vars => IInv'
<1> SUFFICES ASSUME IInv, [Next]_vars
             PROVE  IInv'
  OBVIOUS
<1>1. CASE Submit
  <2>1. ASSUME NEW e \in Executions, NEW S \in JobSelections, Enqueue(e, S)
        PROVE  IInv'
    BY <2>1, InsertStep DEF Enqueue
  <2>2. ASSUME NEW e \in Executions, NEW parent \in Executions, NEW S \in SUBSET Selections,
               Retry(e, parent, S)
        PROVE  IInv'
    BY <2>2, InsertStep DEF Retry
  <2> QED
    BY <1>1, <2>1, <2>2, RunDueStep DEF Submit
<1>2. CASE PumpStep \/ PumpFault
  BY <1>2, PumpStepStep, PumpFaultStep
<1>3. CASE Attempt
  BY <1>3, BeginUploadStep, RecordArtifactStep, SettleStep, ReleaseStep, SettleFaultStep,
     FinishFaultStep, DelayElapsesStep DEF Attempt
<1>4. CASE Administer
  BY <1>4, MoveAheadStep, CancelStep, ConfigureStep, AssignAliasStep, LimitGroupStep,
     MoveConnectionStep DEF Administer
<1>5. CASE Lifecycle
  <2>1. CASE Exit
    BY <2>1, VanishStep DEF Exit, IInv, TypeOK
  <2>2. CASE Crash
    <3>1. stops' \in 0..MaxStops
      BY <2>2 DEF Crash, IInv, TypeOK
    <3> QED
      BY <2>2, <3>1, VanishStep DEF Crash
  <2> QED
    BY <1>5, <2>1, <2>2, ShutdownStep, BootStep, RecoverAttemptStep, BootDoneStep DEF Lifecycle
<1>6. CASE UNCHANGED vars
  <2>1. TypeOK'
    BY <1>6 DEF vars, IInv, TypeOK
  <2> QED
    BY <1>6, <2>1 DEF vars, IInv, StatusAgrees, AttemptsAgree, SlotsAgree, Workers
<1> QED
  BY <1>1, <1>2, <1>3, <1>4, <1>5, <1>6 DEF Next

\* The queue and the memory of the process agree in every reachable state.
THEOREM IInvHolds == Spec => []IInv
BY InitIInv, NextIInv, PTL DEF Spec

\* The queue, the settings and the workers keep their types.
THEOREM TypeCorrect == Spec => []TypeOK
<1>1. IInv => TypeOK
  BY DEF IInv
<1> QED
  BY <1>1, IInvHolds, PTL

\* The stored status of every execution says what its pairs say.
THEOREM StatusCorrect == Spec => []StatusAgrees
<1>1. IInv => StatusAgrees
  BY DEF IInv
<1> QED
  BY <1>1, IInvHolds, PTL

\* Attempts agree with their pairs and are never more than configured.
THEOREM AttemptsCorrect == Spec => []AttemptsAgree
<1>1. IInv => AttemptsAgree
  BY DEF IInv
<1> QED
  BY <1>1, IInvHolds, PTL

\* Slots agree with the store through failing writes and restarts.
THEOREM SlotsCorrect == Spec => []SlotsAgree
<1>1. IInv => SlotsAgree
  BY DEF IInv
<1> QED
  BY <1>1, IInvHolds, PTL

-----------------------------------------------------------------------------
(* What a step does to the queue: one transaction of the store, then the   *)
(* starts of pump().                                                       *)

\* The fields that startAttempt() changes, and those it does not.
LEMMA StartFields ==
  ASSUME NEW d \in Store, NEW A \in SUBSET Pairs
  PROVE  LET r == StartAttempts(d, A)
         IN  /\ r.pstat = [p \in Pairs |-> IF p \in A THEN "running" ELSE d.pstat[p]]
             /\ r.last = [p \in Pairs |-> IF p \in A THEN "running" ELSE d.last[p]]
             /\ r.tries = [p \in Pairs |-> IF p \in A THEN d.tries[p] + 1 ELSE d.tries[p]]
             /\ r.estat = [e \in Executions |-> IF \E p \in A : p[1] = e THEN "running" ELSE d.estat[e]]
             /\ r.recorded = d.recorded \ A
             /\ r.delayed = d.delayed /\ r.group = d.group /\ r.seq = d.seq /\ r.prio = d.prio
BY DEF StartAttempts, Store

\* Starting nothing changes nothing.
LEMMA StartNothing ==
  ASSUME NEW d \in Store
  PROVE  StartAttempts(d, {}) = d
<1> DEFINE r == StartAttempts(d, {})
<1>1. r \in Store
  BY StartType
<1>2. /\ r.pstat = d.pstat /\ r.last = d.last /\ r.tries = d.tries /\ r.estat = d.estat
      /\ r.recorded = d.recorded
      /\ r.delayed = d.delayed /\ r.group = d.group /\ r.seq = d.seq /\ r.prio = d.prio
  <2>1. {} \in SUBSET Pairs
    OBVIOUS
  <2>2. /\ r.pstat = [p \in Pairs |-> IF p \in {} THEN "running" ELSE d.pstat[p]]
        /\ r.last = [p \in Pairs |-> IF p \in {} THEN "running" ELSE d.last[p]]
        /\ r.tries = [p \in Pairs |-> IF p \in {} THEN d.tries[p] + 1 ELSE d.tries[p]]
        /\ r.estat = [e \in Executions |-> IF \E p \in {} : p[1] = e THEN "running" ELSE d.estat[e]]
        /\ r.recorded = d.recorded \ {}
        /\ r.delayed = d.delayed /\ r.group = d.group /\ r.seq = d.seq /\ r.prio = d.prio
    BY <2>1, StartFields
  <2> HIDE DEF r
  <2> QED
    BY <2>2 DEF Store
<1> HIDE DEF r
<1>3. r = d
  BY <1>1, <1>2 DEF Store
<1> QED
  BY <1>3 DEF r

\* insert() of a new execution.
Inserting(r) ==
  \E e \in Executions, S \in SUBSET Selections :
    /\ S # {}
    /\ db.estat[e] = "none"
    /\ r = Insert(db, e, S, NextSeq(db), GroupNow)

\* finishAttempt() of a running attempt: only a pair that was told to cancel
\* ends as cancelled, only one with an artifact as a success and, unless the
\* database fails, every one with an artifact.
Finishing(r) ==
  \E p \in Pairs, o \in Outcomes :
    /\ db.pstat[p] \in PairBusy
    /\ o = "cancelled" => db.pstat[p] # "running"
    /\ o = "success" => p \in db.recorded
    /\ MaxFaults = 0 => (p \in db.recorded => o = "success")
    /\ r = FinishAttempt(db, p, o)

\* requestCancellation() of an execution.
Cancelling(r) == \E e \in Executions : db.estat[e] # "none" /\ r = RequestCancellation(db, e)

\* What neither ends nor submits anything.
Adjusting(r) ==
  \/ r = db
  \/ \E e \in Executions, n \in Nat : r = SetPriority(db, e, n)
  \/ \E p \in Pairs : r = [db EXCEPT !.delayed = @ \ {p}]
  \/ \E p \in Pairs : db.pstat[p] \in PairBusy /\ r = [db EXCEPT !.recorded = @ \cup {p}]

\* The store between the two parts of a step.
Transacted(r) ==
  /\ r \in Store
  /\ Inserting(r) \/ Finishing(r) \/ Cancelling(r) \/ Adjusting(r)

\* Some eligible pairs of r start.
StartsAfter(r) == \E A \in SUBSET Eligible(r) : db' = StartAttempts(r, A)

\* A step of the queue: a transaction, then starts.
QueueStep == \E r : Transacted(r) /\ StartsAfter(r)

\* pump() starts eligible pairs.
LEMMA PumpStarts ==
  ASSUME NEW d, NEW st, NEW lim, NEW cp, Pump(d, st, lim, cp)
  PROVE  StartsAfter(d)
BY DEF Pump, StartsAfter

\* A step without a pump is one that starts nothing.
LEMMA WithoutStarts ==
  ASSUME NEW r, Transacted(r), db' = r
  PROVE  QueueStep
<1>1. db' = StartAttempts(r, {})
  BY StartNothing DEF Transacted
<1> QED
  BY <1>1 DEF QueueStep, StartsAfter

\* Every step is a transaction followed by starts.
LEMMA StepTransacts ==
  ASSUME IInv, [Next]_vars
  PROVE  QueueStep
<1>1. /\ db \in Store /\ GroupNow \in [Connections -> Groups] /\ NextSeq(db) \in Nat
      /\ Good(db, stage, abort) /\ TypeOK
  BY IInvParts, GroupNowType, NextSeqType DEF TypeOK
<1>2. Transacted(db)
  BY <1>1 DEF Transacted, Adjusting
<1>3. ASSUME NEW e \in Executions, NEW S \in SUBSET Selections, S # {}, Unused(e)
      PROVE  Transacted(Insert(db, e, S, NextSeq(db), GroupNow))
  BY <1>1, <1>3, InsertType DEF Transacted, Inserting, Unused
<1>4. ASSUME NEW p \in Pairs, NEW o \in Outcomes, db.pstat[p] \in PairBusy,
             o = "cancelled" => db.pstat[p] # "running",
             o = "success" => p \in db.recorded,
             MaxFaults = 0 => (p \in db.recorded => o = "success")
      PROVE  Transacted(FinishAttempt(db, p, o))
  BY <1>1, <1>4, FinishType DEF Transacted, Finishing
<1>5. CASE Submit
  <2>1. ASSUME NEW e \in Executions, NEW S \in JobSelections, Enqueue(e, S)
        PROVE  QueueStep
    <3>1. S \in SUBSET Selections /\ S # {}
      OBVIOUS
    <3>2. Unused(e) /\ db' = Insert(db, e, S, NextSeq(db), GroupNow)
      BY <2>1 DEF Enqueue
    <3> QED
      BY <1>3, <3>1, <3>2, WithoutStarts
  <2>2. ASSUME NEW e \in Executions, NEW S \in JobSelections, RunDue(e, S)
        PROVE  QueueStep
    <3> DEFINE r == Insert(db, e, S, NextSeq(db), GroupNow)
    <3>3. S \in SUBSET Selections /\ S # {}
      OBVIOUS
    <3>4. Unused(e)
      BY <2>2 DEF RunDue
    <3>1. Transacted(r)
      BY <1>3, <3>3, <3>4
    <3>2. Pump(r, stage, limit, cap)
      BY <2>2 DEF RunDue
    <3> HIDE DEF r
    <3> QED
      BY <3>1, <3>2, PumpStarts DEF QueueStep
  <2>3. ASSUME NEW e \in Executions, NEW parent \in Executions, NEW S \in SUBSET Selections,
               Retry(e, parent, S)
        PROVE  QueueStep
    BY <1>3, <2>3, WithoutStarts DEF Retry
  <2> QED
    BY <1>5, <2>1, <2>2, <2>3 DEF Submit
<1>6. CASE PumpStep \/ PumpFault
  <2>1. CASE PumpStep
    BY <1>2, <2>1, PumpStarts DEF PumpStep, QueueStep
  <2>2. CASE PumpFault
    <3>1. PICK A \in SUBSET Eligible(db) :
            /\ Admits(db, Workers(stage), A, limit, cap)
            /\ \E f \in A :
                 LET B == {q \in A : Ahead(db, q, f)}
                 IN  /\ db' = StartAttempts(db, B)
                     /\ stage' = [p \in Pairs |-> IF p \in B THEN "working" ELSE stage[p]]
      BY <2>2 DEF PumpFault
    <3>3. PICK f \in A : db' = StartAttempts(db, {q \in A : Ahead(db, q, f)})
      BY <3>1
    <3>2. {q \in A : Ahead(db, q, f)} \in SUBSET Eligible(db)
      OBVIOUS
    <3> QED
      BY <1>2, <3>2, <3>3 DEF QueueStep, StartsAfter
  <2> QED
    BY <1>6, <2>1, <2>2
<1>7. CASE Attempt
  <2>1. ASSUME NEW p \in Pairs, NEW o \in Outcomes, AtWork(p), Finish(p, o),
               o = "cancelled" => abort[p] = "cancel",
               o = "success" => p \in db.recorded,
               MaxFaults = 0 => (p \in db.recorded => o = "success")
        PROVE  QueueStep
    <3>1. SlotAgrees(db, stage, abort, p)
      BY <1>1 DEF Good, SlotsAgreeOf
    <3>2. db.pstat[p] \in PairBusy /\ (o = "cancelled" => db.pstat[p] # "running")
      BY <2>1, <3>1 DEF SlotAgrees, AtWork, PairTerminal
    <3> QED
      BY <1>4, <2>1, <3>2, WithoutStarts DEF Finish
  <2>2. PICK p \in Pairs : \/ BeginUpload(p) \/ RecordArtifact(p) \/ Settle(p) \/ Release(p)
                           \/ SettleFault(p) \/ FinishFault(p) \/ DelayElapses(p)
    BY <1>7 DEF Attempt
  <2>3. CASE BeginUpload(p) \/ FinishFault(p)
    BY <1>2, <2>3, WithoutStarts DEF BeginUpload, FinishFault
  <2>4. CASE RecordArtifact(p)
    <3>1. db.pstat[p] \in PairBusy
      BY <1>1, <2>4 DEF RecordArtifact, Good, SlotsAgreeOf, SlotAgrees
    <3>2. [db EXCEPT !.recorded = @ \cup {p}] \in Store
      BY <1>1 DEF Store
    <3>3. Transacted([db EXCEPT !.recorded = @ \cup {p}])
      BY <3>1, <3>2 DEF Transacted, Adjusting
    <3> QED
      BY <2>4, <3>3, WithoutStarts DEF RecordArtifact
  <2>5. CASE Settle(p)
    <3>1. abort[p] \in Aborts
      BY <1>1 DEF TypeOK
    <3>2. PICK o \in (IF p \in db.recorded THEN {"success"} ELSE Unsuccessful(abort[p])) : Finish(p, o)
      BY <2>5 DEF Settle
    <3>3. /\ o \in Outcomes /\ (o = "cancelled" => abort[p] = "cancel")
          /\ o = "success" <=> p \in db.recorded
      BY <3>1, <3>2 DEF Unsuccessful, Outcomes, Aborts
    <3> QED
      BY <2>1, <2>5, <3>2, <3>3 DEF Settle
  <2>6. CASE Release(p)
    BY <1>2, <2>6, PumpStarts DEF Release, QueueStep
  <2>7. CASE SettleFault(p)
    <3>1. MaxFaults # 0
      BY <1>1, <2>7 DEF SettleFault, TypeOK
    <3>2. (IF abort[p] = "cancel" THEN "cancelled" ELSE "interrupted") \in Outcomes \ {"success"}
      BY DEF Outcomes
    <3> QED
      BY <2>1, <2>7, <3>1, <3>2 DEF SettleFault
  <2>8. CASE DelayElapses(p)
    <3>1. [db EXCEPT !.delayed = @ \ {p}] \in Store
      BY <1>1 DEF Store
    <3>2. Transacted([db EXCEPT !.delayed = @ \ {p}])
      BY <3>1 DEF Transacted, Adjusting
    <3> QED
      BY <2>8, <3>2, WithoutStarts DEF DelayElapses
  <2> QED
    BY <2>2, <2>3, <2>4, <2>5, <2>6, <2>7, <2>8
<1>8. CASE Administer
  <2>1. ASSUME NEW e \in Executions, MoveAhead(e)
        PROVE  QueueStep
    <3>1. PICK n \in Nat : Pump(SetPriority(db, e, n), stage, limit, cap)
      BY <2>1 DEF MoveAhead
    <3>2. Transacted(SetPriority(db, e, n))
      BY <1>1, PriorityType DEF Transacted, Adjusting
    <3> QED
      BY <3>1, <3>2, PumpStarts DEF QueueStep
  <2>2. ASSUME NEW e \in Executions, NEW confirmed \in BOOLEAN, Cancel(e, confirmed)
        PROVE  QueueStep
    <3>1. Transacted(RequestCancellation(db, e))
      BY <1>1, <2>2, CancelType DEF Transacted, Cancelling, Cancel, Unused
    <3> QED
      BY <2>2, <3>1, PumpStarts DEF Cancel, QueueStep
  <2>3. ASSUME NEW lim, NEW cp, Pump(db, stage, lim, cp)
        PROVE  QueueStep
    BY <1>2, <2>3, PumpStarts DEF QueueStep
  <2>4. ASSUME NEW c \in Connections, NEW g \in AutoGroups, MoveConnection(c, g)
        PROVE  QueueStep
    BY <1>2, <2>4, WithoutStarts DEF MoveConnection
  <2> QED
    BY <1>8, <2>1, <2>2, <2>3, <2>4 DEF Administer, Configure, AssignAlias, LimitGroup
<1>9. CASE Lifecycle
  <2>1. ASSUME NEW p \in Pairs, RecoverAttempt(p)
        PROVE  QueueStep
    <3> DEFINE o == IF p \in db.recorded THEN "success" ELSE "interrupted"
    <3>1. o \in Outcomes /\ o # "cancelled" /\ (o = "success" <=> p \in db.recorded)
      BY DEF Outcomes
    <3>2. db' = FinishAttempt(db, p, o)
      BY <2>1 DEF RecoverAttempt
    <3>3. db.pstat[p] \in PairBusy
      BY <1>1, <2>1 DEF Good, AttemptsAgreeOf, RecoverAttempt
    <3> HIDE DEF o
    <3> QED
      BY <1>4, <3>1, <3>2, <3>3, WithoutStarts
  <2>2. CASE ~\E p \in Pairs : RecoverAttempt(p)
    <3>1. db' = db
      BY <1>9, <2>2 DEF Lifecycle, Shutdown, Exit, Crash, Vanish, Boot, BootDone
    <3> QED
      BY <1>2, <3>1, WithoutStarts
  <2> QED
    BY <2>1, <2>2
<1>10. CASE UNCHANGED vars
  BY <1>2, <1>10, WithoutStarts DEF vars
<1> QED
  BY <1>5, <1>6, <1>7, <1>8, <1>9, <1>10 DEF Next

-----------------------------------------------------------------------------
(* Groups. *)

\* GroupAgrees, of a store d and the groups G of the connections.
GroupsAgreeOf(d, G) ==
  \A p \in Pairs : d.pstat[p] \in PairReady \cup {"running"} => d.group[p] = G[ConnOf[p[2]]]

\* A pair that starts stays in its group.
LEMMA StartGroups ==
  ASSUME NEW d \in Store, NEW A \in SUBSET Eligible(d), NEW G, GroupsAgreeOf(d, G)
  PROVE  GroupsAgreeOf(StartAttempts(d, A), G)
<1> DEFINE r == StartAttempts(d, A)
<1>1. A \in SUBSET Pairs /\ \A p \in A : d.pstat[p] \in PairReady
  BY DEF Eligible, Ready
<1>2. /\ r.pstat = [p \in Pairs |-> IF p \in A THEN "running" ELSE d.pstat[p]]
      /\ r.group = d.group
  BY <1>1 DEF StartAttempts, Store
<1> HIDE DEF r
<1>3. GroupsAgreeOf(r, G)
  BY <1>1, <1>2 DEF GroupsAgreeOf
<1> QED
  BY <1>3 DEF r

\* A transaction gives a waiting pair the group of its connection, or leaves
\* it the one it has.
LEMMA TransactionGroups ==
  ASSUME IInv, GroupAgrees, NEW r, Transacted(r)
  PROVE  GroupsAgreeOf(r, GroupNow)
<1>1. db \in Store
  BY DEF IInv, TypeOK
<1>2. GroupsAgreeOf(db, GroupNow)
  BY DEF GroupAgrees, GroupsAgreeOf
<1> DEFINE G == GroupNow
<1> HIDE DEF G
<1>3. CASE Inserting(r)
  <2>1. PICK e \in Executions, S \in SUBSET Selections : r = Insert(db, e, S, NextSeq(db), G)
    BY <1>3 DEF Inserting, G
  <2>2. /\ r.pstat = [p \in Pairs |-> IF p[1] = e /\ p[2] \in S THEN "queued" ELSE db.pstat[p]]
        /\ r.group = [p \in Pairs |-> IF p[1] = e /\ p[2] \in S THEN G[ConnOf[p[2]]] ELSE db.group[p]]
    BY <1>1, <2>1 DEF Insert, Store
  <2> QED
    BY <1>2, <2>2 DEF GroupsAgreeOf, G
<1>4. CASE Finishing(r)
  <2>1. PICK p \in Pairs, o \in Outcomes : db.pstat[p] \in PairBusy /\ r = FinishAttempt(db, p, o)
    BY <1>4 DEF Finishing
  <2>2. CASE ~CanFinish(db, p)
    BY <1>2, <2>1, <2>2 DEF FinishAttempt
  <2>3. CASE CanFinish(db, p)
    <3> DEFINE new == IF WillRetry(db, p, o) THEN "retry_wait" ELSE Recorded(db, p, o)
    <3>1. r.pstat = [db.pstat EXCEPT ![p] = new] /\ r.group = db.group
      BY <1>1, <2>1, <2>3 DEF FinishAttempt, Store
    <3>2. new \in PairReady => db.pstat[p] = "running"
      BY <2>1 DEF WillRetry, Recorded, PairBusy, PairReady, Outcomes
    <3>3. new # "running"
      BY DEF Recorded, Outcomes
    <3> HIDE DEF new
    <3>4. ASSUME NEW q \in Pairs, r.pstat[q] \in PairReady \cup {"running"}
          PROVE  db.pstat[q] \in PairReady \cup {"running"}
      BY <1>1, <3>1, <3>2, <3>3, <3>4 DEF Store
    <3> QED
      BY <1>2, <3>1, <3>4 DEF GroupsAgreeOf
  <2> QED
    BY <2>2, <2>3
<1>5. CASE Cancelling(r)
  <2>1. PICK e \in Executions : r = RequestCancellation(db, e)
    BY <1>5 DEF Cancelling
  <2>2. CASE db.estat[e] \notin ExecActive
    BY <1>2, <2>1, <2>2 DEF RequestCancellation
  <2>3. CASE db.estat[e] \in ExecActive
    <3>1. /\ r.group = db.group
          /\ r.pstat = [p \in Pairs |->
                          IF p \notin PairsOf(db, e) THEN db.pstat[p]
                          ELSE IF db.pstat[p] \in PairReady THEN "not_started"
                          ELSE IF db.pstat[p] = "running" THEN "cancel_requested"
                          ELSE db.pstat[p]]
      BY <1>1, <2>1, <2>3 DEF RequestCancellation, Store
    <3> QED
      BY <1>2, <3>1 DEF GroupsAgreeOf, PairReady
  <2> QED
    BY <2>2, <2>3
<1>6. CASE Adjusting(r)
  <2>1. r.pstat = db.pstat /\ r.group = db.group
    BY <1>1, <1>6 DEF Adjusting, SetPriority, Store
  <2> QED
    BY <1>2, <2>1 DEF GroupsAgreeOf
<1> QED
  BY <1>3, <1>4, <1>5, <1>6 DEF Transacted

\* Only assignGroup and saveConnection change the group of a connection, and
\* neither while a pair of it waits or runs.
LEMMA GroupsMove ==
  ASSUME IInv, [Next]_vars, GroupNow' # GroupNow
  PROVE  /\ StartsAfter(db)
         /\ \A p \in Pairs : db.pstat[p] \in PairReady \cup {"running"} =>
              GroupNow'[ConnOf[p[2]]] = GroupNow[ConnOf[p[2]]]
<1>1. TypeOK /\ db \in Store /\ \A p \in Pairs : ConnOf[p[2]] \in Connections
  BY DEF IInv, TypeOK, Pairs
<1>2. Transacted(db)
  BY <1>1 DEF Transacted, Adjusting
<1>3. ~UNCHANGED <<alias, host>>
  BY DEF GroupNow
<1>4. CASE \E g \in Aliases, C \in SUBSET Connections, k \in GroupLimits : AssignAlias(g, C, k)
  <2>1. PICK g \in Aliases, C \in SUBSET Connections, k \in GroupLimits : AssignAlias(g, C, k)
    BY <1>4
  <2> DEFINE removed == {c \in Connections \ C : alias[c] = g}
             changed == removed \cup {c \in C : alias[c] # g}
  <2>2. /\ \A c \in changed : ~HasWork(c)
        /\ alias' = [c \in Connections |-> IF c \in C THEN g
                                       ELSE IF c \in removed THEN NoAlias
                                       ELSE alias[c]]
        /\ host' = host
    BY <2>1 DEF AssignAlias
  <2>3. StartsAfter(db)
    BY <2>1, PumpStarts DEF AssignAlias
  <2>4. \A c \in Connections \ changed : GroupNow'[c] = GroupNow[c]
    <3>1. \A c \in Connections \ changed : alias'[c] = alias[c]
      BY <2>2
    <3> QED
      BY <2>2, <3>1 DEF GroupNow
  <2>5. ASSUME NEW p \in Pairs, db.pstat[p] \in PairReady \cup {"running"}
        PROVE  ConnOf[p[2]] \notin changed
    <3>1. HasWork(ConnOf[p[2]])
      BY <2>5 DEF HasWork, Unfinished, PairBusy
    <3> QED
      BY <2>2, <3>1
  <2> HIDE DEF changed
  <2> QED
    BY <1>1, <2>3, <2>4, <2>5
<1>5. CASE \E c \in Connections, g \in AutoGroups : MoveConnection(c, g)
  <2>1. PICK c \in Connections, g \in AutoGroups : MoveConnection(c, g)
    BY <1>5
  <2>2. /\ \A p \in Pairs : ConnOf[p[2]] = c => db.pstat[p] \notin PairReady \cup {"running"}
        /\ host' = [host EXCEPT ![c] = g] /\ alias' = alias /\ db' = db
    BY <2>1 DEF MoveConnection
  <2>3. StartsAfter(db)
    BY <1>1, <2>2, StartNothing DEF StartsAfter
  <2>4. \A b \in Connections : b # c => GroupNow'[b] = GroupNow[b]
    BY <1>1, <2>2 DEF GroupNow, TypeOK
  <2> QED
    BY <1>1, <2>2, <2>3, <2>4
<1>6. (\E g \in Aliases, C \in SUBSET Connections, k \in GroupLimits : AssignAlias(g, C, k))
        \/ (\E c \in Connections, g \in AutoGroups : MoveConnection(c, g))
  <2>1. Submit => UNCHANGED <<alias, host>>
    BY DEF Submit, Enqueue, RunDue, Retry, settings
  <2>2. PumpStep \/ PumpFault => UNCHANGED <<alias, host>>
    BY DEF PumpStep, PumpFault, settings
  <2>3. Attempt => UNCHANGED <<alias, host>>
    BY DEF Attempt, BeginUpload, RecordArtifact, Settle, Finish, Release, SettleFault, FinishFault,
           DelayElapses, settings
  <2>4. Lifecycle => UNCHANGED <<alias, host>>
    BY DEF Lifecycle, Shutdown, Exit, Crash, Vanish, Boot, RecoverAttempt, BootDone, settings
  <2>5. UNCHANGED vars => UNCHANGED <<alias, host>>
    BY DEF vars
  <2>6. CASE Administer
    BY <1>3, <2>6 DEF Administer, MoveAhead, Cancel, Configure, LimitGroup, settings
  <2> QED
    BY <1>3, <2>1, <2>2, <2>3, <2>4, <2>5, <2>6 DEF Next
<1> QED
  BY <1>4, <1>5, <1>6

\* A step leaves every waiting and running pair in the group of its connection.
LEMMA GroupStep ==
  ASSUME IInv, GroupAgrees, [Next]_vars
  PROVE  GroupAgrees'
<1>1. db \in Store
  BY DEF IInv, TypeOK
<1>2. GroupsAgreeOf(db', GroupNow') => GroupAgrees'
  BY DEF GroupsAgreeOf, GroupAgrees
<1>3. CASE GroupNow' = GroupNow
  <2>1. PICK r : Transacted(r) /\ StartsAfter(r)
    BY StepTransacts DEF QueueStep
  <2>2. GroupsAgreeOf(r, GroupNow) /\ r \in Store
    BY <2>1, TransactionGroups DEF Transacted
  <2>3. GroupsAgreeOf(db', GroupNow)
    BY <2>1, <2>2, StartGroups DEF StartsAfter
  <2> QED
    BY <1>2, <1>3, <2>3
<1>4. CASE GroupNow' # GroupNow
  <2>1. StartsAfter(db) /\ GroupsAgreeOf(db, GroupNow')
    BY <1>4, GroupsMove DEF GroupAgrees, GroupsAgreeOf
  <2>2. GroupsAgreeOf(db', GroupNow')
    BY <1>1, <2>1, StartGroups DEF StartsAfter
  <2> QED
    BY <1>2, <2>2
<1> QED
  BY <1>3, <1>4

\* The limit of a server covers all the work on it: a pair that waits or runs
\* is in the group its connection belongs to now.
THEOREM GroupsCorrect == Spec => []GroupAgrees
<1>1. Init => GroupAgrees
  BY DEF Init, EmptyStore, GroupAgrees, PairReady
<1>2. IInv /\ GroupAgrees /\ [Next]_vars => GroupAgrees'
  BY GroupStep
<1> QED
  BY <1>1, <1>2, IInvHolds, PTL DEF Spec

-----------------------------------------------------------------------------
(* Artifacts. *)

\* A step of the queue leaves the latest attempt of q as it is, starts one, or
\* ends it with a success that has its artifact.
LEMMA TransactionArtifacts ==
  ASSUME IInv, NEW r, Transacted(r), NEW q \in Pairs
  PROVE  \/ r.last[q] = db.last[q] /\ (q \in r.recorded <=> q \in db.recorded)
         \/ r.last[q] \notin Outcomes
         \/ /\ r.last[q] = "success" => q \in r.recorded
            /\ MaxFaults = 0 => (q \in r.recorded => r.last[q] = "success")
<1>1. db \in Store /\ \A p \in Pairs : AttemptsAgreeOf(db, p)
  BY DEF IInv, TypeOK, AttemptsAgree
<1>2. CASE Inserting(r)
  BY <1>1, <1>2 DEF Inserting, Insert, Store
<1>3. CASE Finishing(r)
  <2>1. PICK p \in Pairs, o \in Outcomes :
          /\ o = "success" => p \in db.recorded
          /\ MaxFaults = 0 => (p \in db.recorded => o = "success")
          /\ r = FinishAttempt(db, p, o)
    BY <1>3 DEF Finishing
  <2>2. CASE ~CanFinish(db, p)
    BY <2>1, <2>2 DEF FinishAttempt
  <2>3. CASE CanFinish(db, p)
    <3>1. r.last = [db.last EXCEPT ![p] = Recorded(db, p, o)] /\ r.recorded = db.recorded
      BY <1>1, <2>1, <2>3 DEF FinishAttempt, Store
    <3>2. Recorded(db, p, o) = "success" <=> o = "success"
      BY DEF Recorded
    <3>3. CASE q = p
      BY <1>1, <2>1, <3>1, <3>2, <3>3 DEF Store
    <3>4. CASE q # p
      BY <1>1, <3>1, <3>4 DEF Store
    <3> QED
      BY <3>3, <3>4
  <2> QED
    BY <2>2, <2>3
<1>4. CASE Cancelling(r)
  BY <1>1, <1>4 DEF Cancelling, RequestCancellation, Store
<1>5. CASE Adjusting(r)
  <2>1. CASE \E p \in Pairs : db.pstat[p] \in PairBusy /\ r = [db EXCEPT !.recorded = @ \cup {p}]
    <3>1. PICK p \in Pairs : db.pstat[p] \in PairBusy /\ r = [db EXCEPT !.recorded = @ \cup {p}]
      BY <2>1
    <3>2. r.last = db.last /\ r.recorded = db.recorded \cup {p} /\ db.last[p] = "running"
      BY <1>1, <3>1 DEF Store, AttemptsAgreeOf
    <3> QED
      BY <3>2 DEF Outcomes
  <2>2. CASE ~\E p \in Pairs : db.pstat[p] \in PairBusy /\ r = [db EXCEPT !.recorded = @ \cup {p}]
    <3>1. r.last = db.last /\ r.recorded = db.recorded
      BY <1>1, <1>5, <2>2 DEF Adjusting, SetPriority, Store
    <3> QED
      BY <3>1
  <2> QED
    BY <2>1, <2>2
<1> QED
  BY <1>2, <1>3, <1>4, <1>5 DEF Transacted

\* The same of a whole step: an attempt that starts is running.
LEMMA StepArtifacts ==
  ASSUME IInv, [Next]_vars, NEW q \in Pairs
  PROVE  \/ db'.last[q] = db.last[q] /\ (q \in db'.recorded <=> q \in db.recorded)
         \/ db'.last[q] \notin Outcomes
         \/ /\ db'.last[q] = "success" => q \in db'.recorded
            /\ MaxFaults = 0 => (q \in db'.recorded => db'.last[q] = "success")
<1>1. PICK r : Transacted(r) /\ StartsAfter(r)
  BY StepTransacts DEF QueueStep
<1>2. PICK A \in SUBSET Eligible(r) : db' = StartAttempts(r, A)
  BY <1>1 DEF StartsAfter
<1>3. r \in Store /\ A \in SUBSET Pairs
  BY <1>1, <1>2 DEF Transacted, Eligible, Ready
<1>4. /\ db'.last = [p \in Pairs |-> IF p \in A THEN "running" ELSE r.last[p]]
      /\ db'.recorded = r.recorded \ A
  BY <1>2, <1>3 DEF StartAttempts, Store
<1>5. CASE q \in A
  BY <1>4, <1>5 DEF Outcomes
<1>6. CASE q \notin A
  <2>1. db'.last[q] = r.last[q] /\ (q \in db'.recorded <=> q \in r.recorded)
    BY <1>4, <1>6
  <2> QED
    BY <1>1, <2>1, TransactionArtifacts
<1> QED
  BY <1>5, <1>6

\* No attempt is called a success without its artifact, whatever fails.
SuccessHasArtifact == \A p \in Pairs : db.last[p] = "success" => p \in db.recorded

\* No attempt is a success without a recorded artifact, even if writes of the
\* database fail and the process crashes.
THEOREM SuccessesRecorded == Spec => []SuccessHasArtifact
<1>1. Init => SuccessHasArtifact
  BY DEF Init, EmptyStore, SuccessHasArtifact
<1>2. IInv /\ SuccessHasArtifact /\ [Next]_vars => SuccessHasArtifact'
  BY StepArtifacts DEF SuccessHasArtifact, Outcomes
<1> QED
  BY <1>1, <1>2, IInvHolds, PTL DEF Spec

\* As long as the writes of the database succeed, an attempt that has ended is
\* a success exactly when its artifact is recorded: through retries,
\* cancellation, shutdown, crash and recovery.
THEOREM ArtifactsCorrect ==
  ASSUME MaxFaults = 0
  PROVE  Spec => []ArtifactsAgree
<1>1. Init => ArtifactsAgree
  BY DEF Init, EmptyStore, ArtifactsAgree, Outcomes
<1>2. IInv /\ ArtifactsAgree /\ [Next]_vars => ArtifactsAgree'
  <2> SUFFICES ASSUME IInv, ArtifactsAgree, [Next]_vars, NEW p \in Pairs, db'.last[p] \in Outcomes
               PROVE  db'.last[p] = "success" <=> p \in db'.recorded
    BY DEF ArtifactsAgree
  <2> QED
    BY StepArtifacts DEF ArtifactsAgree
<1> QED
  BY <1>1, <1>2, IInvHolds, PTL DEF Spec

-----------------------------------------------------------------------------
(* Admission. *)

\* The loop of pump() over store d with workers st: it starts B, all of the
\* pairs A that it admits or, when a write fails, those before the failure.
PumpRun(d, st, A, B) ==
  /\ A \subseteq Eligible(d) /\ B \subseteq A
  /\ Admits(d, Workers(st), A, limit', cap')
  /\ \A q \in A, p \in B : Ahead(d, q, p) => q \in B
  /\ db' = StartAttempts(d, B)
  /\ stage' = [p \in Pairs |-> IF p \in B THEN "working" ELSE st[p]]

\* A step that starts nothing, or one whose last part is that loop.
PumpingStep ==
  \/ db'.tries = db.tries
  \/ \E d : /\ Transacted(d)
            /\ \E st \in [Pairs -> Stages], A, B \in SUBSET Pairs : PumpRun(d, st, A, B)

\* The order of the queue is transitive.
LEMMA AheadTransitive ==
  ASSUME NEW d \in Store, NEW p \in Pairs, NEW q \in Pairs, NEW r \in Pairs,
         Ahead(d, p, q), Ahead(d, q, r)
  PROVE  Ahead(d, p, r)
<1>1. \A x \in Pairs : d.prio[x[1]] \in Nat /\ d.seq[x[1]] \in Nat /\ Rank[x[2]] \in Nat
  BY DEF Store, Pairs
<1> QED
  BY <1>1 DEF Ahead

\* There are finitely many pairs.
LEMMA FinitePairs == IsFiniteSet(Pairs)
BY FS_Product DEF Pairs

\* A transaction starts no attempt.
LEMMA TransactionTries ==
  ASSUME IInv, NEW r, Transacted(r)
  PROVE  r.tries = db.tries
<1>1. db \in Store
  BY DEF IInv, TypeOK
<1>2. Inserting(r) => r.tries = db.tries
  BY <1>1 DEF Inserting, Insert, Store
<1>3. Finishing(r) => r.tries = db.tries
  BY <1>1 DEF Finishing, FinishAttempt, Store
<1>4. Cancelling(r) => r.tries = db.tries
  BY <1>1 DEF Cancelling, RequestCancellation, Store
<1>5. Adjusting(r) => r.tries = db.tries
  BY <1>1 DEF Adjusting, SetPriority, Store
<1> QED
  BY <1>2, <1>3, <1>4, <1>5 DEF Transacted

\* pump() is such a loop.
LEMMA PumpRuns ==
  ASSUME IInv, NEW d, Transacted(d), NEW st \in [Pairs -> Stages], Pump(d, st, limit', cap')
  PROVE  PumpingStep
<1>1. PICK A \in SUBSET Eligible(d) :
        /\ IF Stopped THEN A = {} ELSE Admits(d, Workers(st), A, limit', cap')
        /\ db' = StartAttempts(d, A)
        /\ stage' = [p \in Pairs |-> IF p \in A THEN "working" ELSE st[p]]
  BY DEF Pump
<1>2. d \in Store /\ d.tries = db.tries
  BY TransactionTries DEF Transacted
<1>3. CASE Stopped
  BY <1>1, <1>2, <1>3, StartNothing DEF PumpingStep
<1>4. CASE ~Stopped
  <2>1. PumpRun(d, st, A, A)
    BY <1>1, <1>4 DEF PumpRun
  <2>2. A \in SUBSET Pairs
    BY DEF Eligible, Ready
  <2> QED
    BY <1>2, <2>1, <2>2 DEF PumpingStep
<1> QED
  BY <1>3, <1>4

\* When a write fails, the loop has started the pairs ahead of the failing one.
LEMMA FaultRuns ==
  ASSUME IInv, PumpFault
  PROVE  PumpingStep
<1>1. db \in Store /\ stage \in [Pairs -> Stages]
  BY DEF IInv, TypeOK
<1>2. PICK A \in SUBSET Eligible(db) :
        /\ Admits(db, Workers(stage), A, limit, cap)
        /\ \E f \in A :
             LET B == {q \in A : Ahead(db, q, f)}
             IN  /\ db' = StartAttempts(db, B)
                 /\ stage' = [p \in Pairs |-> IF p \in B THEN "working" ELSE stage[p]]
  BY DEF PumpFault
<1>3. A \in SUBSET Pairs
  BY DEF Eligible, Ready
<1>4. PICK f \in A :
        LET B == {q \in A : Ahead(db, q, f)}
        IN  /\ db' = StartAttempts(db, B)
            /\ stage' = [p \in Pairs |-> IF p \in B THEN "working" ELSE stage[p]]
  BY <1>2
<1> DEFINE B == {q \in A : Ahead(db, q, f)}
<1>5. \A q \in A, p \in B : Ahead(db, q, p) => q \in B
  BY <1>1, <1>3, AheadTransitive
<1>6. limit' = limit /\ cap' = cap
  BY DEF PumpFault, settings
<1>7. PumpRun(db, stage, A, B)
  BY <1>2, <1>4, <1>5, <1>6 DEF PumpRun
<1>8. B \in SUBSET Pairs
  BY <1>3
<1>9. Transacted(db)
  BY <1>1 DEF Transacted, Adjusting
<1> HIDE DEF B
<1> QED
  BY <1>1, <1>3, <1>7, <1>8, <1>9 DEF PumpingStep

\* Whatever starts attempts is that loop, under the limits now in force.
LEMMA StepPumps ==
  ASSUME IInv, [Next]_vars
  PROVE  PumpingStep
<1>1. /\ db \in Store /\ GroupNow \in [Connections -> Groups] /\ NextSeq(db) \in Nat /\ TypeOK
      /\ stage \in [Pairs -> Stages]
  BY GroupNowType, NextSeqType DEF IInv, TypeOK
<1>2. Transacted(db)
  BY <1>1 DEF Transacted, Adjusting
<1>3. ASSUME NEW r, Transacted(r), db' = r
      PROVE  PumpingStep
  BY <1>3, TransactionTries DEF PumpingStep
<1>4. CASE Submit
  <2>1. ASSUME NEW e \in Executions, NEW S \in SUBSET Selections, S # {}, Unused(e)
        PROVE  Transacted(Insert(db, e, S, NextSeq(db), GroupNow))
    BY <1>1, <2>1, InsertType DEF Transacted, Inserting, Unused
  <2>2. \A S \in JobSelections : S \in SUBSET Selections /\ S # {}
    OBVIOUS
  <2>3. ASSUME NEW e \in Executions, NEW S \in JobSelections, Enqueue(e, S)
        PROVE  PumpingStep
    BY <1>3, <2>1, <2>2, <2>3 DEF Enqueue
  <2>4. ASSUME NEW e \in Executions, NEW S \in JobSelections, RunDue(e, S)
        PROVE  PumpingStep
    <3> DEFINE r == Insert(db, e, S, NextSeq(db), GroupNow)
    <3>1. Transacted(r)
      BY <2>1, <2>2, <2>4 DEF RunDue
    <3>2. Pump(r, stage, limit', cap')
      BY <2>4 DEF RunDue, settings
    <3> HIDE DEF r
    <3> QED
      BY <1>1, <3>1, <3>2, PumpRuns
  <2>5. ASSUME NEW e \in Executions, NEW parent \in Executions, NEW S \in SUBSET Selections,
               Retry(e, parent, S)
        PROVE  PumpingStep
    BY <1>3, <2>1, <2>5 DEF Retry
  <2> QED
    BY <1>4, <2>3, <2>4, <2>5 DEF Submit
<1>5. CASE PumpStep
  BY <1>1, <1>2, <1>5, PumpRuns DEF PumpStep, settings
<1>6. CASE PumpFault
  BY <1>6, FaultRuns
<1>7. CASE Attempt
  <2>1. ASSUME NEW p \in Pairs, Release(p)
        PROVE  PumpingStep
    <3>1. Pump(db, [stage EXCEPT ![p] = "none"], limit', cap')
      BY <2>1 DEF Release, settings
    <3>2. [stage EXCEPT ![p] = "none"] \in [Pairs -> Stages]
      BY <1>1 DEF Stages
    <3> QED
      BY <1>2, <3>1, <3>2, PumpRuns
  <2>2. CASE ~\E p \in Pairs : Release(p)
    <3>3. ASSUME NEW p \in Pairs, Settle(p) \/ SettleFault(p)
          PROVE  db'.tries = db.tries
      <4>1. PICK o : Finish(p, o)
        BY <3>3 DEF Settle, SettleFault
      <4> QED
        BY <1>1, <4>1 DEF Finish, FinishAttempt, Store
    <3>1. db'.tries = db.tries
      BY <1>1, <1>7, <2>2, <3>3 DEF Attempt, BeginUpload, RecordArtifact, FinishFault, DelayElapses, Store
    <3> QED
      BY <3>1 DEF PumpingStep
  <2> QED
    BY <2>1, <2>2
<1>8. CASE Administer
  <2>1. ASSUME NEW e \in Executions, MoveAhead(e)
        PROVE  PumpingStep
    <3>1. PICK n \in Nat : Pump(SetPriority(db, e, n), stage, limit', cap')
      BY <2>1 DEF MoveAhead, settings
    <3>2. Transacted(SetPriority(db, e, n))
      BY <1>1, PriorityType DEF Transacted, Adjusting
    <3> QED
      BY <1>1, <3>1, <3>2, PumpRuns
  <2>2. ASSUME NEW e \in Executions, NEW confirmed \in BOOLEAN, Cancel(e, confirmed)
        PROVE  PumpingStep
    <3>1. Transacted(RequestCancellation(db, e))
      BY <1>1, <2>2, CancelType DEF Transacted, Cancelling, Cancel, Unused
    <3>2. Pump(RequestCancellation(db, e), stage, limit', cap')
      BY <2>2 DEF Cancel, settings
    <3> QED
      BY <1>1, <3>1, <3>2, PumpRuns
  <2>3. ASSUME Pump(db, stage, limit', cap')
        PROVE  PumpingStep
    BY <1>1, <1>2, <2>3, PumpRuns
  <2>4. ASSUME NEW c \in Connections, NEW g \in AutoGroups, MoveConnection(c, g)
        PROVE  PumpingStep
    BY <2>4 DEF MoveConnection, PumpingStep
  <2> QED
    BY <1>8, <2>1, <2>2, <2>3, <2>4 DEF Administer, Configure, AssignAlias, LimitGroup
<1>9. CASE Lifecycle
  <2>1. db'.tries = db.tries
    BY <1>1, <1>9 DEF Lifecycle, Shutdown, Exit, Crash, Vanish, Boot, RecoverAttempt, BootDone,
       FinishAttempt, Store
  <2> QED
    BY <2>1 DEF PumpingStep
<1>10. CASE UNCHANGED vars
  BY <1>10 DEF vars, PumpingStep
<1> QED
  BY <1>4, <1>5, <1>6, <1>7, <1>8, <1>9, <1>10 DEF Next

\* What the loop leaves in the store and in the map of workers.
LEMMA RunFields ==
  ASSUME NEW d \in Store, NEW st \in [Pairs -> Stages], NEW A \in SUBSET Pairs, NEW B \in SUBSET Pairs,
         PumpRun(d, st, A, B)
  PROVE  /\ \A p \in Pairs : db'.tries[p] = IF p \in B THEN d.tries[p] + 1 ELSE d.tries[p]
         /\ db'.group = d.group /\ db'.seq = d.seq /\ db'.prio = d.prio /\ db'.delayed = d.delayed
         /\ \A p \in Pairs : db'.pstat[p] = IF p \in B THEN "running" ELSE d.pstat[p]
         /\ \A e \in Executions : (\A p \in B : p[1] # e) => db'.estat[e] = d.estat[e]
         /\ Workers(stage') = Workers(st) \cup B
<1>1. db' = StartAttempts(d, B)
  BY DEF PumpRun
<1>2. Workers(stage') = Workers(st) \cup B
  BY DEF PumpRun, Workers
<1> QED
  BY <1>1, <1>2 DEF StartAttempts, Store

\* A larger set of workers has no fewer members, in every group.
LEMMA MoreWorkers ==
  ASSUME NEW H \in SUBSET Pairs, NEW K \in SUBSET Pairs, H \subseteq K, NEW d, NEW g
  PROVE  /\ Cardinality(H) \in Nat /\ Cardinality(K) \in Nat /\ Cardinality(H) <= Cardinality(K)
         /\ Cardinality(InGroup(d, H, g)) \in Nat /\ Cardinality(InGroup(d, K, g)) \in Nat
         /\ Cardinality(InGroup(d, H, g)) <= Cardinality(InGroup(d, K, g))
<1>1. IsFiniteSet(K) /\ IsFiniteSet(H)
  BY FinitePairs, FS_Subset
<1>2. InGroup(d, H, g) \subseteq InGroup(d, K, g) /\ InGroup(d, K, g) \subseteq K
  BY DEF InGroup
<1>3. IsFiniteSet(InGroup(d, K, g)) /\ IsFiniteSet(InGroup(d, H, g))
  BY <1>1, <1>2, FS_Subset
<1> QED
  BY <1>1, <1>2, <1>3, FS_Subset, FS_CardinalityType

\* The loop overtakes a pair only when the group of that pair is full.
LEMMA RunIsFifo ==
  ASSUME NEW d \in Store, NEW st \in [Pairs -> Stages], NEW A \in SUBSET Pairs, NEW B \in SUBSET Pairs,
         PumpRun(d, st, A, B), limit' \in Nat, cap' \in [Groups -> Nat],
         NEW p \in B, NEW q \in Eligible(db'), Ahead(db', q, p)
  PROVE  /\ db'.group[p] # db'.group[q]
         /\ Cardinality(InGroup(db', Workers(stage'), db'.group[q])) >= Lesser(limit', cap'[db'.group[q]])
<1>1. /\ db'.group = d.group /\ db'.seq = d.seq /\ db'.prio = d.prio /\ db'.delayed = d.delayed
      /\ \A x \in Pairs : db'.pstat[x] = IF x \in B THEN "running" ELSE d.pstat[x]
      /\ \A e \in Executions : (\A x \in B : x[1] # e) => db'.estat[e] = d.estat[e]
      /\ Workers(stage') = Workers(st) \cup B
  BY ONLY RunFields, PumpRun(d, st, A, B), d \in Store, st \in [Pairs -> Stages],
          A \in SUBSET Pairs, B \in SUBSET Pairs
<1> DEFINE W == Workers(st)
           before(x) == {y \in A : Ahead(d, y, x)}
<1>2. /\ A \subseteq Eligible(d) /\ B \subseteq A
      /\ Admits(d, W, A, limit', cap')
      /\ \A x \in A, y \in B : Ahead(d, x, y) => x \in B
  BY DEF PumpRun
<1>3. q \in Pairs /\ p \in Pairs /\ W \in SUBSET Pairs
  BY DEF Eligible, Ready, Workers
<1>4. Ahead(d, q, p)
  BY <1>1 DEF Ahead
<1>5. q \in Eligible(d) /\ q \notin B
  <2>1. db'.pstat[q] \in PairReady /\ db'.estat[q[1]] \in ExecOpen /\ q \notin db'.delayed
    BY DEF Eligible, Ready
  <2>2. q \notin B /\ d.pstat[q] \in PairReady /\ q \notin d.delayed
    BY <1>1, <1>3, <2>1 DEF PairReady
  <2>3. \A x \in B : d.estat[x[1]] \in ExecOpen
    BY <1>2 DEF Eligible, Ready
  <2>4. d.estat[q[1]] \in ExecOpen
    BY <1>1, <1>3, <2>1, <2>3 DEF Pairs
  <2> QED
    BY <1>3, <2>2, <2>4 DEF Eligible, Ready
<1>6. q \notin A
  BY <1>2, <1>4, <1>5
<1>7. ~Room(d, W \cup before(q), q, limit', cap') /\ Room(d, W \cup before(p), p, limit', cap')
  BY <1>2, <1>5, <1>6 DEF Admits
<1>8. before(q) \subseteq before(p) /\ before(q) \subseteq B
  BY <1>2, <1>3, <1>4, AheadTransitive
<1> HIDE DEF before, W
<1>9. W \cup before(q) \in SUBSET Pairs /\ W \cup before(p) \in SUBSET Pairs /\ W \cup B \in SUBSET Pairs
  BY <1>3 DEF before
<1>10. d.group[q] \in Groups /\ d.group[p] \in Groups
  BY <1>3 DEF Store
<1> DEFINE g == d.group[q]
           few == Cardinality(InGroup(d, W \cup before(q), g))
           more == Cardinality(InGroup(d, W \cup before(p), g))
           all == Cardinality(InGroup(d, W \cup B, g))
<1>11. /\ Cardinality(W \cup before(q)) \in Nat /\ Cardinality(W \cup before(p)) \in Nat
       /\ Cardinality(W \cup before(q)) <= Cardinality(W \cup before(p))
       /\ few \in Nat /\ more \in Nat /\ few <= more
  BY <1>8, <1>9, MoreWorkers
<1>12. all \in Nat /\ few <= all
  BY <1>8, <1>9, MoreWorkers
<1>13. /\ Cardinality(W \cup before(p)) < limit'
       /\ d.group[p] = g => more < Lesser(limit', cap'[g])
  BY <1>7 DEF Room
<1>14. ~(Cardinality(W \cup before(q)) < limit' /\ few < Lesser(limit', cap'[g]))
  BY <1>7 DEF Room
<1>15. Lesser(limit', cap'[g]) \in Nat
  BY <1>10 DEF Lesser
<1>16. Cardinality(InGroup(db', Workers(stage'), db'.group[q])) = all
  BY <1>1 DEF InGroup, W
<1> HIDE DEF few, more, all, g
<1>17. ~(few < Lesser(limit', cap'[g]))
  BY <1>11, <1>13, <1>14
<1>18. d.group[p] # g /\ all >= Lesser(limit', cap'[g])
  BY <1>11, <1>12, <1>13, <1>15, <1>17
<1> QED
  BY <1>1, <1>16, <1>18 DEF g

\* What the loop starts is what a step starts.
LEMMA RunStarts ==
  ASSUME NEW d \in Store, NEW st \in [Pairs -> Stages], NEW A \in SUBSET Pairs, NEW B \in SUBSET Pairs,
         PumpRun(d, st, A, B), d.tries = db.tries
  PROVE  Started = B
<1>1. \A p \in Pairs : db'.tries[p] = IF p \in B THEN d.tries[p] + 1 ELSE d.tries[p]
  BY ONLY RunFields, PumpRun(d, st, A, B), d \in Store, st \in [Pairs -> Stages],
          A \in SUBSET Pairs, B \in SUBSET Pairs
<1>2. \A p \in Pairs : d.tries[p] \in Nat
  BY DEF Store
<1> QED
  BY <1>1, <1>2 DEF Started

\* A step that changes no number of attempts starts none.
LEMMA NoneStarted ==
  ASSUME IInv, db'.tries = db.tries
  PROVE  Started = {}
<1>1. \A p \in Pairs : db.tries[p] \in Nat
  BY DEF IInv, TypeOK, Store
<1> QED
  BY <1>1 DEF Started

\* What FifoAdmission says of a step.
Fifo ==
  \A p \in Started, q \in Eligible(db') :
    Ahead(db', q, p) =>
      /\ db'.group[p] # db'.group[q]
      /\ Cardinality(InGroup(db', Workers(stage'), db'.group[q])) >= Lesser(limit', cap'[db'.group[q]])

\* Every step admits first come, first served.
LEMMA FifoStep ==
  ASSUME IInv, [Next]_vars
  PROVE  Fifo
<1>1. PumpingStep
  BY StepPumps
<1>2. CASE db'.tries = db.tries
  BY <1>2, NoneStarted DEF Fifo
<1>3. CASE db'.tries # db.tries
  <2>1. PICK d : /\ Transacted(d)
                 /\ \E st \in [Pairs -> Stages], A, B \in SUBSET Pairs : PumpRun(d, st, A, B)
    BY <1>1, <1>3 DEF PumpingStep
  <2>2. PICK st \in [Pairs -> Stages], A \in SUBSET Pairs, B \in SUBSET Pairs : PumpRun(d, st, A, B)
    BY <2>1
  <2>5. d \in Store /\ d.tries = db.tries
    BY <2>1, TransactionTries DEF Transacted
  <2>3. Started = B
    BY <2>2, <2>5, RunStarts
  <2>4. limit' \in Nat /\ cap' \in [Groups -> Nat]
    <3>1. TypeOK'
      BY NextIInv DEF IInv
    <3> QED
      BY <3>1 DEF TypeOK
  <2> QED
    BY <2>2, <2>3, <2>4, <2>5, RunIsFifo DEF Fifo
<1> QED
  BY <1>2, <1>3

\* No pair overtakes one that is ahead of it in the queue, unless the group of
\* that one is full: within a group the order is the order of the queue.
THEOREM FifoCorrect == Spec => FifoAdmission
<1>1. IInv /\ [Next]_vars => [Fifo]_vars
  BY FifoStep
<1> QED
  BY <1>1, IInvHolds, PTL DEF Spec, FifoAdmission, Fifo

-----------------------------------------------------------------------------
(* Capacity. *)

\* One element more is at most one more.
LEMMA OneMore ==
  ASSUME NEW H, IsFiniteSet(H), NEW x
  PROVE  /\ IsFiniteSet(H \cup {x}) /\ Cardinality(H) \in Nat
         /\ Cardinality(H \cup {x}) <= Cardinality(H) + 1
<1>1. Cardinality(H) \in Nat
  BY FS_CardinalityType
<1>2. IsFiniteSet(H \cup {x}) /\ (x \notin H => Cardinality(H \cup {x}) = Cardinality(H) + 1)
  BY FS_AddElement
<1>3. CASE x \in H
  <2>1. H \cup {x} = H
    BY <1>3
  <2>2. IsFiniteSet(H \cup {x}) /\ Cardinality(H \cup {x}) = Cardinality(H)
    BY <2>1, Zenon
  <2> QED
    BY <1>1, <2>2
<1>4. CASE x \notin H
  BY <1>1, <1>2, <1>4
<1> QED
  BY <1>3, <1>4

\* A non-empty set of numbers has a least one.
LEMMA LeastNumber ==
  ASSUME NEW T, T \subseteq Nat, T # {}
  PROVE  \E n \in T : \A k \in T : ~(k < n)
<1>1. \E n \in T : \A k \in T : <<k, n>> \notin OpToRel(<, Nat)
  BY ONLY WFMin, NatLessThanWellFounded, T \subseteq Nat, T # {}, Zenon
<1>2. \A k, n \in Nat : k < n => <<k, n>> \in OpToRel(<, Nat)
  BY DEF OpToRel
<1> QED
  BY <1>1, <1>2

Existing(d) == {e \in Executions : d.estat[e] # "none"}

\* Executions are numbered 1, 2, ... as they are inserted.
SequencesOf(d) ==
  /\ \A e \in Existing(d) : d.seq[e] <= Cardinality(Existing(d))
  /\ \A e, f \in Existing(d) : d.seq[e] = d.seq[f] => e = f

SequencesUnique == SequencesOf(db)

\* Sequences stay unique when no execution appears or disappears.
LEMMA SameSequences ==
  ASSUME NEW d, NEW r, SequencesOf(d), r.seq = d.seq,
         \A e \in Executions : r.estat[e] = "none" <=> d.estat[e] = "none"
  PROVE  SequencesOf(r)
<1>1. Existing(r) = Existing(d)
  BY DEF Existing
<1> QED
  BY <1>1 DEF SequencesOf

\* A started execution existed before.
LEMMA StartSequences ==
  ASSUME NEW d \in Store, NEW A \in SUBSET Eligible(d), SequencesOf(d)
  PROVE  SequencesOf(StartAttempts(d, A))
<1> DEFINE r == StartAttempts(d, A)
<1>1. /\ r.seq = d.seq
      /\ \A e \in Executions : r.estat[e] = IF \E p \in A : p[1] = e THEN "running" ELSE d.estat[e]
  BY DEF StartAttempts, Store
<1>2. \A p \in A : d.estat[p[1]] \in ExecOpen
  BY DEF Eligible, Ready
<1> HIDE DEF r
<1>3. \A e \in Executions : r.estat[e] = "none" <=> d.estat[e] = "none"
  BY <1>1, <1>2 DEF ExecOpen
<1>4. SequencesOf(r)
  BY <1>1, <1>3, SameSequences
<1> QED
  BY <1>4 DEF r

\* insert() takes a number that no execution has.
LEMMA InsertSequences ==
  ASSUME NEW d \in Store, SequencesOf(d), NEW e \in Executions, d.estat[e] = "none", NEW S, NEW grp
  PROVE  SequencesOf(Insert(d, e, S, NextSeq(d), grp))
<1> DEFINE r == Insert(d, e, S, NextSeq(d), grp)
<1>1. /\ r.estat = [d.estat EXCEPT ![e] = "queued"]
      /\ r.seq = [d.seq EXCEPT ![e] = NextSeq(d)]
  BY DEF Insert, Store
<1> HIDE DEF r
<1>2. IsFiniteSet(Existing(d)) /\ Cardinality(Existing(d)) \in Nat /\ e \notin Existing(d)
  BY FS_Subset, FS_CardinalityType DEF Existing
<1>3. Existing(r) = Existing(d) \cup {e}
  BY <1>1 DEF Existing, Store
<1>4. Cardinality(Existing(r)) = Cardinality(Existing(d)) + 1
  BY <1>2, <1>3, FS_AddElement
<1>5. NextSeq(d) = Cardinality(Existing(d)) + 1
  BY DEF NextSeq, Existing
<1>6. r.seq[e] = Cardinality(Existing(d)) + 1
  BY <1>1, <1>5 DEF Store
<1>7. \A f \in Existing(d) : f # e /\ r.seq[f] = d.seq[f] /\ d.seq[f] \in Nat /\ d.seq[f] <= Cardinality(Existing(d))
  BY <1>1, <1>2 DEF Store, SequencesOf, Existing
<1>8. \A f \in Existing(r) : r.seq[f] <= Cardinality(Existing(r))
  BY <1>2, <1>3, <1>4, <1>6, <1>7
<1>9. \A f, g \in Existing(r) : r.seq[f] = r.seq[g] => f = g
  BY <1>2, <1>3, <1>6, <1>7 DEF SequencesOf
<1>10. SequencesOf(r)
  BY <1>8, <1>9 DEF SequencesOf
<1> QED
  BY <1>10 DEF r

\* No transaction gives two executions the same place in the queue.
LEMMA TransactionSequences ==
  ASSUME IInv, SequencesUnique, NEW r, Transacted(r)
  PROVE  SequencesOf(r)
<1>1. db \in Store /\ SequencesOf(db) /\ \A e \in Executions : StatusAgreesOf(db, e)
  BY DEF IInv, TypeOK, SequencesUnique, StatusAgrees
<1>2. CASE Inserting(r)
  BY <1>1, <1>2, InsertSequences DEF Inserting
<1>3. CASE Finishing(r)
  <2>1. PICK p \in Pairs, o \in Outcomes : db.pstat[p] \in PairBusy /\ r = FinishAttempt(db, p, o)
    BY <1>3 DEF Finishing
  <2>2. CASE ~CanFinish(db, p)
    BY <1>1, <2>1, <2>2 DEF FinishAttempt
  <2>3. CASE CanFinish(db, p)
    <3>1. p[1] \in Executions /\ p \in PairsOf(db, p[1])
      BY <2>1 DEF Pairs, PairsOf, PairBusy
    <3>2. db.estat[p[1]] # "none"
      BY <1>1, <3>1 DEF StatusAgreesOf
    <3>3. PICK s : /\ r.estat = [db.estat EXCEPT ![p[1]] = s] /\ s # "none"
                   /\ r.seq = db.seq
      <4> DEFINE stat == [db.pstat EXCEPT ![p] = IF WillRetry(db, p, o) THEN "retry_wait"
                                                   ELSE Recorded(db, p, o)]
                 s == Aggregate(db.estat[p[1]], PairsOf(db, p[1]), stat)
      <4>1. r.estat = [db.estat EXCEPT ![p[1]] = s] /\ r.seq = db.seq
        BY <1>1, <2>1, <2>3 DEF FinishAttempt, Store
      <4>2. s # "none"
        BY AggregateType
      <4> HIDE DEF s
      <4> QED
        BY <4>1, <4>2
    <3>4. \A e \in Executions : r.estat[e] = "none" <=> db.estat[e] = "none"
      BY <1>1, <3>1, <3>2, <3>3 DEF Store
    <3> QED
      BY <1>1, <3>3, <3>4, SameSequences
  <2> QED
    BY <2>2, <2>3
<1>4. CASE Cancelling(r)
  <2>1. PICK e \in Executions : db.estat[e] # "none" /\ r = RequestCancellation(db, e)
    BY <1>4 DEF Cancelling
  <2>2. CASE db.estat[e] \notin ExecActive
    BY <1>1, <2>1, <2>2 DEF RequestCancellation
  <2>3. CASE db.estat[e] \in ExecActive
    <3>1. /\ r.seq = db.seq
          /\ r.estat = [db.estat EXCEPT ![e] = IF \E p \in PairsOf(db, e) : db.pstat[p] \in PairBusy
                                                 THEN "cancel_requested" ELSE "cancelled"]
      BY <1>1, <2>1, <2>3 DEF RequestCancellation, Store
    <3>2. \A f \in Executions : r.estat[f] = "none" <=> db.estat[f] = "none"
      BY <1>1, <2>1, <3>1 DEF Store
    <3> QED
      BY <1>1, <3>1, <3>2, SameSequences
  <2> QED
    BY <2>2, <2>3
<1>5. CASE Adjusting(r)
  <2>1. r.seq = db.seq /\ r.estat = db.estat
    BY <1>1, <1>5 DEF Adjusting, SetPriority, Store
  <2> QED
    BY <1>1, <2>1, SameSequences
<1> QED
  BY <1>2, <1>3, <1>4, <1>5 DEF Transacted

\* Sequences stay unique.
LEMMA SequencesStep ==
  ASSUME IInv, SequencesUnique, [Next]_vars
  PROVE  SequencesUnique'
<1>1. PICK r : Transacted(r) /\ StartsAfter(r)
  BY StepTransacts DEF QueueStep
<1>2. r \in Store /\ SequencesOf(r)
  BY <1>1, TransactionSequences DEF Transacted
<1>3. SequencesOf(db')
  BY <1>1, <1>2, StartSequences DEF StartsAfter
<1> QED
  BY <1>3 DEF SequencesUnique, SequencesOf, Existing

\* No two executions share a place in the queue, through any interleaving of
\* schedules, requests and retries.
THEOREM SequencesCorrect == Spec => []SequencesUnique
<1>1. Init => SequencesUnique
  BY DEF Init, EmptyStore, SequencesUnique, SequencesOf, Existing
<1>2. IInv /\ SequencesUnique /\ [Next]_vars => SequencesUnique'
  BY SequencesStep
<1> QED
  BY <1>1, <1>2, IInvHolds, PTL DEF Spec

\* So the queue orders any two pairs it offers.
LEMMA QueueIsTotal ==
  ASSUME NEW d \in Store, SequencesOf(d), NEW p \in Eligible(d), NEW q \in Eligible(d), p # q
  PROVE  Ahead(d, p, q) \/ Ahead(d, q, p)
<1>1. /\ p \in Pairs /\ q \in Pairs /\ p[1] \in Existing(d) /\ q[1] \in Existing(d)
  BY DEF Eligible, Ready, Existing, Pairs, ExecOpen
<1>2. \A x \in Pairs : /\ d.prio[x[1]] \in Nat /\ d.seq[x[1]] \in Nat /\ Rank[x[2]] \in Nat
                       /\ x[2] \in Selections
  BY DEF Store, Pairs
<1>3. p[1] = q[1] => Rank[p[2]] # Rank[q[2]]
  BY <1>1, <1>2 DEF Pairs
<1>4. d.seq[p[1]] = d.seq[q[1]] => p[1] = q[1]
  BY <1>1 DEF SequencesOf
<1> QED
  BY <1>1, <1>2, <1>3, <1>4 DEF Ahead

\* A non-empty set of pairs that the queue orders has a last one.
LEMMA LastInQueue ==
  ASSUME NEW d \in Store, NEW B \in SUBSET Pairs, B # {},
         \A p, q \in B : p # q => Ahead(d, p, q) \/ Ahead(d, q, p)
  PROVE  \E m \in B : \A x \in B : x # m => Ahead(d, x, m)
<1> DEFINE before(p) == {q \in B : Ahead(d, q, p)}
           after(p) == Cardinality(B) - Cardinality(before(p))
           T == {after(p) : p \in B}
<1>1. IsFiniteSet(B)
  BY FinitePairs, FS_Subset
<1>2. ASSUME NEW p \in B
      PROVE  /\ IsFiniteSet(before(p)) /\ Cardinality(before(p)) \in Nat
             /\ Cardinality(B) \in Nat /\ Cardinality(before(p)) <= Cardinality(B)
  <2>1. before(p) \in SUBSET B
    OBVIOUS
  <2> HIDE DEF before
  <2> QED
    BY <1>1, <2>1, FS_Subset, FS_CardinalityType
<1>3. T \subseteq Nat /\ T # {}
  <2>1. \A p \in B : after(p) \in Nat
    BY <1>2
  <2> HIDE DEF after
  <2> QED
    BY <2>1
<1>4. PICK n \in T : \A k \in T : ~(k < n)
  <2> HIDE DEF T
  <2> QED
    BY <1>3, LeastNumber
<1>5. PICK m \in B : n = after(m)
  OBVIOUS
<1>6. ASSUME NEW x \in B, x # m
      PROVE  Ahead(d, x, m)
  <2>1. SUFFICES ASSUME Ahead(d, m, x)
                 PROVE  FALSE
    BY <1>6
  <2>2. before(m) \subseteq before(x)
    BY <2>1, AheadTransitive
  <2>3. m \in before(x) /\ m \notin before(m)
    <3>1. d.prio[m[1]] \in Nat /\ d.seq[m[1]] \in Nat /\ Rank[m[2]] \in Nat
      BY DEF Store, Pairs
    <3> QED
      BY <2>1, <3>1 DEF Ahead
  <2>4. Cardinality(before(m)) # Cardinality(before(x)) /\ Cardinality(before(m)) <= Cardinality(before(x))
    <3>1. IsFiniteSet(before(x)) /\ before(m) \in SUBSET before(x) /\ before(m) # before(x)
      BY <1>2, <2>2, <2>3
    <3> HIDE DEF before
    <3> QED
      BY <3>1, FS_Subset
  <2>5. after(x) < after(m)
    <3>1. /\ Cardinality(before(x)) \in Nat /\ Cardinality(before(m)) \in Nat /\ Cardinality(B) \in Nat
      BY <1>2
    <3> HIDE DEF before
    <3> QED
      BY <2>4, <3>1
  <2> HIDE DEF after
  <2>8. after(x) \in T /\ after(m) \in T
    OBVIOUS
  <2> QED
    BY <1>4, <1>5, <2>5, <2>8
<1> QED
  BY <1>6

\* When the loop has started B, the workers fit the limits: the last pair of
\* B, and the last one of each group, was admitted next to all the others.
LEMMA RunFits ==
  ASSUME NEW d \in Store, SequencesOf(d), NEW st \in [Pairs -> Stages],
         NEW A \in SUBSET Pairs, NEW B \in SUBSET Pairs,
         PumpRun(d, st, A, B), limit' \in Nat, cap' \in [Groups -> Nat], NEW p \in B
  PROVE  /\ Cardinality(Workers(stage')) <= limit'
         /\ Cardinality(InGroup(db', Workers(stage'), db'.group[p])) <= cap'[db'.group[p]]
<1>1. db'.group = d.group /\ Workers(stage') = Workers(st) \cup B
  BY ONLY RunFields, PumpRun(d, st, A, B), d \in Store, st \in [Pairs -> Stages],
          A \in SUBSET Pairs, B \in SUBSET Pairs
<1> DEFINE W == Workers(st)
           before(x) == {y \in A : Ahead(d, y, x)}
           g == d.group[p]
<1>2. A \subseteq Eligible(d) /\ B \subseteq A /\ Admits(d, W, A, limit', cap') /\ W \in SUBSET Pairs
  BY DEF PumpRun, Workers
<1>3. \A x \in B : Room(d, W \cup before(x), x, limit', cap')
  BY <1>2 DEF Admits
<1>4. \A x, y \in B : x # y => Ahead(d, x, y) \/ Ahead(d, y, x)
  BY <1>2, QueueIsTotal
<1>5. \A x \in B : IsFiniteSet(W \cup before(x)) /\ IsFiniteSet(InGroup(d, W \cup before(x), g))
  BY <1>2, FinitePairs, FS_Subset DEF InGroup
<1> HIDE DEF W
<1>6. Cardinality(W \cup B) <= limit'
  <2>1. PICK m \in B : \A x \in B : x # m => Ahead(d, x, m)
    BY <1>4, LastInQueue
  <2> DEFINE H == W \cup before(m)
  <2>2. W \cup B \subseteq H \cup {m}
    BY <1>2, <2>1
  <2>3. IsFiniteSet(H) /\ Cardinality(H) < limit'
    BY <1>3, <1>5 DEF Room
  <2> HIDE DEF H
  <2>4. IsFiniteSet(H \cup {m}) /\ Cardinality(H \cup {m}) <= Cardinality(H) + 1 /\ Cardinality(H) \in Nat
    BY <2>3, OneMore
  <2>5. Cardinality(W \cup B) <= Cardinality(H \cup {m}) /\ IsFiniteSet(W \cup B)
    BY <2>2, <2>4, FS_Subset
  <2>6. Cardinality(W \cup B) \in Nat /\ Cardinality(H \cup {m}) \in Nat
    BY <2>4, <2>5, FS_CardinalityType
  <2> QED
    BY <2>3, <2>4, <2>5, <2>6
<1>7. Cardinality(InGroup(d, W \cup B, g)) <= cap'[g]
  <2> DEFINE C == {x \in B : d.group[x] = g}
  <2>1. C \in SUBSET Pairs /\ C # {} /\ \A x, y \in C : x # y => Ahead(d, x, y) \/ Ahead(d, y, x)
    BY <1>4
  <2>2. PICK m \in C : \A x \in C : x # m => Ahead(d, x, m)
    <3> HIDE DEF C
    <3> QED
      BY <2>1, LastInQueue
  <2> DEFINE H == InGroup(d, W \cup before(m), g)
  <2>3. InGroup(d, W \cup B, g) \subseteq H \cup {m}
    BY <1>2, <2>2 DEF InGroup
  <2>4. IsFiniteSet(H) /\ Cardinality(H) < Lesser(limit', cap'[g])
    BY <1>3, <1>5, <2>2 DEF Room
  <2>5. Lesser(limit', cap'[g]) <= cap'[g] /\ Lesser(limit', cap'[g]) \in Nat /\ cap'[g] \in Nat
    <3>1. g \in Groups
      BY DEF Store
    <3> QED
      BY <3>1 DEF Lesser
  <2> HIDE DEF H, g
  <2>6. IsFiniteSet(H \cup {m}) /\ Cardinality(H \cup {m}) <= Cardinality(H) + 1 /\ Cardinality(H) \in Nat
    BY <2>4, OneMore
  <2>7. Cardinality(InGroup(d, W \cup B, g)) <= Cardinality(H \cup {m}) /\ IsFiniteSet(InGroup(d, W \cup B, g))
    BY ONLY <2>3, <2>6, FS_Subset
  <2>8. Cardinality(InGroup(d, W \cup B, g)) \in Nat /\ Cardinality(H \cup {m}) \in Nat
    BY <2>6, <2>7, FS_CardinalityType
  <2> QED
    BY <2>4, <2>5, <2>6, <2>7, <2>8
<1>8. InGroup(db', Workers(stage'), db'.group[p]) = InGroup(d, W \cup B, g) /\ Workers(stage') = W \cup B
  BY <1>1 DEF InGroup, W
<1> HIDE DEF g
<1>9. db'.group[p] = g
  BY <1>1 DEF g
<1> QED
  BY <1>6, <1>7, <1>8, <1>9

\* What CapacityAtStart says of a step.
Fits ==
  \A p \in Started :
    /\ Cardinality(Workers(stage')) <= limit'
    /\ Cardinality(InGroup(db', Workers(stage'), db'.group[p])) <= cap'[db'.group[p]]

\* Every step starts within the limits.
LEMMA CapacityStep ==
  ASSUME IInv, SequencesUnique, [Next]_vars
  PROVE  Fits
<1>1. PumpingStep
  BY StepPumps
<1>2. CASE db'.tries = db.tries
  BY <1>2, NoneStarted DEF Fits
<1>3. CASE db'.tries # db.tries
  <2>1. PICK d : /\ Transacted(d)
                 /\ \E st \in [Pairs -> Stages], A, B \in SUBSET Pairs : PumpRun(d, st, A, B)
    BY <1>1, <1>3 DEF PumpingStep
  <2>2. PICK st \in [Pairs -> Stages], A \in SUBSET Pairs, B \in SUBSET Pairs : PumpRun(d, st, A, B)
    BY <2>1
  <2>3. d \in Store /\ d.tries = db.tries /\ SequencesOf(d)
    BY <2>1, TransactionTries, TransactionSequences DEF Transacted
  <2>4. Started = B
    BY <2>2, <2>3, RunStarts
  <2>5. limit' \in Nat /\ cap' \in [Groups -> Nat]
    <3>1. TypeOK'
      BY NextIInv DEF IInv
    <3> QED
      BY <3>1 DEF TypeOK
  <2> QED
    BY <2>2, <2>3, <2>4, <2>5, RunFits DEF Fits
<1> QED
  BY <1>2, <1>3

\* No attempt starts beyond the limit of the service or of its server, under
\* changing limits, groups and priorities, and whichever handler pumps.
THEOREM CapacityCorrect == Spec => CapacityAtStart
<1>1. IInv /\ SequencesUnique /\ [Next]_vars => [Fits]_vars
  BY CapacityStep
<1> QED
  BY <1>1, IInvHolds, SequencesCorrect, PTL DEF Spec, CapacityAtStart, Fits

-----------------------------------------------------------------------------
(* The contract. *)

\* What a caller sees of the store d.
ResultOf(d)  == [p \in Pairs |-> IF Unfinished(d, p) THEN "pending" ELSE d.pstat[p]]
VerdictOf(d) == [e \in Executions |-> IF d.estat[e] \in ExecActive THEN "open" ELSE d.estat[e]]
AskedOf(d)   == {e \in Executions : d.estat[e] \in {"cancel_requested", "cancelled"}}

\* Stores r and d look the same to a caller.
SameView(r, d) == ResultOf(r) = ResultOf(d) /\ VerdictOf(r) = VerdictOf(d) /\ AskedOf(r) = AskedOf(d)

\* That a pair starts, a caller does not see.
LEMMA StartView ==
  ASSUME NEW d \in Store, NEW A \in SUBSET Eligible(d)
  PROVE  SameView(StartAttempts(d, A), d)
<1> DEFINE r == StartAttempts(d, A)
<1>1. /\ \A p \in Pairs : r.pstat[p] = IF p \in A THEN "running" ELSE d.pstat[p]
      /\ \A e \in Executions : r.estat[e] = IF \E p \in A : p[1] = e THEN "running" ELSE d.estat[e]
  BY DEF StartAttempts, Store
<1>2. \A p \in A : d.pstat[p] \in PairReady /\ d.estat[p[1]] \in ExecOpen
  BY DEF Eligible, Ready
<1> HIDE DEF r
<1>3. ResultOf(r) = ResultOf(d)
  BY <1>1, <1>2 DEF ResultOf, Unfinished, PairReady, PairBusy
<1>4. VerdictOf(r) = VerdictOf(d)
  BY <1>1, <1>2 DEF VerdictOf, ExecActive, ExecOpen
<1>5. AskedOf(r) = AskedOf(d)
  BY <1>1, <1>2 DEF AskedOf, ExecOpen
<1> QED
  BY <1>3, <1>4, <1>5 DEF SameView, r

\* An execution with a pending pair is open.
LEMMA JudgesOpen ==
  ASSUME NEW e, NEW res, NEW s \in Selections, res[<<e, s>>] = "pending"
  PROVE  Contract!Judgement(e, res) = "open"
<1>1. "pending" \in {res[p] : p \in {e} \X Selections} \ {"none"}
  OBVIOUS
<1> QED
  BY <1>1 DEF Contract!Judgement, Contract!PairsIn

\* One that was asked to stop is cancelled when nothing is pending.
LEMMA JudgesCancelled ==
  ASSUME NEW e, NEW res, \A p \in {e} \X Selections : res[p] # "pending", e \in AskedOf(db')
  PROVE  Contract!Judgement(e, res) = "cancelled"
<1>1. "pending" \notin {res[p] : p \in {e} \X Selections} \ {"none"}
  OBVIOUS
<1>2. AskedOf(db') = {f \in Executions : db'.estat[f] \in {"cancel_requested", "cancelled"}}
  BY DEF AskedOf
<1> QED
  BY <1>1, <1>2 DEF Contract!Judgement, Contract!PairsIn

\* Any other has the verdict that finishAttempt computes.
LEMMA JudgesVerdict ==
  ASSUME NEW e, NEW res, e \notin AskedOf(db'),
         NEW mine \in SUBSET ({e} \X Selections), mine # {},
         \A p \in mine : res[p] \in {"success", "failed", "interrupted"},
         \A p \in {e} \X Selections : p \notin mine => res[p] = "none"
  PROVE  Contract!Judgement(e, res) = Verdict(mine, res)
<1> DEFINE results == {res[p] : p \in {e} \X Selections} \ {"none"}
<1>1. AskedOf(db') = {f \in Executions : db'.estat[f] \in {"cancel_requested", "cancelled"}}
  BY DEF AskedOf
<1>2. results = {res[p] : p \in mine}
  OBVIOUS
<1>3. Contract!Judgement(e, res) =
        IF results = {"success"} THEN "success"
        ELSE IF "success" \in results THEN "partial_failure"
        ELSE IF "failed" \in results THEN "failed"
        ELSE "interrupted"
  <2>1. "pending" \notin results
    OBVIOUS
  <2> QED
    BY <1>1, <2>1 DEF Contract!Judgement, Contract!PairsIn
<1>4. results = {"success"} <=> \A p \in mine : res[p] = "success"
  <2>1. ASSUME results = {"success"}, NEW p \in mine
        PROVE  res[p] = "success"
    <3>1. res[p] \in results
      BY <1>2
    <3> QED
      BY <2>1, <3>1
  <2>2. ASSUME \A p \in mine : res[p] = "success"
        PROVE  results = {"success"}
    BY <1>2, <2>2
  <2> QED
    BY <2>1, <2>2
<1>5. "success" \in results <=> Some(mine, res, "success")
  BY <1>2 DEF Some
<1>6. "failed" \in results <=> Some(mine, res, "failed")
  BY <1>2 DEF Some
<1>7. ~Some(mine, res, "success") /\ ~Some(mine, res, "failed") => Some(mine, res, "interrupted")
  BY DEF Some
<1> HIDE DEF results
<1> QED
  BY <1>3, <1>4, <1>5, <1>6, <1>7 DEF Verdict

\* A pair of an execution is one of its pairs in the contract.
LEMMA MineInContract ==
  ASSUME NEW d, NEW e \in Executions
  PROVE  PairsOf(d, e) \subseteq {e} \X Selections
BY DEF PairsOf, Pairs

\* insert() is a submission.
LEMMA InsertingSubmits ==
  ASSUME IInv, NEW r, r \in Store, Inserting(r), SameView(db', r)
  PROVE  Contract!Next
<1>1. db \in Store /\ \A e \in Executions : StatusAgreesOf(db, e)
  BY DEF IInv, TypeOK, StatusAgrees
<1>2. PICK e \in Executions, S \in SUBSET Selections :
        S # {} /\ db.estat[e] = "none" /\ r = Insert(db, e, S, NextSeq(db), GroupNow)
  BY DEF Inserting
<1>3. /\ r.pstat = [p \in Pairs |-> IF p[1] = e /\ p[2] \in S THEN "queued" ELSE db.pstat[p]]
      /\ r.estat = [db.estat EXCEPT ![e] = "queued"]
  BY <1>1, <1>2 DEF Insert, Store
<1>4. ResultOf(r) = [p \in Pairs |-> IF p \in {e} \X S THEN "pending" ELSE ResultOf(db)[p]]
  <2>1. \A p \in Pairs : (p[1] = e /\ p[2] \in S) <=> p \in {e} \X S
    BY DEF Pairs
  <2> QED
    BY <1>3, <2>1 DEF ResultOf, Unfinished, PairReady
<1>5. VerdictOf(r) = [VerdictOf(db) EXCEPT ![e] = "open"]
  BY <1>1, <1>3 DEF VerdictOf, Store, ExecActive, ExecOpen
<1>6. AskedOf(r) = AskedOf(db) /\ VerdictOf(db)[e] = "none"
  BY <1>1, <1>2, <1>3 DEF AskedOf, VerdictOf, Store, ExecActive, ExecOpen
<1>7. /\ VerdictOf(db)[e] = "none"
      /\ ResultOf(db') = [p \in DOMAIN ResultOf(db) |-> IF p \in {e} \X S THEN "pending" ELSE ResultOf(db)[p]]
      /\ VerdictOf(db') = [VerdictOf(db) EXCEPT ![e] = "open"]
      /\ AskedOf(db') = AskedOf(db)
  <2>1. DOMAIN ResultOf(db) = Pairs
    BY DEF ResultOf
  <2> QED
    BY <1>4, <1>5, <1>6, <2>1 DEF SameView
<1>8. Contract!Submit(e, S)
  BY <1>2, <1>7 DEF Contract!Submit, ResultOf, VerdictOf, AskedOf
<1> QED
  BY <1>8 DEF Contract!Next

\* What neither ends nor submits anything, a caller does not see.
LEMMA AdjustingHidden ==
  ASSUME IInv, NEW r, Adjusting(r)
  PROVE  SameView(r, db)
<1>1. db \in Store
  BY DEF IInv, TypeOK
<1>2. r.pstat = db.pstat /\ r.estat = db.estat
  BY <1>1 DEF Adjusting, SetPriority, Store
<1> QED
  BY <1>2 DEF SameView, ResultOf, VerdictOf, AskedOf, Unfinished

\* A step that a caller does not see is a stutter of the contract.
LEMMA HiddenStutters ==
  ASSUME NEW r, SameView(r, db), SameView(db', r)
  PROVE  UNCHANGED Contract!contractVars
<1>1. ResultOf(db') = ResultOf(db) /\ VerdictOf(db') = VerdictOf(db) /\ AskedOf(db') = AskedOf(db)
  BY DEF SameView
<1> QED
  BY <1>1 DEF Contract!contractVars, ResultOf, VerdictOf, AskedOf

\* requestCancellation() of an open execution asks for its cancellation; of
\* any other, a caller sees nothing.
LEMMA CancellingAsks ==
  ASSUME IInv, NEW r, r \in Store, Cancelling(r), SameView(db', r)
  PROVE  Contract!Next \/ UNCHANGED Contract!contractVars
<1>1. db \in Store /\ \A e \in Executions : StatusAgreesOf(db, e)
  BY DEF IInv, TypeOK, StatusAgrees
<1>2. PICK e \in Executions : db.estat[e] # "none" /\ r = RequestCancellation(db, e)
  BY DEF Cancelling
<1> DEFINE mine == PairsOf(db, e)
           busy == \E p \in mine : db.pstat[p] \in PairBusy
<1>3. CASE db.estat[e] \notin ExecActive
  <2>1. SameView(r, db)
    BY <1>2, <1>3 DEF RequestCancellation, SameView
  <2> QED
    BY <2>1, HiddenStutters
<1>4. CASE db.estat[e] \in ExecActive
  <2>1. /\ r.pstat = [p \in Pairs |->
                        IF p \notin mine THEN db.pstat[p]
                        ELSE IF db.pstat[p] \in PairReady THEN "not_started"
                        ELSE IF db.pstat[p] = "running" THEN "cancel_requested"
                        ELSE db.pstat[p]]
        /\ r.estat = [db.estat EXCEPT ![e] = IF busy THEN "cancel_requested" ELSE "cancelled"]
    BY <1>1, <1>2, <1>4 DEF RequestCancellation, Store
  <2>2. CASE db.estat[e] = "cancel_requested"
    <3>1. /\ \A p \in mine : db.pstat[p] \in {"cancel_requested"} \cup PairTerminal
          /\ ~AllTerminal(mine, db.pstat)
      BY <1>1, <2>2 DEF StatusAgreesOf
    <3>2. busy
      BY <3>1 DEF AllTerminal, PairBusy
    <3>3. r.estat = db.estat
      BY <1>1, <2>1, <2>2, <3>2 DEF Store
    <3>4. r.pstat = db.pstat
      BY <1>1, <2>1, <3>1 DEF Store, PairReady, PairTerminal
    <3>5. SameView(r, db)
      BY <3>3, <3>4 DEF SameView, ResultOf, VerdictOf, AskedOf, Unfinished
    <3> QED
      BY <3>5, HiddenStutters
  <2>3. CASE db.estat[e] \in ExecOpen
    <3>0. PICK N : N = {p \in mine : db.pstat[p] \in PairReady}
      OBVIOUS
    <3>1. /\ N \in SUBSET ({e} \X Selections)
          /\ \A p \in N : p \in Pairs /\ ResultOf(db)[p] = "pending"
      BY <3>0, MineInContract DEF ResultOf, Unfinished, PairsOf
    <3>2. ResultOf(r) = [p \in Pairs |-> IF p \in N THEN "not_started" ELSE ResultOf(db)[p]]
      <4>1. \A p \in Pairs : ResultOf(r)[p] = IF p \in N THEN "not_started" ELSE ResultOf(db)[p]
        BY <2>1, <3>0 DEF ResultOf, Unfinished, PairReady, PairBusy, PairsOf
      <4> QED
        BY <4>1 DEF ResultOf
    <3>3. AskedOf(r) = AskedOf(db) \cup {e}
      BY <1>1, <2>1 DEF AskedOf, Store
    <3>4. VerdictOf(db)[e] = "open"
      BY <2>3 DEF VerdictOf, ExecActive
    <3>5. VerdictOf(r) = [VerdictOf(db) EXCEPT ![e] = Contract!Judgement(e, ResultOf(r))]
      <4>1. VerdictOf(r) = [VerdictOf(db) EXCEPT ![e] = IF busy THEN "open" ELSE "cancelled"]
        BY <1>1, <2>1 DEF VerdictOf, Store, ExecActive, ExecOpen
      <4>2. CASE busy
        <5>1. PICK p \in mine : db.pstat[p] \in PairBusy
          BY <4>2
        <5>2. p \in Pairs /\ p = <<e, p[2]>> /\ p[2] \in Selections
          BY DEF PairsOf, Pairs
        <5>3. ResultOf(r)[p] = "pending"
          BY <2>1, <5>1, <5>2 DEF ResultOf, Unfinished, PairBusy, PairReady
        <5>4. Contract!Judgement(e, ResultOf(r)) = "open"
          BY <5>2, <5>3, JudgesOpen
        <5> QED
          BY <4>1, <4>2, <5>4
      <4>3. CASE ~busy
        <5>1. \A p \in {e} \X Selections : p \in Pairs /\ ResultOf(r)[p] # "pending"
          <6> SUFFICES ASSUME NEW p \in {e} \X Selections
                       PROVE  p \in Pairs /\ ResultOf(r)[p] # "pending"
            OBVIOUS
          <6>1. p \in Pairs /\ p[1] = e
            BY DEF Pairs
          <6>2. r.pstat[p] \notin PairReady \cup PairBusy
            <7>1. CASE p \in mine
              BY <2>1, <4>3, <6>1, <7>1 DEF PairReady, PairBusy
            <7>2. CASE p \notin mine
              <8>1. db.pstat[p] = "none"
                BY <6>1, <7>2 DEF PairsOf
              <8> QED
                BY <2>1, <6>1, <7>2, <8>1 DEF PairReady, PairBusy
            <7> QED
              BY <7>1, <7>2
          <6>3. r.pstat[p] \in PairStatus
            BY <6>1 DEF Store
          <6> QED
            BY <6>1, <6>2, <6>3 DEF ResultOf, Unfinished, PairStatus, PairReady, PairBusy, PairTerminal
        <5>2. e \in AskedOf(db')
          BY <3>3 DEF SameView
        <5>3. Contract!Judgement(e, ResultOf(r)) = "cancelled"
          BY <5>1, <5>2, JudgesCancelled
        <5> QED
          BY <4>1, <4>3, <5>3
      <4> QED
        BY <4>2, <4>3
    <3>6. ResultOf(db') = ResultOf(r) /\ VerdictOf(db') = VerdictOf(r) /\ AskedOf(db') = AskedOf(r)
      BY DEF SameView
    <3>7. ResultOf(db') = [p \in DOMAIN ResultOf(db) |-> IF p \in N THEN "not_started" ELSE ResultOf(db)[p]]
      <4>1. DOMAIN ResultOf(db) = Pairs
        BY DEF ResultOf
      <4> QED
        BY <3>2, <3>6, <4>1
    <3>8. VerdictOf(db') = [VerdictOf(db) EXCEPT ![e] = Contract!Judgement(e, ResultOf(db'))]
      BY <3>5, <3>6 DEF Contract!Judgement, Contract!PairsIn
    <3>9. Contract!Ask(e, N)
      BY <3>1, <3>3, <3>4, <3>6, <3>7, <3>8 DEF Contract!Ask, ResultOf, VerdictOf, AskedOf
    <3>10. N \in SUBSET Contract!PairsIn(e)
      BY <3>1 DEF Contract!PairsIn
    <3>11. \E M \in SUBSET Contract!PairsIn(e) : Contract!Ask(e, M)
      BY <3>9, <3>10
    <3> QED
      BY <3>11 DEF Contract!Next
  <2> QED
    BY <1>4, <2>2, <2>3 DEF ExecActive
<1> QED
  BY <1>3, <1>4

\* finishAttempt() of an attempt that is retried, a caller does not see; any
\* other resolves the pair, with the verdict that the contract gives.
LEMMA FinishingResolves ==
  ASSUME IInv, NEW r, r \in Store, Finishing(r), SameView(db', r)
  PROVE  Contract!Next \/ UNCHANGED Contract!contractVars
<1>1. db \in Store /\ \A e \in Executions : StatusAgreesOf(db, e)
  BY DEF IInv, TypeOK, StatusAgrees
<1>2. PICK p \in Pairs, o \in Outcomes :
        /\ db.pstat[p] \in PairBusy
        /\ o = "cancelled" => db.pstat[p] # "running"
        /\ r = FinishAttempt(db, p, o)
  BY DEF Finishing
<1>3. CASE ~CanFinish(db, p)
  <2>1. SameView(r, db)
    BY <1>2, <1>3 DEF FinishAttempt, SameView
  <2> QED
    BY <2>1, HiddenStutters
<1>4. CASE CanFinish(db, p)
  <2> DEFINE e == p[1]
             retry == WillRetry(db, p, o)
             out == Recorded(db, p, o)
             new == IF retry THEN "retry_wait" ELSE out
             stat == [db.pstat EXCEPT ![p] = new]
             mine == PairsOf(db, e)
             before == db.estat[e]
  <2>1. r.pstat = stat /\ r.estat = [db.estat EXCEPT ![e] = Aggregate(before, mine, stat)]
    BY <1>1, <1>2, <1>4 DEF FinishAttempt, Store
  <2>2. e \in Executions /\ p \in mine /\ p = <<e, p[2]>> /\ p[2] \in Selections
    BY <1>2 DEF Pairs, PairsOf, PairBusy
  <2>3. StatusAgreesOf(db, e) /\ mine # {} /\ mine \subseteq {e} \X Selections
    BY <1>1, <2>2, MineInContract
  <2>4. before \in ExecActive
    <3>1. ~AllTerminal(mine, db.pstat)
      BY <1>2, <2>2 DEF AllTerminal, PairBusy, PairTerminal
    <3>2. before # "none"
      BY <2>3 DEF StatusAgreesOf
    <3>3. before \in ExecStatus
      BY <1>1, <2>2 DEF Store
    <3> QED
      BY <2>3, <3>1, <3>2, <3>3 DEF StatusAgreesOf, ExecStatus, ExecActive, ExecTerminal
  <2>5. e \in AskedOf(db) <=> before = "cancel_requested"
    BY <2>2, <2>4 DEF AskedOf, ExecActive, ExecOpen
  <2>6. before = "cancel_requested" <=> db.pstat[p] = "cancel_requested"
    <3>1. before = "cancel_requested" => db.pstat[p] = "cancel_requested"
      BY <1>2, <2>2, <2>3 DEF StatusAgreesOf, PairBusy, PairTerminal
    <3>2. before \in ExecOpen => db.pstat[p] # "cancel_requested"
      BY <2>2, <2>3 DEF StatusAgreesOf
    <3> QED
      BY <2>4, <3>1, <3>2 DEF ExecActive
  <2>7. /\ \A q \in Pairs : stat[q] = IF q = p THEN new ELSE db.pstat[q]
        /\ out \in Outcomes
        /\ out \in IF e \in AskedOf(db) THEN {"success", "cancelled"}
                                        ELSE {"success", "failed", "interrupted"}
    <3>1. out \in Outcomes
      BY DEF Recorded, Outcomes
    <3>2. e \in AskedOf(db) => out \in {"success", "cancelled"}
      BY <2>5, <2>6 DEF Recorded
    <3>3. e \notin AskedOf(db) => out # "cancelled"
      BY <1>2, <2>5, <2>6 DEF Recorded, PairBusy
    <3>4. \A q \in Pairs : stat[q] = IF q = p THEN new ELSE db.pstat[q]
      BY <1>1 DEF Store
    <3> QED
      BY <3>1, <3>2, <3>3, <3>4 DEF Outcomes
  <2>8. ResultOf(db)[p] = "pending" /\ VerdictOf(db)[e] = "open"
    BY <1>2, <2>2, <2>4 DEF ResultOf, Unfinished, VerdictOf
  <2>9. r.estat[e] = Aggregate(before, mine, stat) /\ \A f \in Executions : f # e => r.estat[f] = db.estat[f]
    BY <1>1, <2>1, <2>2 DEF Store
  <2>10. AskedOf(r) = AskedOf(db)
    <3>1. r.estat[e] \in {"cancel_requested", "cancelled"} <=> before = "cancel_requested"
      BY <2>9 DEF Aggregate, Verdict, Progress
    <3> QED
      BY <2>2, <2>4, <2>9, <3>1 DEF AskedOf, ExecActive, ExecOpen
  <2> HIDE DEF new, stat, before, out
  <2>11. CASE retry
    <3>1. new = "retry_wait" /\ before # "cancel_requested"
      BY <2>6, <2>11 DEF new, WillRetry
    <3>2. ResultOf(r) = ResultOf(db)
      BY <1>2, <2>1, <2>7, <3>1 DEF ResultOf, Unfinished, PairReady
    <3>3. r.estat[e] \in ExecOpen
      <4>1. ~AllTerminal(mine, stat)
        BY <2>2, <2>7, <3>1 DEF AllTerminal, PairTerminal
      <4> QED
        BY <2>9, <3>1, <4>1 DEF Aggregate, Progress, ExecOpen
    <3>4. VerdictOf(r) = VerdictOf(db)
      BY <2>4, <2>9, <3>3 DEF VerdictOf, ExecActive, before
    <3>5. SameView(r, db)
      BY <2>10, <3>2, <3>4 DEF SameView
    <3> QED
      BY <3>5, HiddenStutters
  <2>12. CASE ~retry
    <3>1. new = out
      BY <2>12 DEF new
    <3>2. ResultOf(r) = [ResultOf(db) EXCEPT ![p] = out]
      <4>1. \A q \in Pairs : ResultOf(r)[q] = IF q = p THEN out ELSE ResultOf(db)[q]
        BY <2>1, <2>7, <3>1 DEF ResultOf, Unfinished, PairReady, PairBusy, Outcomes
      <4> QED
        BY <4>1 DEF ResultOf
    <3>3. VerdictOf(r) = [VerdictOf(db) EXCEPT ![e] = Contract!Judgement(e, ResultOf(r))]
      <4>1. VerdictOf(r)[e] = Contract!Judgement(e, ResultOf(r))
        <5>1. \A q \in {e} \X Selections : q \in Pairs /\ q[1] = e /\ (q \notin mine => db.pstat[q] = "none")
          BY <2>2 DEF Pairs, PairsOf
        <5>2. CASE ~AllTerminal(mine, stat)
          <6>1. PICK q \in mine : stat[q] \notin PairTerminal
            BY <5>2 DEF AllTerminal
          <6>2. q \in Pairs /\ q = <<e, q[2]>> /\ q[2] \in Selections /\ db.pstat[q] # "none"
            BY DEF PairsOf, Pairs
          <6>3. q # p
            BY <2>7, <3>1, <6>1, <6>2 DEF Outcomes, PairTerminal
          <6>4. ResultOf(r)[q] = "pending"
            BY <1>1, <2>1, <2>7, <6>1, <6>2, <6>3 DEF ResultOf, Unfinished, Store, PairStatus
          <6>5. Contract!Judgement(e, ResultOf(r)) = "open"
            BY <6>2, <6>4, JudgesOpen
          <6>6. r.estat[e] \in ExecActive
            BY <2>9, <5>2 DEF Aggregate, Progress, ExecActive, ExecOpen
          <6> QED
            BY <2>2, <6>5, <6>6 DEF VerdictOf
        <5>3. CASE AllTerminal(mine, stat)
          <6>1. \A q \in mine : ResultOf(r)[q] = stat[q] /\ stat[q] \in PairTerminal /\ q \in Pairs
            BY <2>1, <5>3 DEF AllTerminal, ResultOf, Unfinished, PairTerminal, PairReady, PairBusy, PairsOf
          <6>2. \A q \in {e} \X Selections : q \notin mine => ResultOf(r)[q] = "none"
            BY <2>1, <2>2, <2>7, <5>1 DEF ResultOf, Unfinished, PairReady, PairBusy
          <6>3. CASE before = "cancel_requested"
            <7>1. \A q \in {e} \X Selections : ResultOf(r)[q] # "pending"
              BY <6>1, <6>2 DEF PairTerminal
            <7>2. e \in AskedOf(db')
              BY <2>5, <2>10, <6>3 DEF SameView, before
            <7>3. Contract!Judgement(e, ResultOf(r)) = "cancelled"
              BY <7>1, <7>2, JudgesCancelled
            <7>4. r.estat[e] = "cancelled"
              BY <2>9, <5>3, <6>3 DEF Aggregate
            <7> QED
              BY <2>2, <7>3, <7>4 DEF VerdictOf, ExecActive, ExecOpen
          <6>4. CASE before # "cancel_requested"
            <7>1. e \notin AskedOf(db')
              BY <2>5, <2>10, <6>4 DEF SameView, before
            <7>2. before \in ExecOpen
              BY <2>4, <6>4 DEF ExecActive, before
            <7>3. \A q \in mine : db.pstat[q] \notin {"cancel_requested", "cancelled", "not_started"}
              BY <2>3, <7>2 DEF StatusAgreesOf, before
            <7>4. e \notin AskedOf(db)
              BY <2>5, <6>4 DEF before
            <7>5. \A q \in mine : ResultOf(r)[q] \in {"success", "failed", "interrupted"}
              BY <2>7, <3>1, <6>1, <7>3, <7>4 DEF PairTerminal
            <7>6. Contract!Judgement(e, ResultOf(r)) = Verdict(mine, ResultOf(r))
              BY <2>3, <6>2, <7>1, <7>5, JudgesVerdict
            <7>7. Verdict(mine, ResultOf(r)) = Verdict(mine, stat)
              BY <6>1 DEF Verdict, Some
            <7>8. r.estat[e] = Verdict(mine, stat)
              BY <2>9, <5>3, <6>4 DEF Aggregate
            <7>9. Verdict(mine, stat) \notin ExecActive
              BY DEF Verdict, ExecActive, ExecOpen
            <7> QED
              BY <2>2, <7>6, <7>7, <7>8, <7>9 DEF VerdictOf
          <6> QED
            BY <6>3, <6>4
        <5> QED
          BY <5>2, <5>3
      <4>2. \A f \in Executions : f # e => VerdictOf(r)[f] = VerdictOf(db)[f]
        BY <2>9 DEF VerdictOf
      <4> QED
        BY <2>2, <4>1, <4>2 DEF VerdictOf
    <3>4. ResultOf(db') = ResultOf(r) /\ VerdictOf(db') = VerdictOf(r) /\ AskedOf(db') = AskedOf(r)
      BY DEF SameView
    <3>5. PICK out1 \in {"success", "failed", "interrupted", "cancelled"} : out1 = out
      BY <2>7 DEF Outcomes
    <3>6. VerdictOf(db') = [VerdictOf(db) EXCEPT ![p[1]] = Contract!Judgement(p[1], ResultOf(db'))]
      BY <3>3, <3>4 DEF Contract!Judgement, Contract!PairsIn
    <3>7. /\ ResultOf(db)[p] = "pending"
          /\ out1 \in IF p[1] \in AskedOf(db) THEN {"success", "cancelled"}
                                              ELSE {"success", "failed", "interrupted"}
          /\ ResultOf(db') = [ResultOf(db) EXCEPT ![p] = out1]
          /\ AskedOf(db') = AskedOf(db)
      BY <2>7, <2>8, <2>10, <3>2, <3>4, <3>5
    <3>8. Contract!Resolve(p, out1)
      BY <3>6, <3>7 DEF Contract!Resolve, ResultOf, VerdictOf, AskedOf
    <3>9. p \in Executions \X Selections
      BY DEF Pairs
    <3> QED
      BY <3>5, <3>8, <3>9 DEF Contract!Next
  <2> QED
    BY <2>11, <2>12
<1> QED
  BY <1>3, <1>4

\* Every step of the coordinator is a step of the contract, or none.
LEMMA StepHonoursContract ==
  ASSUME IInv, [Next]_vars
  PROVE  [Contract!Next]_Contract!contractVars
<1>1. PICK r : Transacted(r) /\ StartsAfter(r)
  BY StepTransacts DEF QueueStep
<1>2. r \in Store /\ SameView(db', r)
  BY <1>1, StartView DEF StartsAfter, Transacted
<1>3. CASE Inserting(r)
  BY <1>2, <1>3, InsertingSubmits
<1>4. CASE Finishing(r)
  BY <1>2, <1>4, FinishingResolves
<1>5. CASE Cancelling(r)
  BY <1>2, <1>5, CancellingAsks
<1>6. CASE Adjusting(r)
  <2>1. UNCHANGED Contract!contractVars
    BY <1>2, <1>6, AdjustingHidden, HiddenStutters
  <2> QED
    BY <2>1
<1> QED
  BY <1>1, <1>3, <1>4, <1>5, <1>6 DEF Transacted

\* Nothing is submitted in a new installation.
LEMMA InitHonoursContract == Init => Contract!Init
<1> SUFFICES ASSUME Init
             PROVE  Contract!Init
  OBVIOUS
<1>1. /\ db.pstat = [p \in Pairs |-> "none"]
      /\ db.estat = [e \in Executions |-> "none"]
  BY DEF Init, EmptyStore
<1> QED
  BY <1>1 DEF Contract!Init, Pairs, Unfinished, PairReady, PairBusy, ExecActive, ExecOpen

\* The coordinator, with its queue, retries, crashes, restarts and failing
\* writes, implements what callers rely on.
THEOREM ContractCorrect == Spec => ContractHolds
BY InitHonoursContract, StepHonoursContract, IInvHolds, PTL DEF Spec, ContractHolds, Contract!Spec
=============================================================================
