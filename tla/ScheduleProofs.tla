--------------------------- MODULE ScheduleProofs ---------------------------
(***************************************************************************)
(* Schedules, for any cron expressions, overlap policies, downtime,        *)
(* crashes between two schedules, failing writes and corrections of the    *)
(* clock.  Each occurrence before next_run_at has been accounted for       *)
(* because what a schedule answers for ends where next_run_at begins       *)
(* (Behind): handling a row moves next_run_at beyond its now, and covers   *)
(* what is in between and nothing else.                                    *)
(***************************************************************************)
EXTENDS Schedule, SequenceTheorems, FiniteSetTheorems, WellFoundedInduction, TLAPS

USE ScheduleAssumption

StoredExecution ==
  [trigger : {"manual", "scheduled", "catchup"}, scheduledFor : Nat \cup {None}, active : BOOLEAN,
   missed : Int, from : Nat \cup {None}, to : Nat \cup {None}, bounded : BOOLEAN]

\* Executions that were not started by hand were enqueued for an occurrence,
\* and the range they were given begins there.
WellFormed(e) ==
  /\ e \in StoredExecution
  /\ e.trigger = "manual" <=> e.scheduledFor = None
  /\ e.from # None => e.from = e.scheduledFor /\ e.to \in Nat /\ e.from <= e.to

TypeOK ==
  /\ clock \in Time
  /\ job \in [Jobs -> [enabled : BOOLEAN, cron : Crons, policy : {"skip", "queue"}, next : Nat]]
  /\ execs \in [Jobs -> Seq(StoredExecution)]
  /\ skips \subseteq [job : Jobs, from : Nat, to : Nat, count : Nat]
  /\ up \in {"down", "up", "stopped"}
  /\ sweep \in [startup : BOOLEAN, now : Time, left : SUBSET Jobs]
  /\ events \in Nat /\ backs \in Nat
  /\ since \in [Jobs -> Nat]

\* The rows that are left are due, at a time that has come.
SweepAgrees ==
  /\ \A j \in sweep.left : job[j].next <= sweep.now
  /\ backs = 0 => sweep.now <= clock

\* A schedule waits for an occurrence of its own, under a policy it may have.
Waits(j) ==
  /\ job[j].policy \in Policies[j]
  /\ job[j].next \in job[j].cron
  /\ since[j] <= job[j].next
  /\ \A i \in DOMAIN execs[j] : WellFormed(execs[j][i])

\* The last time that execution e stands for.
Upto(e) == IF e.from = None THEN e.scheduledFor ELSE e.to

\* Nothing answers for what next_run_at has not reached, or the clock.
Behind(j) ==
  backs = 0 =>
    /\ \A i \in Automatic(j) : Upto(execs[j][i]) < job[j].next /\ Upto(execs[j][i]) <= clock
    /\ \A y \in skips : y.job = j => y.to < job[j].next /\ y.to <= clock

\* Occurrences are accounted for, once.
Covered(j) ==
  \A t \in job[j].cron :
    since[j] <= t /\ t < job[j].next =>
      /\ Accounts(j, t) # {}
      /\ backs = 0 => \E x \in Accounts(j, t) : Accounts(j, t) = {x}

\* Execution e of schedule j reports the number it stands for.
Reports(j, e) ==
  LET stood == Cardinality(StandsFor(e) \cap job[j].cron)
      told  == e.missed + (IF e.trigger = "scheduled" THEN 1 ELSE 0) IN
  IF e.bounded THEN told < stood ELSE told = stood

Counted(j) ==
  \A i \in Automatic(j) : backs = 0 /\ since[j] <= execs[j][i].scheduledFor => Reports(j, execs[j][i])

\* No occurrence has two executions.
Distinct(j) ==
  \A i, k \in DOMAIN execs[j] :
    i # k /\ execs[j][i].scheduledFor # None => execs[j][i].scheduledFor # execs[j][k].scheduledFor

\* At most one automatic execution of a schedule that skips is active.
OneActive(j) ==
  Policies[j] = {"skip"} =>
    \A i, k \in Automatic(j) : execs[j][i].active /\ execs[j][k].active => i = k

Sound(j) == Waits(j) /\ Behind(j) /\ Covered(j) /\ Counted(j) /\ Distinct(j) /\ OneActive(j)

\* The inductive invariant.
IInv == TypeOK /\ SweepAgrees /\ \A j \in Jobs : Sound(j)

-----------------------------------------------------------------------------
(* Times *)

\* A non-empty set of numbers has a least one.
LEMMA LeastNumber ==
  ASSUME NEW T, T \subseteq Nat, T # {}
  PROVE  \E n \in T : \A k \in T : n <= k
<1>1. \E n \in T : \A k \in T : <<k, n>> \notin OpToRel(<, Nat)
  BY ONLY WFMin, NatLessThanWellFounded, T \subseteq Nat, T # {}, Zenon
<1>2. \A k, n \in Nat : k < n => <<k, n>> \in OpToRel(<, Nat)
  BY DEF OpToRel
<1>3. PICK n \in T : \A k \in T : <<k, n>> \notin OpToRel(<, Nat)
  BY <1>1
<1>4. ASSUME NEW k \in T
      PROVE  n <= k
  <2>1. k \in Nat /\ n \in Nat
    OBVIOUS
  <2>2. ~(k < n)
    BY <1>2, <1>3, <2>1
  <2> QED
    BY <2>1, <2>2
<1> QED
  BY <1>4

\* A non-empty set of numbers up to n has a greatest one.
LEMMA GreatestNumber ==
  ASSUME NEW n \in Nat, NEW T, T \subseteq 0 .. n, T # {}
  PROVE  \E m \in T : \A k \in T : k <= m
<1> DEFINE U == {d \in Nat : n - d \in T}
<1>1. PICK t \in T : TRUE
  OBVIOUS
<1>2. n - t \in U
  OBVIOUS
<1>3. PICK d \in U : \A k \in U : d <= k
  <2> U \subseteq Nat /\ U # {}
    BY <1>2
  <2> HIDE DEF U
  <2> QED
    BY LeastNumber
<1>4. \A k \in T : n - k \in U
  OBVIOUS
<1>5. ASSUME NEW k \in T
      PROVE  k <= n - d
  <2>1. k \in Nat /\ d \in Nat
    OBVIOUS
  <2>2. d <= n - k
    BY <1>3, <1>4
  <2> QED
    BY <2>1, <2>2
<1> QED
  BY <1>3, <1>5

\* The next occurrence of a cron expression is the first one after t.
LEMMA NextCronIsFirst ==
  ASSUME NEW c \in Crons, NEW t \in Time
  PROVE  /\ nextCron(c, t) \in c /\ nextCron(c, t) \in Nat
         /\ nextCron(c, t) > t
         /\ \A o \in c : o > t => nextCron(c, t) <= o
<1> DEFINE S == {o \in c : o > t}
<1>1. S \subseteq Nat /\ S # {}
  OBVIOUS
<1>2. \E x \in S : \A y \in S : x <= y
  <2> HIDE DEF S
  <2> QED
    BY <1>1, LeastNumber
<1>3. First(S) \in S /\ \A y \in S : First(S) <= y
  <2> HIDE DEF S
  <2> QED
    BY <1>2 DEF First
<1> QED
  BY <1>1, <1>3 DEF nextCron

\* What a row that is due answers for: the occurrences from next_run_at to
\* now, up to the last of them, or up to now when they were not enumerated.
LEMMA RowIsDue ==
  ASSUME TypeOK, NEW j \in Jobs, Waits(j), NEW now \in Time, job[j].next <= now
  PROVE  /\ job[j].next \in Due(j, now)
         /\ Due(j, now) \subseteq Nat /\ Cardinality(Due(j, now)) \in Nat
         /\ Count(j, now) \in Nat /\ Count(j, now) >= 1
         /\ LastDue(j, now) \in Nat
         /\ job[j].next <= LastDue(j, now) /\ LastDue(j, now) <= now
         /\ \A o \in Due(j, now) : o <= LastDue(j, now)
         /\ IF IsBounded(j, now) THEN Count(j, now) = MaxCount /\ MaxCount < Cardinality(Due(j, now))
                                 ELSE Count(j, now) = Cardinality(Due(j, now))
         /\ Count(j, now) <= 1 => Due(j, now) = {job[j].next}
<1> DEFINE D == Due(j, now)
<1>1. job[j].next \in Nat /\ job[j].next \in job[j].cron /\ job[j].cron \subseteq Nat /\ now \in Nat
  BY DEF TypeOK, Waits, Time
<1>2. job[j].next \in D /\ D \subseteq 0 .. now /\ D \subseteq Nat /\ \A o \in D : job[j].next <= o /\ o <= now
  BY <1>1 DEF Due
<1>3. IsFiniteSet(D) /\ Cardinality(D) \in Nat
  <2>1. IsFiniteSet(0 .. now)
    BY <1>1, FS_Interval
  <2> QED
    BY <1>2, <2>1, FS_Subset, FS_CardinalityType
<1>4. Cardinality(D) >= 1
  BY <1>2, <1>3, FS_EmptySet
<1>5. Last(D) \in D /\ \A o \in D : o <= Last(D)
  <2>1. \E m \in D : \A k \in D : k <= m
    BY <1>1, <1>2, GreatestNumber
  <2>2. \E m \in D : \A k \in D : m >= k
    BY <1>2, <2>1
  <2>3. Last(D) \in D /\ \A o \in D : Last(D) >= o
    <3> HIDE DEF D
    <3> QED
      BY <2>2 DEF Last
  <2> QED
    BY <1>2, <2>3
<1>6. Cardinality(D) = 1 => D = {job[j].next}
  <2>1. Cardinality(D) = 1 => \E x : D = {x}
    BY <1>3, FS_Singleton
  <2> QED
    BY <1>2, <2>1
<1> HIDE DEF D
<1>7. /\ IsBounded(j, now) <=> Cardinality(D) > MaxCount
      /\ Count(j, now) = IF IsBounded(j, now) THEN MaxCount ELSE Cardinality(D)
      /\ LastDue(j, now) = IF IsBounded(j, now) THEN now ELSE Last(D)
  BY DEF IsBounded, Count, LastDue, D
<1>8. /\ Count(j, now) \in Nat /\ Count(j, now) >= 1
      /\ Count(j, now) <= 1 => D = {job[j].next}
      /\ IF IsBounded(j, now) THEN Count(j, now) = MaxCount /\ MaxCount < Cardinality(D)
                              ELSE Count(j, now) = Cardinality(D)
  BY <1>3, <1>4, <1>6, <1>7
<1>9. /\ LastDue(j, now) \in Nat
      /\ job[j].next <= LastDue(j, now) /\ LastDue(j, now) <= now
      /\ \A o \in D : o <= LastDue(j, now)
  <2>1. CASE IsBounded(j, now)
    <3>1. LastDue(j, now) = now
      BY <1>7, <2>1
    <3> QED
      BY <1>1, <1>2, <3>1
  <2>2. CASE ~IsBounded(j, now)
    <3>1. LastDue(j, now) = Last(D)
      BY <1>7, <2>2
    <3> QED
      BY <1>2, <1>5, <3>1
  <2> QED
    BY <2>1, <2>2
<1> QED
  BY <1>2, <1>3, <1>8, <1>9 DEF D

-----------------------------------------------------------------------------
(* What executions stand for *)

\* An execution stands for the times from its occurrence to Upto.
LEMMA Standing ==
  ASSUME NEW e, WellFormed(e), e.trigger # "manual"
  PROVE  /\ e.scheduledFor \in Nat /\ Upto(e) \in Nat /\ e.scheduledFor <= Upto(e)
         /\ StandsFor(e) = e.scheduledFor .. Upto(e)
<1>1. e.scheduledFor \in Nat
  BY DEF WellFormed, StoredExecution
<1>2. CASE e.from = None
  BY <1>1, <1>2 DEF StandsFor, Upto
<1>3. CASE e.from # None
  <2>1. e.from = e.scheduledFor /\ e.to \in Nat /\ e.from <= e.to
    BY <1>3 DEF WellFormed
  <2> QED
    BY <1>1, <1>3, <2>1 DEF StandsFor, Upto
<1> QED
  BY <1>2, <1>3

\* The UPDATE after enqueue() makes an execution stand for the occurrences
\* that are due, and for no other.
LEMMA WithMissedStands ==
  ASSUME TypeOK, NEW j \in Jobs, Waits(j), NEW now \in Time, job[j].next <= now,
         NEW startup \in BOOLEAN,
         NEW x, WellFormed(x), x.scheduledFor = job[j].next,
         NEW e, e = WithMissed(x, j, now, startup)
  PROVE  /\ WellFormed(e)
         /\ e.trigger = x.trigger /\ e.scheduledFor = x.scheduledFor /\ e.active = x.active
         /\ e.missed = IF startup THEN Count(j, now) ELSE Count(j, now) - 1
         /\ e.bounded = (x.bounded \/ IsBounded(j, now))
         /\ Upto(e) <= now
         /\ StandsFor(e) \cap job[j].cron = Due(j, now)
<1>0. job[j].next \in Nat /\ job[j].cron \subseteq Nat /\ now \in Nat /\ job[j].next # None /\ job[j].next \in job[j].cron
  BY DEF TypeOK, Waits, Time
<1>1. /\ job[j].next \in Due(j, now)
      /\ Count(j, now) \in Nat /\ Count(j, now) >= 1
      /\ LastDue(j, now) \in Nat
      /\ job[j].next <= LastDue(j, now) /\ LastDue(j, now) <= now
      /\ \A o \in Due(j, now) : o <= LastDue(j, now)
      /\ Count(j, now) <= 1 => Due(j, now) = {job[j].next}
  BY RowIsDue
<1>2. x \in StoredExecution
  BY DEF WellFormed
<1> DEFINE several == startup \/ Count(j, now) > 1
<1>3. /\ e \in StoredExecution
      /\ e.trigger = x.trigger /\ e.scheduledFor = x.scheduledFor /\ e.active = x.active
      /\ e.missed = IF startup THEN Count(j, now) ELSE Count(j, now) - 1
      /\ e.bounded = (x.bounded \/ IsBounded(j, now))
      /\ e.from = IF several THEN job[j].next ELSE None
      /\ e.to = IF several THEN LastDue(j, now) ELSE None
  <2>1. IsBounded(j, now) \in BOOLEAN
    BY DEF IsBounded
  <2>2. /\ x = [trigger |-> x.trigger, scheduledFor |-> x.scheduledFor, active |-> x.active,
                missed |-> x.missed, from |-> x.from, to |-> x.to, bounded |-> x.bounded]
        /\ x.trigger \in {"manual", "scheduled", "catchup"} /\ x.scheduledFor \in Nat \cup {None}
        /\ x.active \in BOOLEAN /\ x.bounded \in BOOLEAN
    BY <1>2 DEF StoredExecution
  <2>3. e = [trigger |-> x.trigger, scheduledFor |-> x.scheduledFor, active |-> x.active,
             missed |-> IF startup THEN Count(j, now) ELSE Count(j, now) - 1,
             from |-> IF several THEN job[j].next ELSE None,
             to |-> IF several THEN LastDue(j, now) ELSE None,
             bounded |-> x.bounded \/ IsBounded(j, now)]
    BY <2>2 DEF WithMissed
  <2>4. (x.bounded \/ IsBounded(j, now)) \in BOOLEAN
    BY <2>1, <2>2
  <2>5. (IF startup THEN Count(j, now) ELSE Count(j, now) - 1) \in Int
    BY <1>1
  <2>6. /\ (IF several THEN job[j].next ELSE None) \in Nat \cup {None}
        /\ (IF several THEN LastDue(j, now) ELSE None) \in Nat \cup {None}
    BY <1>0, <1>1
  <2> HIDE DEF several
  <2>7. e \in StoredExecution
    BY <2>2, <2>3, <2>4, <2>5, <2>6 DEF StoredExecution
  <2> QED
    BY <2>3, <2>7
<1>4. WellFormed(e)
  BY <1>0, <1>1, <1>3 DEF WellFormed
<1>5. CASE several
  <2>1. StandsFor(e) = job[j].next .. LastDue(j, now) /\ Upto(e) = LastDue(j, now)
    BY <1>0, <1>3, <1>5 DEF StandsFor, Upto
  <2>2. StandsFor(e) \cap job[j].cron = Due(j, now)
    BY <1>0, <1>1, <2>1 DEF Due
  <2> QED
    BY <1>1, <1>3, <1>4, <2>1, <2>2
<1>6. CASE ~several
  <2>1. StandsFor(e) = {job[j].next} /\ Upto(e) = job[j].next
    BY <1>0, <1>3, <1>6 DEF StandsFor, Upto
  <2>2. Due(j, now) = {job[j].next}
    BY <1>1, <1>6
  <2> QED
    BY <1>0, <1>1, <1>3, <1>4, <2>1, <2>2
<1> QED
  BY <1>5, <1>6

-----------------------------------------------------------------------------
(* What accounts for an occurrence *)

\* Accounts, of executions x and skips s.
AccountsIn(x, s, j, t) ==
  {<<"execution", i>> : i \in {k \in DOMAIN x : x[k].trigger # "manual" /\ t \in StandsFor(x[k])}}
    \cup {<<"skip", y>> : y \in {z \in s : z.job = j /\ t \in z.from .. z.to}}

\* The accounts of an occurrence are read off the rows of its schedule,
LEMMA AccountsAre ==
  ASSUME NEW j, NEW t
  PROVE  Accounts(j, t) = AccountsIn(execs[j], skips, j, t)
BY DEF Accounts, AccountsIn, Automatic

\* ... and after a step.
LEMMA AccountsWillBe ==
  ASSUME NEW j, NEW t
  PROVE  Accounts(j, t)' = AccountsIn(execs'[j], skips', j, t)
BY DEF Accounts, AccountsIn, Automatic

\* The executions x of a schedule, some of which may have ended since: y.
Quieter(x, y) ==
  /\ DOMAIN y = DOMAIN x
  /\ \A i \in DOMAIN x :
       /\ y[i] = [x[i] EXCEPT !.active = y[i].active]
       /\ y[i].active => x[i].active

\* Ending changes nothing of what an execution stands for.
LEMMA QuieterStands ==
  ASSUME NEW x, NEW y, Quieter(x, y),
         \A i \in DOMAIN x : WellFormed(x[i]) /\ y[i].active \in BOOLEAN
  PROVE  /\ \A i \in DOMAIN x :
              /\ WellFormed(y[i])
              /\ y[i].trigger = x[i].trigger /\ y[i].scheduledFor = x[i].scheduledFor
              /\ y[i].missed = x[i].missed /\ y[i].bounded = x[i].bounded
              /\ StandsFor(y[i]) = StandsFor(x[i]) /\ Upto(y[i]) = Upto(x[i])
         /\ \A s, j, t : AccountsIn(y, s, j, t) = AccountsIn(x, s, j, t)
<1>1. ASSUME NEW i \in DOMAIN x
      PROVE  /\ WellFormed(y[i])
             /\ y[i].trigger = x[i].trigger /\ y[i].scheduledFor = x[i].scheduledFor
             /\ y[i].missed = x[i].missed /\ y[i].bounded = x[i].bounded
             /\ StandsFor(y[i]) = StandsFor(x[i]) /\ Upto(y[i]) = Upto(x[i])
  <2>1. PICK b \in BOOLEAN : y[i] = [x[i] EXCEPT !.active = b]
    BY DEF Quieter
  <2>2. x[i] \in StoredExecution
    BY DEF WellFormed
  <2>3. /\ y[i] \in StoredExecution
        /\ y[i].trigger = x[i].trigger /\ y[i].scheduledFor = x[i].scheduledFor
        /\ y[i].missed = x[i].missed /\ y[i].bounded = x[i].bounded
        /\ y[i].from = x[i].from /\ y[i].to = x[i].to
    BY <2>1, <2>2 DEF StoredExecution
  <2> QED
    BY <2>3 DEF WellFormed, StandsFor, Upto
<1> QED
  BY <1>1 DEF AccountsIn, Quieter

\* What execution e, the n-th of its schedule, accounts for.
Adds(e, n, t) == IF e.trigger # "manual" /\ t \in StandsFor(e) THEN {<<"execution", n>>} ELSE {}

\* An execution that is appended accounts for what it stands for.
LEMMA AppendAccounts ==
  ASSUME NEW x \in Seq(StoredExecution), NEW e
  PROVE  /\ DOMAIN Append(x, e) = DOMAIN x \cup {Len(x) + 1} /\ Len(x) + 1 \notin DOMAIN x
         /\ Append(x, e)[Len(x) + 1] = e
         /\ \A i \in DOMAIN x : Append(x, e)[i] = x[i]
         /\ \A s, j, t : AccountsIn(Append(x, e), s, j, t) = AccountsIn(x, s, j, t) \cup Adds(e, Len(x) + 1, t)
<1> DEFINE y == Append(x, e)
<1>1. /\ DOMAIN x = 1 .. Len(x) /\ Len(x) \in Nat
      /\ DOMAIN y = 1 .. Len(x) + 1
      /\ y[Len(x) + 1] = e
      /\ \A i \in 1 .. Len(x) : y[i] = x[i]
  OBVIOUS
<1>2. DOMAIN y = DOMAIN x \cup {Len(x) + 1} /\ Len(x) + 1 \notin DOMAIN x
  BY <1>1
<1>3. ASSUME NEW s, NEW j, NEW t
      PROVE  AccountsIn(y, s, j, t) = AccountsIn(x, s, j, t) \cup Adds(e, Len(x) + 1, t)
  <2> DEFINE old == {k \in DOMAIN x : x[k].trigger # "manual" /\ t \in StandsFor(x[k])}
             new == {k \in DOMAIN y : y[k].trigger # "manual" /\ t \in StandsFor(y[k])}
  <2>1. new = old \cup {k \in {Len(x) + 1} : e.trigger # "manual" /\ t \in StandsFor(e)}
    BY <1>1, <1>2
  <2> QED
    BY <2>1 DEF AccountsIn, Adds
<1> QED
  BY <1>1, <1>2, <1>3

-----------------------------------------------------------------------------
(* Steps *)

\* What a step does not save, skip or enqueue for schedule j stays as it is.
\* Executions may end, and the clock may move on, or back if that is
\* remembered.
LEMMA StaysSound ==
  ASSUME TypeOK, TypeOK', NEW j \in Jobs, Sound(j), job'[j] = job[j], since'[j] = since[j],
         \A y : y.job = j => (y \in skips' <=> y \in skips),
         Quieter(execs[j], execs'[j]),
         backs' = 0 => backs = 0 /\ clock <= clock'
  PROVE  Sound(j)'
<1>1. DOMAIN execs'[j] = DOMAIN execs[j] /\ \A i \in DOMAIN execs[j] : execs'[j][i].active => execs[j][i].active
  BY DEF Quieter
<1>2. \A i \in DOMAIN execs[j] : WellFormed(execs[j][i]) /\ execs'[j][i].active \in BOOLEAN
  <2>1. execs'[j] \in Seq(StoredExecution)
    BY DEF TypeOK
  <2>2. \A i \in DOMAIN execs'[j] : execs'[j][i] \in StoredExecution
    BY <2>1
  <2>3. \A i \in DOMAIN execs[j] : execs'[j][i].active \in BOOLEAN
    BY <1>1, <2>2 DEF StoredExecution
  <2> QED
    BY <2>3 DEF Sound, Waits
<1>3. /\ \A i \in DOMAIN execs[j] :
           /\ WellFormed(execs'[j][i])
           /\ execs'[j][i].trigger = execs[j][i].trigger
           /\ execs'[j][i].scheduledFor = execs[j][i].scheduledFor
           /\ execs'[j][i].missed = execs[j][i].missed
           /\ execs'[j][i].bounded = execs[j][i].bounded
           /\ StandsFor(execs'[j][i]) = StandsFor(execs[j][i])
           /\ Upto(execs'[j][i]) = Upto(execs[j][i])
      /\ \A s, k, t : AccountsIn(execs'[j], s, k, t) = AccountsIn(execs[j], s, k, t)
  BY <1>2, QuieterStands
<1>4. \A t : Accounts(j, t)' = Accounts(j, t)
  <2>1. \A t : AccountsIn(execs[j], skips', j, t) = AccountsIn(execs[j], skips, j, t)
    BY DEF AccountsIn
  <2> QED
    BY <1>3, <2>1, AccountsAre, AccountsWillBe
<1>5. Automatic(j)' = Automatic(j) /\ \A i \in Automatic(j) : i \in DOMAIN execs[j]
  BY <1>1, <1>3 DEF Automatic
<1>6. Waits(j)'
  BY <1>1, <1>3 DEF Sound, Waits
<1>7. Behind(j)'
  <2>1. SUFFICES ASSUME backs' = 0
                 PROVE  /\ \A i \in Automatic(j)' : Upto(execs'[j][i]) < job[j].next /\ Upto(execs'[j][i]) <= clock'
                        /\ \A y \in skips' : y.job = j => y.to < job[j].next /\ y.to <= clock'
    BY DEF Behind
  <2>2. clock \in Nat /\ clock' \in Nat
    BY DEF TypeOK, Time
  <2>3. ASSUME NEW i \in Automatic(j)
        PROVE  Upto(execs'[j][i]) < job[j].next /\ Upto(execs'[j][i]) <= clock'
    <3>1. i \in DOMAIN execs[j] /\ execs[j][i].trigger # "manual"
      BY DEF Automatic
    <3>2. Upto(execs[j][i]) \in Nat
      BY <1>2, <3>1, Standing
    <3> QED
      BY <1>3, <2>1, <2>2, <3>1, <3>2 DEF Sound, Behind
  <2>4. ASSUME NEW y \in skips', y.job = j
        PROVE  y.to < job[j].next /\ y.to <= clock'
    <3>1. y \in skips /\ y.to \in Nat
      BY <2>4 DEF TypeOK
    <3> QED
      BY <2>1, <2>2, <2>4, <3>1 DEF Sound, Behind
  <2> QED
    BY <1>5, <2>3, <2>4
<1>8. Covered(j)'
  <2>1. \A t \in job[j].cron :
          since[j] <= t /\ t < job[j].next =>
            /\ Accounts(j, t)' # {}
            /\ backs' = 0 => \E x \in Accounts(j, t)' : Accounts(j, t)' = {x}
    BY <1>4 DEF Sound, Covered
  <2> QED
    BY <2>1 DEF Covered
<1>9. Counted(j)'
  <2>1. ASSUME NEW i \in Automatic(j), backs' = 0, since[j] <= execs'[j][i].scheduledFor
        PROVE  Reports(j, execs[j][i])'
    <3>1. i \in DOMAIN execs[j]
      BY <1>5
    <3>2. Reports(j, execs[j][i])
      BY <1>3, <2>1, <3>1 DEF Sound, Counted
    <3> QED
      BY <1>3, <3>1, <3>2 DEF Reports
  <2> QED
    BY <1>5, <2>1 DEF Counted
<1>10. Distinct(j)'
  BY <1>1, <1>3 DEF Sound, Distinct
<1>11. OneActive(j)'
  BY <1>1, <1>5 DEF Sound, OneActive
<1> QED
  BY <1>6, <1>7, <1>8, <1>9, <1>10, <1>11 DEF Sound

\* An execution that is started by hand accounts for nothing.
LEMMA ManualSound ==
  ASSUME TypeOK, TypeOK', NEW j \in Jobs, Sound(j), job'[j] = job[j], since'[j] = since[j],
         skips' = skips, backs' = backs, clock' = clock,
         execs'[j] = Append(execs[j], Execution("manual", None))
  PROVE  Sound(j)'
<1> DEFINE e == Execution("manual", None)
           n == Len(execs[j]) + 1
<1>1. WellFormed(e) /\ e.trigger = "manual" /\ e.scheduledFor = None
  BY DEF WellFormed, StoredExecution, Execution
<1>2. /\ DOMAIN execs'[j] = DOMAIN execs[j] \cup {n}
      /\ execs'[j][n] = e
      /\ \A i \in DOMAIN execs[j] : execs'[j][i] = execs[j][i]
      /\ \A s, k, t : AccountsIn(execs'[j], s, k, t) = AccountsIn(execs[j], s, k, t)
  <2>1. execs[j] \in Seq(StoredExecution)
    BY DEF TypeOK
  <2>2. \A t : Adds(e, n, t) = {}
    BY <1>1 DEF Adds
  <2> HIDE DEF e
  <2>3. /\ DOMAIN Append(execs[j], e) = DOMAIN execs[j] \cup {n}
        /\ Append(execs[j], e)[n] = e
        /\ \A i \in DOMAIN execs[j] : Append(execs[j], e)[i] = execs[j][i]
        /\ \A s, k, t : AccountsIn(Append(execs[j], e), s, k, t) =
                          AccountsIn(execs[j], s, k, t) \cup Adds(e, n, t)
    BY ONLY <2>1, AppendAccounts DEF n
  <2>4. execs'[j] = Append(execs[j], e)
    BY DEF e
  <2>5. ASSUME NEW s, NEW k, NEW t
        PROVE  AccountsIn(execs'[j], s, k, t) = AccountsIn(execs[j], s, k, t)
    <3>1. AccountsIn(execs'[j], s, k, t) = AccountsIn(execs[j], s, k, t) \cup Adds(e, n, t)
      BY ONLY <2>3, <2>4
    <3> QED
      BY ONLY <2>2, <3>1
  <2>6. /\ DOMAIN execs'[j] = DOMAIN execs[j] \cup {n}
        /\ execs'[j][n] = e
        /\ \A i \in DOMAIN execs[j] : execs'[j][i] = execs[j][i]
    BY ONLY <2>3, <2>4
  <2> QED
    BY ONLY <2>5, <2>6
<1> HIDE DEF e, n
<1>3. \A t : Accounts(j, t)' = Accounts(j, t)
  BY <1>2, AccountsAre, AccountsWillBe
<1>4. Automatic(j)' = Automatic(j) /\ \A i \in Automatic(j) : i \in DOMAIN execs[j]
  BY <1>1, <1>2 DEF Automatic
<1>5. Waits(j)'
  BY <1>1, <1>2 DEF Sound, Waits
<1>6. Behind(j)'
  BY <1>2, <1>4 DEF Sound, Behind
<1>7. Covered(j)'
  <2>1. \A t \in job[j].cron :
          since[j] <= t /\ t < job[j].next =>
            /\ Accounts(j, t)' # {}
            /\ backs' = 0 => \E x \in Accounts(j, t)' : Accounts(j, t)' = {x}
    BY <1>3 DEF Sound, Covered
  <2> QED
    BY <2>1 DEF Covered
<1>8. Counted(j)'
  <2>1. \A i \in Automatic(j) : backs = 0 /\ since[j] <= execs[j][i].scheduledFor => Reports(j, execs[j][i])
    BY DEF Sound, Counted
  <2>2. \A i \in Automatic(j) : execs'[j][i] = execs[j][i]
    BY <1>2, <1>4
  <2> QED
    BY ONLY <1>4, <2>1, <2>2, job'[j] = job[j], since'[j] = since[j], backs' = backs DEF Counted, Reports
<1>9. Distinct(j)'
  <2>1. \A i, k \in DOMAIN execs[j] :
          i # k /\ execs[j][i].scheduledFor # None => execs[j][i].scheduledFor # execs[j][k].scheduledFor
    BY DEF Sound, Distinct
  <2> QED
    BY ONLY <1>1, <1>2, <2>1 DEF Distinct
<1>10. OneActive(j)'
  BY <1>2, <1>4 DEF Sound, OneActive
<1> QED
  BY <1>5, <1>6, <1>7, <1>8, <1>9, <1>10 DEF Sound

\* Saving a schedule starts afresh, after everything that was answered for.
LEMMA SavedSound ==
  ASSUME TypeOK, TypeOK', NEW j \in Jobs, Sound(j),
         NEW enabled \in BOOLEAN, NEW cron \in Crons, NEW policy \in Policies[j],
         job'[j] = [enabled |-> enabled, cron |-> cron, policy |-> policy, next |-> nextCron(cron, clock)],
         since'[j] = nextCron(cron, clock),
         execs' = execs, skips' = skips, backs' = backs, clock' = clock
  PROVE  Sound(j)'
<1>1. clock \in Time /\ clock \in Nat
  BY DEF TypeOK, Time
<1>2. /\ job'[j].next \in cron /\ job'[j].next \in Nat /\ job'[j].next > clock
      /\ job'[j].cron = cron /\ job'[j].policy = policy /\ since'[j] = job'[j].next
  BY <1>1, NextCronIsFirst
<1>3. \A i \in Automatic(j) : i \in DOMAIN execs[j] /\ execs[j][i].trigger # "manual"
  BY DEF Automatic
<1>4. Automatic(j)' = Automatic(j)
  BY DEF Automatic
<1>5. Waits(j)'
  BY <1>2 DEF Sound, Waits
<1>6. \A i \in Automatic(j) : Upto(execs[j][i]) \in Nat /\ execs[j][i].scheduledFor \in Nat
                                /\ execs[j][i].scheduledFor <= Upto(execs[j][i])
  BY <1>3, Standing DEF Sound, Waits
<1>7. Behind(j)'
  <2>1. \A y \in skips : y.to \in Nat
    BY DEF TypeOK
  <2> QED
    BY <1>1, <1>2, <1>4, <1>6, <2>1 DEF Sound, Behind
<1>8. Covered(j)'
  <2>1. \A t \in job'[j].cron : ~(since'[j] <= t /\ t < job'[j].next)
    BY <1>2
  <2> QED
    BY <2>1 DEF Covered
<1>9. Counted(j)'
  <2>1. \A i \in Automatic(j) : ~(backs = 0 /\ since'[j] <= execs[j][i].scheduledFor)
    BY <1>1, <1>2, <1>6 DEF Sound, Behind
  <2> QED
    BY <1>4, <2>1 DEF Counted
<1>10. Distinct(j)' /\ OneActive(j)'
  BY <1>4 DEF Sound, Distinct, OneActive
<1> QED
  BY <1>5, <1>7, <1>8, <1>9, <1>10 DEF Sound

-----------------------------------------------------------------------------
(* The transaction of a row *)

\* The row of schedule j, due at now, is handled: next_run_at moves on.
Handled(j, now) ==
  /\ TypeOK /\ TypeOK' /\ Sound(j)
  /\ now \in Time /\ job[j].next <= now
  /\ backs = 0 => now <= clock
  /\ job'[j] = [job[j] EXCEPT !.next = nextCron(job[j].cron, now)]
  /\ since'[j] = since[j] /\ backs' = backs /\ clock' = clock

\* It moves to the first occurrence after now.
LEMMA NextMoves ==
  ASSUME NEW j \in Jobs, NEW now, Handled(j, now)
  PROVE  /\ job'[j].policy = job[j].policy /\ job'[j].cron = job[j].cron
         /\ job[j].cron \subseteq Nat /\ job[j].next \in Nat /\ job[j].next \in job[j].cron
         /\ now \in Nat /\ job[j].next <= now
         /\ job'[j].next \in job[j].cron /\ job'[j].next \in Nat /\ now < job'[j].next
         /\ \A t \in job[j].cron : job[j].next <= t /\ t < job'[j].next => t \in Due(j, now)
         /\ job'[j].policy \in Policies[j] /\ since'[j] <= job'[j].next
<1>1. /\ job[j] \in [enabled : BOOLEAN, cron : Crons, policy : {"skip", "queue"}, next : Nat]
      /\ now \in Time /\ now \in Nat /\ job[j].next <= now /\ since[j] \in Nat
  BY DEF Handled, TypeOK, Time
<1> DEFINE n == nextCron(job[j].cron, now)
<1>2. n \in job[j].cron /\ n \in Nat /\ n > now /\ \A o \in job[j].cron : o > now => n <= o
  BY <1>1, NextCronIsFirst
<1>3. job'[j].policy = job[j].policy /\ job'[j].cron = job[j].cron /\ job'[j].next = n
  BY <1>1 DEF Handled
<1>4. job[j].cron \subseteq Nat
  BY <1>1
<1>5. job[j].policy \in Policies[j] /\ job[j].next \in job[j].cron /\ since[j] <= job[j].next
  BY DEF Handled, Sound, Waits
<1> HIDE DEF n
<1>6. \A t \in job[j].cron : job[j].next <= t /\ t < job'[j].next => t \in Due(j, now)
  BY <1>1, <1>2, <1>3, <1>4 DEF Due
<1>7. since'[j] <= job'[j].next
  BY <1>1, <1>2, <1>3, <1>5 DEF Handled
<1> QED
  BY <1>1, <1>2, <1>3, <1>4, <1>5, <1>6, <1>7

\* One account of everything that is due, and of nothing before, is enough.
LEMMA CoverageMoves ==
  ASSUME NEW j \in Jobs, NEW now, Handled(j, now), NEW a,
         \A t \in job[j].cron : t < job[j].next => Accounts(j, t)' = Accounts(j, t),
         \A t \in Due(j, now) : a \in Accounts(j, t)' /\ (backs = 0 => Accounts(j, t)' = {a})
  PROVE  Covered(j)'
<1>1. ASSUME NEW t \in job[j].cron, since[j] <= t, t < job'[j].next
      PROVE  /\ Accounts(j, t)' # {}
             /\ backs = 0 => \E x \in Accounts(j, t)' : Accounts(j, t)' = {x}
  <2>1. CASE t < job[j].next
    <3>1. /\ Accounts(j, t) # {}
          /\ backs = 0 => \E x \in Accounts(j, t) : Accounts(j, t) = {x}
      BY <1>1, <2>1 DEF Handled, Sound, Covered
    <3> QED
      BY <2>1, <3>1
  <2>2. CASE ~(t < job[j].next)
    <3>1. t \in Due(j, now)
      BY <1>1, <2>2, NextMoves
    <3> QED
      BY <3>1
  <2> QED
    BY <2>1, <2>2
<1>2. job'[j].cron = job[j].cron /\ since'[j] = since[j] /\ backs' = backs
  BY NextMoves DEF Handled
<1> QED
  BY <1>1, <1>2 DEF Covered

\* What is due has no account yet, when the clock was never set back.
LEMMA NothingYet ==
  ASSUME TypeOK, NEW j \in Jobs, Sound(j), backs = 0, NEW t \in Nat, job[j].next <= t
  PROVE  Accounts(j, t) = {} /\ For(j, t) = {}
<1>1. job[j].next \in Nat
  BY DEF TypeOK
<1>2. ASSUME NEW i \in Automatic(j)
      PROVE  t \notin StandsFor(execs[j][i]) /\ execs[j][i].scheduledFor # t
  <2>1. /\ execs[j][i].scheduledFor \in Nat /\ Upto(execs[j][i]) \in Nat
        /\ execs[j][i].scheduledFor <= Upto(execs[j][i])
        /\ StandsFor(execs[j][i]) = execs[j][i].scheduledFor .. Upto(execs[j][i])
    BY Standing DEF Sound, Waits, Automatic
  <2>2. Upto(execs[j][i]) < job[j].next
    BY DEF Sound, Behind
  <2> QED
    BY <1>1, <2>1, <2>2
<1>3. \A y \in skips : y.job = j => t \notin y.from .. y.to
  <2>1. \A y \in skips : y.to \in Nat /\ y.from \in Nat
    BY DEF TypeOK
  <2> QED
    BY <1>1, <2>1 DEF Sound, Behind
<1>4. Accounts(j, t) = {}
  BY <1>2, <1>3 DEF Accounts
<1>5. For(j, t) = {}
  <2>1. \A i \in DOMAIN execs[j] : execs[j][i].trigger = "manual" => execs[j][i].scheduledFor = None
    BY DEF Sound, Waits, WellFormed
  <2>2. t # None
    OBVIOUS
  <2> QED
    BY <1>2, <2>1, <2>2 DEF For, Automatic
<1> QED
  BY <1>4, <1>5

\* An execution is enqueued for an occurrence that had none.
LEMMA EnqueuedSound ==
  ASSUME NEW j \in Jobs, NEW now, Handled(j, now), NEW startup \in BOOLEAN,
         Admitted(j), For(j, job[j].next) = {}, skips' = skips,
         execs'[j] = Enqueued(j, now, startup)
  PROVE  Sound(j)'
<1> DEFINE x == Execution(IF startup THEN "catchup" ELSE "scheduled", job[j].next)
           e == WithMissed(x, j, now, startup)
           n == Len(execs[j]) + 1
           a == <<"execution", n>>
<1>1. /\ job'[j].policy = job[j].policy /\ job'[j].cron = job[j].cron
      /\ job[j].cron \subseteq Nat /\ job[j].next \in Nat /\ job[j].next \in job[j].cron
      /\ now \in Nat /\ job[j].next <= now
      /\ job'[j].next \in job[j].cron /\ job'[j].next \in Nat /\ now < job'[j].next
      /\ job'[j].policy \in Policies[j] /\ since'[j] <= job'[j].next
  BY NextMoves
<1>2. TypeOK /\ Waits(j) /\ now \in Time /\ execs[j] \in Seq(StoredExecution) /\ Sound(j)
  BY DEF Handled, Sound, TypeOK
<1>3. WellFormed(x) /\ x.scheduledFor = job[j].next /\ x.active /\ ~x.bounded
      /\ x.trigger = IF startup THEN "catchup" ELSE "scheduled"
  BY <1>1 DEF WellFormed, StoredExecution, Execution
<1>4. /\ WellFormed(e)
      /\ e.trigger = x.trigger /\ e.scheduledFor = x.scheduledFor /\ e.active = x.active
      /\ e.missed = IF startup THEN Count(j, now) ELSE Count(j, now) - 1
      /\ e.bounded = (x.bounded \/ IsBounded(j, now))
      /\ Upto(e) <= now
      /\ StandsFor(e) \cap job[j].cron = Due(j, now)
  <2>1. e = WithMissed(x, j, now, startup)
    OBVIOUS
  <2>10. WellFormed(x) /\ x.scheduledFor = job[j].next
    BY <1>3
  <2> HIDE DEF x, e
  <2>2. WellFormed(e)
    BY ONLY <1>1, <1>2, <2>10, <2>1, j \in Jobs, startup \in BOOLEAN, WithMissedStands
  <2>3. e.trigger = x.trigger
    BY ONLY <1>1, <1>2, <2>10, <2>1, j \in Jobs, startup \in BOOLEAN, WithMissedStands
  <2>8. e.scheduledFor = x.scheduledFor
    BY ONLY <1>1, <1>2, <2>10, <2>1, j \in Jobs, startup \in BOOLEAN, WithMissedStands
  <2>9. e.active = x.active
    BY ONLY <1>1, <1>2, <2>10, <2>1, j \in Jobs, startup \in BOOLEAN, WithMissedStands
  <2>4. e.missed = IF startup THEN Count(j, now) ELSE Count(j, now) - 1
    BY ONLY <1>1, <1>2, <2>10, <2>1, j \in Jobs, startup \in BOOLEAN, WithMissedStands
  <2>5. e.bounded = (x.bounded \/ IsBounded(j, now))
    BY ONLY <1>1, <1>2, <2>10, <2>1, j \in Jobs, startup \in BOOLEAN, WithMissedStands
  <2>6. Upto(e) <= now
    BY ONLY <1>1, <1>2, <2>10, <2>1, j \in Jobs, startup \in BOOLEAN, WithMissedStands
  <2>7. StandsFor(e) \cap job[j].cron = Due(j, now)
    BY ONLY <1>1, <1>2, <2>10, <2>1, j \in Jobs, startup \in BOOLEAN, WithMissedStands
  <2> QED
    BY ONLY <2>2, <2>3, <2>4, <2>5, <2>6, <2>7, <2>8, <2>9
<1>5. execs'[j] = Append(execs[j], e)
  BY DEF Enqueued
<1>6. e.trigger # "manual" /\ e.scheduledFor = job[j].next /\ e.active
  BY <1>3, <1>4
<1>7. StandsFor(e) = job[j].next .. Upto(e) /\ Upto(e) \in Nat
  <2> HIDE DEF e
  <2> QED
    BY <1>4, <1>6, Standing
<1> HIDE DEF x, e
<1>8. /\ DOMAIN execs'[j] = DOMAIN execs[j] \cup {n} /\ n \notin DOMAIN execs[j]
      /\ execs'[j][n] = e
      /\ \A i \in DOMAIN execs[j] : execs'[j][i] = execs[j][i]
  BY ONLY <1>2, <1>5, AppendAccounts DEF n
<1>9. ASSUME NEW t
      PROVE  Accounts(j, t)' = Accounts(j, t) \cup Adds(e, n, t)
  <2>1. AccountsIn(execs'[j], skips, j, t) = AccountsIn(execs[j], skips, j, t) \cup Adds(e, n, t)
    BY ONLY <1>2, <1>5, AppendAccounts DEF n
  <2> QED
    BY <2>1, AccountsAre, AccountsWillBe
<1> HIDE DEF n
<1>10. Automatic(j)' = Automatic(j) \cup {n} /\ \A i \in Automatic(j) : i \in DOMAIN execs[j]
  BY <1>6, <1>8 DEF Automatic
<1>11. Waits(j)'
  BY <1>1, <1>2, <1>4, <1>8 DEF Waits
<1>12. Behind(j)'
  <2>1. SUFFICES ASSUME backs = 0
                 PROVE  /\ \A i \in Automatic(j)' : Upto(execs'[j][i]) < job'[j].next /\ Upto(execs'[j][i]) <= clock
                        /\ \A y \in skips : y.job = j => y.to < job'[j].next /\ y.to <= clock
    BY DEF Behind, Handled
  <2>2. clock \in Nat /\ now <= clock
    BY <1>2, <2>1 DEF TypeOK, Time, Handled
  <2>3. Upto(e) < job'[j].next /\ Upto(e) <= clock
    BY <1>1, <1>4, <1>7, <2>2
  <2>4. ASSUME NEW i \in Automatic(j)
        PROVE  Upto(execs[j][i]) < job'[j].next /\ Upto(execs[j][i]) <= clock
    <3>1. Upto(execs[j][i]) \in Nat
      BY <1>2, Standing DEF Waits, Automatic
    <3>2. Upto(execs[j][i]) < job[j].next /\ Upto(execs[j][i]) <= clock
      BY <1>2, <2>1 DEF Sound, Behind
    <3> QED
      BY <1>1, <3>1, <3>2
  <2>5. ASSUME NEW y \in skips, y.job = j
        PROVE  y.to < job'[j].next /\ y.to <= clock
    <3>1. y.to \in Nat
      BY <1>2 DEF TypeOK
    <3>2. y.to < job[j].next /\ y.to <= clock
      BY <1>2, <2>1, <2>5 DEF Sound, Behind
    <3> QED
      BY <1>1, <3>1, <3>2
  <2> QED
    BY <1>8, <1>10, <2>3, <2>4, <2>5
<1>13. Covered(j)'
  <2>1. \A t \in job[j].cron : t < job[j].next => Accounts(j, t)' = Accounts(j, t)
    <3>1. ASSUME NEW t \in job[j].cron, t < job[j].next
          PROVE  Adds(e, n, t) = {}
      BY <1>1, <1>7, <3>1 DEF Adds
    <3> QED
      BY <1>9, <3>1
  <2>2. \A t \in Due(j, now) : a \in Accounts(j, t)' /\ (backs = 0 => Accounts(j, t)' = {a})
    <3>1. ASSUME NEW t \in Due(j, now)
          PROVE  a \in Accounts(j, t)' /\ (backs = 0 => Accounts(j, t)' = {a})
      <4>1. t \in Nat /\ job[j].next <= t
        BY <1>1 DEF Due
      <4>2. Adds(e, n, t) = {a}
        BY <1>4, <1>6 DEF Adds
      <4>3. backs = 0 => Accounts(j, t) = {}
        BY <1>2, <4>1, NothingYet
      <4> QED
        BY <1>9, <4>2, <4>3
    <3> QED
      BY <3>1
  <2> HIDE DEF a
  <2> QED
    BY <2>1, <2>2, CoverageMoves
<1>14. Counted(j)'
  <2>1. Reports(j, e)
    <3>1. /\ Cardinality(Due(j, now)) \in Nat
          /\ Count(j, now) \in Nat
          /\ IF IsBounded(j, now) THEN Count(j, now) = MaxCount /\ MaxCount < Cardinality(Due(j, now))
                                  ELSE Count(j, now) = Cardinality(Due(j, now))
      BY <1>1, <1>2, RowIsDue
    <3>2. e.missed + (IF e.trigger = "scheduled" THEN 1 ELSE 0) = Count(j, now)
      BY <1>3, <1>4, <3>1
    <3>3. e.bounded <=> IsBounded(j, now)
      BY <1>3, <1>4
    <3> QED
      BY <1>4, <3>1, <3>2, <3>3 DEF Reports
  <2>2. \A i \in Automatic(j) : backs = 0 /\ since[j] <= execs[j][i].scheduledFor => Reports(j, execs[j][i])
    BY <1>2 DEF Sound, Counted
  <2>3. \A i \in Automatic(j)' : backs' = 0 /\ since'[j] <= execs'[j][i].scheduledFor => Reports(j, execs'[j][i])
    BY <1>8, <1>10, <2>1, <2>2 DEF Handled
  <2> QED
    BY <1>1, <2>3 DEF Counted, Reports
<1>15. Distinct(j)'
  <2>1. \A i \in DOMAIN execs[j] : execs[j][i].scheduledFor # job[j].next
    BY DEF For
  <2> QED
    BY <1>2, <1>6, <1>8, <2>1 DEF Sound, Distinct
<1>16. OneActive(j)'
  <2>1. Policies[j] = {"skip"} => \A i \in Automatic(j) : ~execs[j][i].active
    BY <1>2, <1>10 DEF Waits, Admitted, Active
  <2> QED
    BY <1>8, <1>10, <2>1 DEF OneActive
<1> QED
  BY <1>11, <1>12, <1>13, <1>14, <1>15, <1>16 DEF Sound

\* An occurrence that was enqueued before, by a clock that was ahead, is
\* enqueued again: its execution is updated.
LEMMA UpdatedSound ==
  ASSUME NEW j \in Jobs, NEW now, Handled(j, now), NEW startup \in BOOLEAN,
         For(j, job[j].next) # {}, skips' = skips,
         execs'[j] = Enqueued(j, now, startup)
  PROVE  Sound(j)'
<1> DEFINE old == For(j, job[j].next)
<1>1. /\ job'[j].policy = job[j].policy /\ job'[j].cron = job[j].cron
      /\ job[j].cron \subseteq Nat /\ job[j].next \in Nat /\ job[j].next \in job[j].cron
      /\ now \in Nat /\ job[j].next <= now
      /\ job'[j].next \in job[j].cron /\ job'[j].next \in Nat /\ now < job'[j].next
      /\ job'[j].policy \in Policies[j] /\ since'[j] <= job'[j].next
  BY NextMoves
<1>2. TypeOK /\ Waits(j) /\ now \in Time /\ execs[j] \in Seq(StoredExecution) /\ Sound(j)
  BY DEF Handled, Sound, TypeOK
<1>3. backs # 0 /\ backs' # 0
  <2>1. backs = 0 => For(j, job[j].next) = {}
    BY <1>1, <1>2, NothingYet
  <2> QED
    BY <2>1 DEF Handled
<1>4. /\ DOMAIN execs'[j] = DOMAIN execs[j]
      /\ \A i \in DOMAIN execs[j] :
           execs'[j][i] = IF i \in old THEN WithMissed(execs[j][i], j, now, startup) ELSE execs[j][i]
  BY DEF Enqueued
<1>5. ASSUME NEW i \in old
      PROVE  /\ i \in DOMAIN execs[j]
             /\ WellFormed(execs'[j][i])
             /\ execs'[j][i].trigger = execs[j][i].trigger
             /\ execs'[j][i].scheduledFor = execs[j][i].scheduledFor
             /\ execs'[j][i].active = execs[j][i].active
             /\ execs[j][i].trigger # "manual"
             /\ \A t \in Nat : t < job[j].next => t \notin StandsFor(execs[j][i]) /\ t \notin StandsFor(execs'[j][i])
             /\ \A t \in Due(j, now) : t \in StandsFor(execs'[j][i])
  <2> DEFINE x == execs[j][i]
             e == execs'[j][i]
  <2>1. i \in DOMAIN execs[j] /\ WellFormed(x) /\ x.scheduledFor = job[j].next
    BY <1>2 DEF For, Waits
  <2>2. x.trigger # "manual"
    BY <1>1, <2>1 DEF WellFormed
  <2>3. e = WithMissed(x, j, now, startup)
    BY <1>4, <2>1
  <2> HIDE DEF x, e
  <2>4. WellFormed(e)
    BY ONLY <1>1, <1>2, <2>1, <2>3, j \in Jobs, startup \in BOOLEAN, WithMissedStands
  <2>5. e.trigger = x.trigger /\ e.scheduledFor = x.scheduledFor /\ e.active = x.active
    BY ONLY <1>1, <1>2, <2>1, <2>3, j \in Jobs, startup \in BOOLEAN, WithMissedStands
  <2>6. StandsFor(e) \cap job[j].cron = Due(j, now)
    BY ONLY <1>1, <1>2, <2>1, <2>3, j \in Jobs, startup \in BOOLEAN, WithMissedStands
  <2>7. StandsFor(e) = job[j].next .. Upto(e)
    BY <2>1, <2>2, <2>4, <2>5, Standing
  <2>8. StandsFor(x) = job[j].next .. Upto(x)
    BY <2>1, <2>2, Standing
  <2>9. \A t \in Nat : t < job[j].next => t \notin StandsFor(x) /\ t \notin StandsFor(e)
    BY <1>1, <2>7, <2>8
  <2>10. \A t \in Due(j, now) : t \in StandsFor(e)
    BY <2>6
  <2> QED
    BY <2>1, <2>2, <2>4, <2>5, <2>9, <2>10 DEF x, e
<1>6. \A i \in DOMAIN execs[j] :
        /\ WellFormed(execs'[j][i])
        /\ execs'[j][i].trigger = execs[j][i].trigger
        /\ execs'[j][i].scheduledFor = execs[j][i].scheduledFor
        /\ execs'[j][i].active = execs[j][i].active
  BY <1>2, <1>4, <1>5 DEF Waits
<1>7. Automatic(j)' = Automatic(j) /\ \A i \in Automatic(j) : i \in DOMAIN execs[j]
  BY <1>4, <1>6 DEF Automatic
<1>8. Waits(j)'
  BY <1>1, <1>4, <1>6 DEF Waits
<1>9. Behind(j)' /\ Counted(j)'
  BY <1>3 DEF Behind, Counted
<1>10. Covered(j)'
  <2>1. PICK i \in old : TRUE
    OBVIOUS
  <2> DEFINE a == <<"execution", i>>
  <2>2. ASSUME NEW t \in job[j].cron, t < job[j].next
        PROVE  Accounts(j, t)' = Accounts(j, t)
    <3>1. \A k \in Automatic(j) : t \in StandsFor(execs'[j][k]) <=> t \in StandsFor(execs[j][k])
      BY <1>1, <1>4, <1>5, <1>7, <2>2
    <3> QED
      BY <1>7, <3>1 DEF Accounts
  <2>3. ASSUME NEW t \in Due(j, now)
        PROVE  a \in Accounts(j, t)'
    <3>1. i \in Automatic(j)' /\ t \in StandsFor(execs'[j][i])
      BY <1>5, <1>7 DEF Automatic
    <3> QED
      BY <3>1 DEF Accounts
  <2> HIDE DEF a
  <2> QED
    BY <1>3, <2>2, <2>3, CoverageMoves
<1>11. Distinct(j)' /\ OneActive(j)'
  BY <1>2, <1>4, <1>6, <1>7 DEF Sound, Distinct, OneActive
<1> QED
  BY <1>8, <1>9, <1>10, <1>11 DEF Sound

\* What is due is skipped, and that is recorded.
LEMMA SkippedSound ==
  ASSUME NEW j \in Jobs, NEW now, Handled(j, now),
         execs'[j] = execs[j], skips' = skips \cup {Skip(j, now)}
  PROVE  Sound(j)'
<1> DEFINE y == Skip(j, now)
           a == <<"skip", y>>
<1>1. /\ job'[j].policy = job[j].policy /\ job'[j].cron = job[j].cron
      /\ job[j].cron \subseteq Nat /\ job[j].next \in Nat /\ job[j].next \in job[j].cron
      /\ now \in Nat /\ job[j].next <= now
      /\ job'[j].next \in job[j].cron /\ job'[j].next \in Nat /\ now < job'[j].next
      /\ job'[j].policy \in Policies[j] /\ since'[j] <= job'[j].next
  BY NextMoves
<1>2. TypeOK /\ Waits(j) /\ now \in Time /\ Sound(j)
  BY DEF Handled, Sound
<1>3. /\ y.job = j /\ y.from = job[j].next /\ y.to \in Nat /\ job[j].next <= y.to /\ y.to <= now
      /\ \A t \in Due(j, now) : t \in y.from .. y.to
  <2>1. /\ LastDue(j, now) \in Nat
        /\ job[j].next <= LastDue(j, now) /\ LastDue(j, now) <= now
        /\ \A o \in Due(j, now) : o <= LastDue(j, now)
    BY <1>1, <1>2, RowIsDue
  <2>2. y.job = j /\ y.from = job[j].next /\ y.to = LastDue(j, now)
    BY DEF Skip
  <2>3. \A o \in Due(j, now) : o \in Nat /\ job[j].next <= o
    BY <1>1 DEF Due
  <2> HIDE DEF y
  <2> QED
    BY <1>1, <2>1, <2>2, <2>3
<1> HIDE DEF y
<1>4. Automatic(j)' = Automatic(j) /\ \A i \in Automatic(j) : i \in DOMAIN execs[j]
  BY DEF Automatic
<1>5. Waits(j)'
  BY <1>1, <1>2 DEF Waits
<1>6. Behind(j)'
  <2>1. SUFFICES ASSUME backs = 0
                 PROVE  /\ \A i \in Automatic(j) : Upto(execs[j][i]) < job'[j].next /\ Upto(execs[j][i]) <= clock
                        /\ \A z \in skips' : z.job = j => z.to < job'[j].next /\ z.to <= clock
    BY <1>4 DEF Behind, Handled
  <2>2. clock \in Nat /\ now <= clock
    BY <1>2, <2>1 DEF TypeOK, Time, Handled
  <2>3. ASSUME NEW i \in Automatic(j)
        PROVE  Upto(execs[j][i]) < job'[j].next /\ Upto(execs[j][i]) <= clock
    <3>1. Upto(execs[j][i]) \in Nat
      BY <1>2, Standing DEF Waits, Automatic
    <3>2. Upto(execs[j][i]) < job[j].next /\ Upto(execs[j][i]) <= clock
      BY <1>2, <2>1 DEF Sound, Behind
    <3> QED
      BY <1>1, <3>1, <3>2
  <2>4. ASSUME NEW z \in skips, z.job = j
        PROVE  z.to < job'[j].next /\ z.to <= clock
    <3>1. z.to \in Nat
      BY <1>2 DEF TypeOK
    <3>2. z.to < job[j].next /\ z.to <= clock
      BY <1>2, <2>1, <2>4 DEF Sound, Behind
    <3> QED
      BY <1>1, <3>1, <3>2
  <2>5. y.to < job'[j].next /\ y.to <= clock
    BY <1>1, <1>3, <2>2
  <2>6. skips' = skips \cup {y}
    BY DEF y
  <2> QED
    BY <2>3, <2>4, <2>5, <2>6
<1>7. Covered(j)'
  <2>1. skips' = skips \cup {y}
    BY DEF y
  <2>2. ASSUME NEW t \in job[j].cron, t < job[j].next
        PROVE  Accounts(j, t)' = Accounts(j, t)
    <3>1. t \notin y.from .. y.to
      BY <1>1, <1>3, <2>2
    <3> QED
      BY <1>4, <2>1, <3>1 DEF Accounts
  <2>3. ASSUME NEW t \in Due(j, now)
        PROVE  a \in Accounts(j, t)' /\ (backs = 0 => Accounts(j, t)' = {a})
    <3>1. t \in Nat /\ job[j].next <= t
      BY <1>1 DEF Due
    <3>2. Accounts(j, t)' = Accounts(j, t) \cup {a}
      BY <1>3, <1>4, <2>1 DEF Accounts
    <3>3. backs = 0 => Accounts(j, t) = {}
      BY <1>2, <3>1, NothingYet
    <3> QED
      BY <3>2, <3>3
  <2> HIDE DEF a
  <2> QED
    BY <2>2, <2>3, CoverageMoves
<1>8. Counted(j)'
  <2>1. \A i \in Automatic(j) : backs = 0 /\ since[j] <= execs[j][i].scheduledFor => Reports(j, execs[j][i])
    BY <1>2 DEF Sound, Counted
  <2> QED
    BY <1>1, <1>4, <2>1 DEF Counted, Reports, Handled
<1>9. Distinct(j)' /\ OneActive(j)'
  BY <1>2, <1>4 DEF Sound, Distinct, OneActive
<1> QED
  BY <1>5, <1>6, <1>7, <1>8, <1>9 DEF Sound

-----------------------------------------------------------------------------
(* The specification *)

\* Nothing is due, and nothing has been enqueued, at the start.
LEMMA ScheduleInitSound == ScheduleInit => IInv
<1> SUFFICES ASSUME ScheduleInit
             PROVE  IInv
  OBVIOUS
<1>0. Time \subseteq Nat /\ 0 \in Time
  BY DEF Time
<1>1. ASSUME NEW j \in Jobs
      PROVE  /\ job[j].policy \in Policies[j] /\ job[j].next \in job[j].cron /\ job[j].next \in Nat
             /\ since[j] = job[j].next /\ execs[j] = <<>>
  <2>1. job[j].next = nextCron(job[j].cron, 0) /\ job[j].cron \in Crons
    BY DEF ScheduleInit
  <2> QED
    BY <1>0, <2>1, NextCronIsFirst DEF ScheduleInit
<1>2. TypeOK
  <2>1. clock \in Time /\ 0 \in Time
    BY <1>0 DEF ScheduleInit
  <2>2. job \in [Jobs -> [enabled : BOOLEAN, cron : Crons, policy : {"skip", "queue"}, next : Nat]]
    BY <1>0 DEF ScheduleInit
  <2>3. execs \in [Jobs -> Seq(StoredExecution)]
    BY DEF ScheduleInit
  <2>4. since \in [Jobs -> Nat]
    BY <1>1 DEF ScheduleInit
  <2>5. sweep \in [startup : BOOLEAN, now : Time, left : SUBSET Jobs]
    BY <2>1 DEF ScheduleInit, Sweep
  <2> QED
    BY <2>1, <2>2, <2>3, <2>4, <2>5 DEF ScheduleInit, TypeOK
<1>3. SweepAgrees
  BY DEF ScheduleInit, SweepAgrees, Sweep
<1>4. ASSUME NEW j \in Jobs
      PROVE  Sound(j)
  <2>1. DOMAIN execs[j] = {} /\ skips = {}
    BY <1>1 DEF ScheduleInit
  <2>2. Automatic(j) = {}
    BY <2>1 DEF Automatic
  <2>3. Waits(j)
    BY <1>1, <2>1 DEF Waits
  <2>4. Covered(j)
    <3>1. \A t \in job[j].cron : ~(since[j] <= t /\ t < job[j].next)
      <4>1. job[j].cron \subseteq Nat
        BY <1>2 DEF TypeOK
      <4> QED
        BY <1>1, <4>1
    <3> QED
      BY <3>1 DEF Covered
  <2> QED
    BY <2>1, <2>2, <2>3, <2>4 DEF Sound, Behind, Counted, Distinct, OneActive
<1> QED
  BY <1>2, <1>3, <1>4 DEF IInv

\* Executions of which some change are as many executions.
LEMMA SameLength ==
  ASSUME NEW S, NEW x \in Seq(S), NEW y, DOMAIN y = DOMAIN x, y = [i \in DOMAIN y |-> y[i]],
         \A i \in DOMAIN x : y[i] \in S
  PROVE  y \in Seq(S)
<1>1. DOMAIN x = 1 .. Len(x) /\ Len(x) \in Nat
  OBVIOUS
<1>2. y \in [1 .. Len(x) -> S]
  BY <1>1
<1> QED
  BY <1>1, <1>2

\* enqueue() leaves executions, and a skip is recorded with numbers.
LEMMA RowTyped ==
  ASSUME TypeOK, NEW j \in Jobs, Waits(j), NEW now \in Time, job[j].next <= now, NEW startup \in BOOLEAN
  PROVE  /\ Enqueued(j, now, startup) \in Seq(StoredExecution)
         /\ Skip(j, now) \in [job : Jobs, from : Nat, to : Nat, count : Nat]
<1>1. execs[j] \in Seq(StoredExecution) /\ job[j].next \in Nat
  BY DEF TypeOK
<1>2. ASSUME NEW x, WellFormed(x), x.scheduledFor = job[j].next
      PROVE  WithMissed(x, j, now, startup) \in StoredExecution
  <2>1. WellFormed(WithMissed(x, j, now, startup))
    BY <1>2, WithMissedStands
  <2> QED
    BY <2>1 DEF WellFormed
<1>3. ASSUME For(j, job[j].next) = {}
      PROVE  Enqueued(j, now, startup) \in Seq(StoredExecution)
  <2> DEFINE x == Execution(IF startup THEN "catchup" ELSE "scheduled", job[j].next)
  <2>1. WellFormed(x) /\ x.scheduledFor = job[j].next
    BY <1>1 DEF WellFormed, StoredExecution, Execution
  <2>2. Enqueued(j, now, startup) = Append(execs[j], WithMissed(x, j, now, startup))
    BY <1>3 DEF Enqueued
  <2> HIDE DEF x
  <2>3. WithMissed(x, j, now, startup) \in StoredExecution
    BY <1>2, <2>1
  <2> QED
    BY <1>1, <2>2, <2>3
<1>4. ASSUME For(j, job[j].next) # {}
      PROVE  Enqueued(j, now, startup) \in Seq(StoredExecution)
  <2> DEFINE y == Enqueued(j, now, startup)
  <2>1. y = [i \in DOMAIN execs[j] |-> IF i \in For(j, job[j].next)
                                         THEN WithMissed(execs[j][i], j, now, startup) ELSE execs[j][i]]
    BY <1>4 DEF Enqueued
  <2>2. \A i \in DOMAIN execs[j] : execs[j][i] \in StoredExecution /\ WellFormed(execs[j][i])
    BY DEF Waits, WellFormed
  <2>3. \A i \in For(j, job[j].next) : WithMissed(execs[j][i], j, now, startup) \in StoredExecution
    BY <1>2, <2>2 DEF For
  <2> HIDE DEF y
  <2>4. DOMAIN y = DOMAIN execs[j] /\ y = [i \in DOMAIN y |-> y[i]]
    BY <2>1
  <2>5. \A i \in DOMAIN execs[j] : y[i] \in StoredExecution
    BY <2>1, <2>2, <2>3
  <2>6. y \in Seq(StoredExecution)
    BY <1>1, <2>4, <2>5, SameLength
  <2> QED
    BY <2>6 DEF y
<1>5. Skip(j, now) \in [job : Jobs, from : Nat, to : Nat, count : Nat]
  BY <1>1, RowIsDue DEF Skip
<1> QED
  BY <1>3, <1>4, <1>5

\* The rows of a call of runDue().
LEMMA SweepTyped ==
  ASSUME NEW startup \in BOOLEAN, NEW now \in Time, NEW left \in SUBSET Jobs
  PROVE  Sweep(startup, now, left) \in [startup : BOOLEAN, now : Time, left : SUBSET Jobs]
<1>1. 0 \in Time
  BY DEF Time
<1> QED
  BY <1>1 DEF Sweep

\* None may have ended, too.
LEMMA QuieterSame ==
  ASSUME NEW x \in Seq(StoredExecution)
  PROVE  Quieter(x, x)
<1>1. ASSUME NEW i \in DOMAIN x
      PROVE  x[i] = [x[i] EXCEPT !.active = x[i].active]
  <2>1. x[i] \in StoredExecution
    OBVIOUS
  <2> QED
    BY <2>1 DEF StoredExecution
<1> QED
  BY <1>1 DEF Quieter

\* A step that does nothing to a schedule, neither to its row, its executions
\* nor its skips.
LEMMA UntouchedSound ==
  ASSUME TypeOK, TypeOK', NEW j \in Jobs, Sound(j), job'[j] = job[j], since'[j] = since[j],
         execs'[j] = execs[j], \A y : y.job = j => (y \in skips' <=> y \in skips),
         backs' = 0 => backs = 0 /\ clock <= clock'
  PROVE  Sound(j)'
<1>1. Quieter(execs[j], execs'[j])
  <2>1. execs[j] \in Seq(StoredExecution)
    BY DEF TypeOK
  <2> QED
    BY <2>1, QuieterSame
<1> QED
  BY <1>1, StaysSound

\* The clock, the coordinator and the beginning of a sweep.
LEMMA QuietSteps ==
  ASSUME IInv, Tick \/ SetBack \/ RunDue \/ GiveUp \/ ProcessDies \/ (\E j \in Jobs : HandleFault(j)) \/ UNCHANGED scheduleVars
  PROVE  IInv'
<1>1. TypeOK /\ SweepAgrees /\ \A j \in Jobs : Sound(j)
  BY DEF IInv
<1>2. clock \in Nat /\ clock \in Time /\ backs \in Nat /\ events \in Nat /\ 0 \in Time
  BY <1>1 DEF TypeOK, Time
<1>3. UNCHANGED <<job, since, execs, skips>>
  BY DEF Tick, SetBack, RunDue, GiveUp, ProcessDies, HandleFault, scheduleVars
<1>4. clock' \in Time /\ backs' \in Nat /\ (backs' = 0 => backs = 0 /\ clock <= clock') /\ events' \in Nat
  <2>1. CASE Tick
    BY <1>2, <2>1 DEF Tick, Time
  <2>2. CASE SetBack
    BY <1>2, <2>2 DEF SetBack, Event, Time
  <2>3. CASE RunDue
    BY <1>2, <2>3 DEF RunDue
  <2>4. CASE GiveUp
    BY <1>2, <2>4 DEF GiveUp, Event
  <2>5. CASE ProcessDies
    BY <1>2, <2>5 DEF ProcessDies, Event
  <2>6. CASE \E j \in Jobs : HandleFault(j)
    BY <1>2, <2>6 DEF HandleFault, Event
  <2>7. CASE UNCHANGED scheduleVars
    BY <1>2, <2>7 DEF scheduleVars
  <2> QED
    BY <2>1, <2>2, <2>3, <2>4, <2>5, <2>6, <2>7
<1>5. /\ sweep' \in [startup : BOOLEAN, now : Time, left : SUBSET Jobs] /\ up' \in {"down", "up", "stopped"}
      /\ \A j \in sweep'.left : job[j].next <= sweep'.now
      /\ backs' = 0 => sweep'.now <= clock'
  <2>0. /\ sweep \in [startup : BOOLEAN, now : Time, left : SUBSET Jobs] /\ up \in {"down", "up", "stopped"}
        /\ \A j \in sweep.left : job[j].next <= sweep.now
        /\ backs = 0 => sweep.now <= clock
        /\ sweep.now \in Nat
    BY <1>1 DEF TypeOK, SweepAgrees, Time
  <2>1. CASE Tick \/ SetBack \/ GiveUp \/ UNCHANGED scheduleVars
    <3>1. sweep' = sweep /\ up' \in {"down", "up", "stopped"}
      BY <2>0, <2>1 DEF Tick, SetBack, GiveUp, scheduleVars
    <3>2. clock' \in Nat
      BY <1>4 DEF Time
    <3> QED
      BY <1>2, <1>4, <2>0, <3>1, <3>2
  <2>2. CASE RunDue
    <3>1. sweep' = Sweep(FALSE, clock, DueJobs(clock)) /\ up' = up /\ clock' = clock
      BY <2>2 DEF RunDue
    <3>2. DueJobs(clock) \in SUBSET Jobs /\ DueJobs(clock) # {}
      BY <2>2 DEF DueJobs, RunDue
    <3>3. sweep'.now = clock /\ sweep'.left = DueJobs(clock)
      BY <3>1, <3>2 DEF Sweep
    <3>4. sweep' \in [startup : BOOLEAN, now : Time, left : SUBSET Jobs]
      BY <1>2, <3>1, <3>2, SweepTyped
    <3>5. \A j \in DueJobs(clock) : job[j].next <= clock
      BY DEF DueJobs
    <3>6. \A j \in sweep'.left : job[j].next <= sweep'.now
      BY ONLY <3>3, <3>5
    <3>7. clock <= clock
      BY <1>2
    <3>8. sweep'.now <= clock'
      BY ONLY <3>1, <3>3, <3>7
    <3> QED
      BY <2>0, <3>1, <3>4, <3>6, <3>8
  <2>3. CASE ProcessDies
    <3>1. sweep' = [startup |-> FALSE, now |-> 0, left |-> {}] /\ up' = "down" /\ clock' = clock
      BY <2>3 DEF ProcessDies, Sweep
    <3> QED
      BY <1>2, <3>1
  <2>4. CASE \E j \in Jobs : HandleFault(j)
    <3>1. PICK j \in Jobs : HandleFault(j)
      BY <2>4
    <3>2. up' \in {"down", "up", "stopped"} /\ clock' = clock /\ backs' = backs
      BY <2>0, <3>1 DEF HandleFault
    <3>3. CASE sweep' = After(j)
      <4>1. sweep' \in [startup : BOOLEAN, now : Time, left : SUBSET Jobs]
        BY <2>0, <3>3, SweepTyped DEF After
      <4>2. \/ sweep' = [startup |-> FALSE, now |-> 0, left |-> {}]
            \/ sweep'.now = sweep.now /\ sweep'.left \subseteq sweep.left
        BY <3>3 DEF After, Sweep
      <4> QED
        BY <1>2, <2>0, <3>2, <4>1, <4>2
    <3>4. CASE sweep' = Sweep(FALSE, 0, {})
      <4>1. sweep' = [startup |-> FALSE, now |-> 0, left |-> {}]
        BY <3>4 DEF Sweep
      <4> QED
        BY <1>2, <3>2, <4>1
    <3> QED
      BY <3>1, <3>3, <3>4 DEF HandleFault
  <2> QED
    BY <2>1, <2>2, <2>3, <2>4
<1>6. TypeOK'
  BY <1>1, <1>3, <1>4, <1>5 DEF TypeOK
<1>7. SweepAgrees'
  BY <1>3, <1>5 DEF SweepAgrees
<1>8. \A j \in Jobs : Sound(j)'
  BY <1>1, <1>3, <1>4, <1>6, UntouchedSound
<1> QED
  BY <1>6, <1>7, <1>8 DEF IInv

\* An execution ends.
LEMMA EndSteps ==
  ASSUME IInv, NEW j \in Jobs, NEW i \in DOMAIN execs[j], End(j, i)
  PROVE  IInv'
<1>1. TypeOK /\ SweepAgrees /\ \A k \in Jobs : Sound(k)
  BY DEF IInv
<1>2. UNCHANGED <<clock, job, skips, up, sweep, events, backs, since>>
  BY DEF End
<1>3. execs[j] \in Seq(StoredExecution) /\ execs[j][i] \in StoredExecution
  <2>1. execs[j] \in Seq(StoredExecution)
    BY <1>1 DEF TypeOK
  <2> QED
    BY <2>1
<1> DEFINE e == [execs[j][i] EXCEPT !.active = FALSE]
           y == [execs[j] EXCEPT ![i] = e]
<1>4. execs' = [execs EXCEPT ![j] = y]
  BY DEF End
<1>5. e \in StoredExecution
  BY <1>3 DEF StoredExecution
<1>6. y \in Seq(StoredExecution)
  <2> HIDE DEF e
  <2> QED
    BY <1>3, <1>5, ExceptSeq
<1>7. Quieter(execs[j], y)
  <2>1. Quieter(execs[j], execs[j])
    BY <1>3, QuieterSame
  <2>2. y[i] = e /\ e = [execs[j][i] EXCEPT !.active = e.active] /\ ~e.active
    BY <1>3 DEF StoredExecution
  <2>3. DOMAIN y = DOMAIN execs[j] /\ \A k \in DOMAIN execs[j] : k # i => y[k] = execs[j][k]
    OBVIOUS
  <2> HIDE DEF e, y
  <2> QED
    BY <2>1, <2>2, <2>3 DEF Quieter
<1> HIDE DEF y
<1>8. execs \in [Jobs -> Seq(StoredExecution)]
  BY <1>1 DEF TypeOK
<1>9. TypeOK'
  <2>1. execs' \in [Jobs -> Seq(StoredExecution)]
    BY <1>4, <1>6, <1>8
  <2> QED
    BY <1>1, <1>2, <2>1 DEF TypeOK
<1>10. SweepAgrees'
  BY <1>1, <1>2 DEF SweepAgrees
<1>11. clock <= clock
  BY <1>1 DEF TypeOK, Time
<1>12. \A k \in Jobs : k # j => Sound(k)'
  <2>1. \A k \in Jobs : k # j => execs'[k] = execs[k]
    BY <1>4, <1>8
  <2> QED
    BY <1>1, <1>2, <1>9, <1>11, <2>1, UntouchedSound
<1>13. Sound(j)'
  <2>1. execs'[j] = y
    BY <1>4, <1>8
  <2> QED
    BY <1>1, <1>2, <1>7, <1>9, <1>11, <2>1, StaysSound
<1> QED
  BY <1>9, <1>10, <1>12, <1>13 DEF IInv

\* Bootstrap ends interrupted executions and begins a sweep.
LEMMA BootSteps ==
  ASSUME IInv, Boot
  PROVE  IInv'
<1>1. TypeOK /\ SweepAgrees /\ \A k \in Jobs : Sound(k)
  BY DEF IInv
<1>2. UNCHANGED <<clock, job, skips, events, backs, since>> /\ up' = "up" /\ sweep' = Sweep(TRUE, clock, DueJobs(clock))
  BY DEF Boot
<1>3. PICK S \in SUBSET UNION {{j} \X Active(j) : j \in Jobs} :
        execs' = [j \in Jobs |-> [i \in DOMAIN execs[j] |->
                   [execs[j][i] EXCEPT !.active = @ /\ <<j, i>> \notin S]]]
  BY DEF Boot
<1>4. clock \in Time /\ clock \in Nat /\ 0 \in Time
  BY <1>1 DEF TypeOK, Time
<1>5. ASSUME NEW j \in Jobs
      PROVE  execs'[j] \in Seq(StoredExecution) /\ Quieter(execs[j], execs'[j])
  <2>1. execs[j] \in Seq(StoredExecution)
    BY <1>1 DEF TypeOK
  <2>2. execs'[j] = [i \in DOMAIN execs[j] |-> [execs[j][i] EXCEPT !.active = execs[j][i].active /\ <<j, i>> \notin S]]
    BY <1>3
  <2>3. ASSUME NEW i \in DOMAIN execs[j]
        PROVE  /\ execs'[j][i] \in StoredExecution
               /\ execs'[j][i] = [execs[j][i] EXCEPT !.active = execs'[j][i].active]
               /\ execs'[j][i].active => execs[j][i].active
    <3> DEFINE b == execs[j][i].active /\ <<j, i>> \notin S
    <3>1. execs[j][i] \in StoredExecution
      BY <2>1
    <3>2. execs'[j][i] = [execs[j][i] EXCEPT !.active = b] /\ b \in BOOLEAN /\ (b => execs[j][i].active)
      BY <2>2, <3>1
    <3> HIDE DEF b
    <3> QED
      BY <3>1, <3>2 DEF StoredExecution
  <2>4. DOMAIN execs'[j] = DOMAIN execs[j] /\ execs'[j] = [i \in DOMAIN execs'[j] |-> execs'[j][i]]
    BY <2>2
  <2>5. execs'[j] \in Seq(StoredExecution)
    BY <2>1, <2>3, <2>4, SameLength
  <2> QED
    BY <2>3, <2>4, <2>5 DEF Quieter
<1>6. execs' \in [Jobs -> Seq(StoredExecution)]
  BY <1>3, <1>5
<1>7. DueJobs(clock) \in SUBSET Jobs
  BY DEF DueJobs
<1>8. sweep' \in [startup : BOOLEAN, now : Time, left : SUBSET Jobs]
  BY <1>2, <1>4, <1>7, SweepTyped
<1>9. TypeOK'
  BY <1>1, <1>2, <1>6, <1>8 DEF TypeOK
<1>10. SweepAgrees'
  <2>1. CASE DueJobs(clock) = {}
    BY <1>2, <1>4, <2>1 DEF Sweep, SweepAgrees
  <2>2. CASE DueJobs(clock) # {}
    <3>1. sweep'.now = clock /\ sweep'.left = DueJobs(clock)
      BY <1>2, <2>2 DEF Sweep
    <3>2. \A j \in DueJobs(clock) : job[j].next <= clock
      BY DEF DueJobs
    <3>3. \A j \in sweep'.left : job[j].next <= sweep'.now
      BY ONLY <3>1, <3>2
    <3>4. clock <= clock
      BY <1>4
    <3>5. sweep'.now <= clock'
      BY ONLY <1>2, <3>1, <3>4
    <3> QED
      BY <1>2, <3>3, <3>5 DEF SweepAgrees
  <2> QED
    BY <2>1, <2>2
<1>11. \A j \in Jobs : Sound(j)'
  BY <1>1, <1>2, <1>4, <1>5, <1>9, StaysSound
<1> QED
  BY <1>9, <1>10, <1>11 DEF IInv

\* An administrator starts or saves a schedule.
LEMMA HandSteps ==
  ASSUME IInv, NEW j \in Jobs,
         \/ Manual(j)
         \/ \E enabled \in BOOLEAN, cron \in Crons, policy \in Policies[j] : SaveJob(j, enabled, cron, policy)
  PROVE  IInv'
<1>1. TypeOK /\ SweepAgrees /\ \A k \in Jobs : Sound(k)
  BY DEF IInv
<1>2. clock \in Time /\ clock \in Nat /\ clock <= clock
  BY <1>1 DEF TypeOK, Time
<1>3. CASE Manual(j)
  <2>1. /\ UNCHANGED <<clock, job, skips, up, sweep, since, backs>> /\ events' \in Nat
        /\ execs' = [execs EXCEPT ![j] = Append(execs[j], Execution("manual", None))]
    BY <1>1, <1>3 DEF Manual, Event, TypeOK
  <2>2. execs \in [Jobs -> Seq(StoredExecution)] /\ Execution("manual", None) \in StoredExecution
    <3>1. Execution("manual", None) \in StoredExecution
      BY DEF Execution, StoredExecution
    <3> QED
      BY <1>1, <3>1 DEF TypeOK
  <2>3. execs' \in [Jobs -> Seq(StoredExecution)]
    <3>1. Append(execs[j], Execution("manual", None)) \in Seq(StoredExecution)
      BY <2>2
    <3> QED
      BY <2>1, <2>2, <3>1
  <2>4. TypeOK'
    BY <1>1, <2>1, <2>3 DEF TypeOK
  <2>5. SweepAgrees'
    BY <1>1, <2>1 DEF SweepAgrees
  <2>6. /\ \A k \in Jobs : k # j => execs'[k] = execs[k]
        /\ execs'[j] = Append(execs[j], Execution("manual", None))
    BY <2>1, <2>2
  <2>7. \A k \in Jobs : k # j => Sound(k)'
    BY <1>1, <1>2, <2>1, <2>4, <2>6, UntouchedSound
  <2>8. Sound(j)'
    BY <1>1, <2>1, <2>4, <2>6, ManualSound
  <2> QED
    BY <2>4, <2>5, <2>7, <2>8 DEF IInv
<1>4. CASE \E enabled \in BOOLEAN, cron \in Crons, policy \in Policies[j] : SaveJob(j, enabled, cron, policy)
  <2>1. PICK enabled \in BOOLEAN, cron \in Crons, policy \in Policies[j] : SaveJob(j, enabled, cron, policy)
    BY <1>4
  <2> DEFINE row == [enabled |-> enabled, cron |-> cron, policy |-> policy, next |-> nextCron(cron, clock)]
  <2>2. /\ UNCHANGED <<clock, execs, skips, up, sweep, backs>> /\ events' \in Nat /\ sweep.left = {}
        /\ job' = [job EXCEPT ![j] = row]
        /\ since' = [since EXCEPT ![j] = nextCron(cron, clock)]
    BY <1>1, <2>1 DEF SaveJob, Event, TypeOK, Idle
  <2>3. nextCron(cron, clock) \in Nat
    BY <1>2, NextCronIsFirst
  <2>4. row \in [enabled : BOOLEAN, cron : Crons, policy : {"skip", "queue"}, next : Nat]
    BY <2>3
  <2>5. /\ job \in [Jobs -> [enabled : BOOLEAN, cron : Crons, policy : {"skip", "queue"}, next : Nat]]
        /\ since \in [Jobs -> Nat]
    BY <1>1 DEF TypeOK
  <2>6. job'[j] = row /\ since'[j] = nextCron(cron, clock)
        /\ \A k \in Jobs : k # j => job'[k] = job[k] /\ since'[k] = since[k]
    BY <2>2, <2>5
  <2>7. /\ job' \in [Jobs -> [enabled : BOOLEAN, cron : Crons, policy : {"skip", "queue"}, next : Nat]]
        /\ since' \in [Jobs -> Nat]
    <3> HIDE DEF row
    <3> QED
      BY <2>2, <2>3, <2>4, <2>5
  <2>8. TypeOK'
    BY <1>1, <2>2, <2>7 DEF TypeOK
  <2>9. SweepAgrees'
    BY <1>1, <2>2 DEF SweepAgrees
  <2>10. \A k \in Jobs : k # j => Sound(k)'
    BY <1>1, <1>2, <2>2, <2>6, <2>8, UntouchedSound
  <2>11. Sound(j)'
    BY <1>1, <2>2, <2>6, <2>8, SavedSound
  <2> QED
    BY <2>8, <2>9, <2>10, <2>11 DEF IInv
<1> QED
  BY <1>3, <1>4

\* The transaction of a row.
LEMMA HandleSteps ==
  ASSUME IInv, NEW j \in Jobs, HandleDue(j)
  PROVE  IInv'
<1> DEFINE now == sweep.now
           startup == sweep.startup
<1>1. TypeOK /\ SweepAgrees /\ \A k \in Jobs : Sound(k)
  BY DEF IInv
<1>2. /\ UNCHANGED <<clock, up, events, backs, since>> /\ j \in sweep.left /\ sweep' = After(j)
      /\ job' = [job EXCEPT ![j].next = nextCron(job[j].cron, now)]
      /\ IF Admitted(j) THEN execs' = [execs EXCEPT ![j] = Enqueued(j, now, startup)] /\ skips' = skips
                        ELSE skips' = skips \cup {Skip(j, now)} /\ execs' = execs
  BY DEF HandleDue, Current
<1>3. now \in Time /\ startup \in BOOLEAN /\ job[j].next <= now /\ clock <= clock /\ (backs = 0 => now <= clock)
      /\ sweep.left \in SUBSET Jobs /\ Waits(j)
  BY <1>1, <1>2 DEF TypeOK, SweepAgrees, Time, Sound
<1>4. /\ job \in [Jobs -> [enabled : BOOLEAN, cron : Crons, policy : {"skip", "queue"}, next : Nat]]
      /\ execs \in [Jobs -> Seq(StoredExecution)]
  BY <1>1 DEF TypeOK
<1> DEFINE row == [job[j] EXCEPT !.next = nextCron(job[j].cron, now)]
<1>5. row \in [enabled : BOOLEAN, cron : Crons, policy : {"skip", "queue"}, next : Nat]
  <2>1. nextCron(job[j].cron, now) \in Nat
    BY <1>3, <1>4, NextCronIsFirst
  <2>2. job[j] \in [enabled : BOOLEAN, cron : Crons, policy : {"skip", "queue"}, next : Nat]
    BY <1>4
  <2> QED
    BY ONLY <2>1, <2>2
<1>6. /\ job' \in [Jobs -> [enabled : BOOLEAN, cron : Crons, policy : {"skip", "queue"}, next : Nat]]
      /\ job'[j] = row
      /\ \A k \in Jobs : k # j => job'[k] = job[k]
  <2>1. job' = [job EXCEPT ![j] = row]
    BY <1>2
  <2> HIDE DEF row
  <2> QED
    BY <1>4, <1>5, <2>1
<1>7. Enqueued(j, now, startup) \in Seq(StoredExecution) /\ Skip(j, now) \in [job : Jobs, from : Nat, to : Nat, count : Nat]
  BY <1>1, <1>3, RowTyped
<1>8. execs' \in [Jobs -> Seq(StoredExecution)]
  <2> HIDE DEF now, startup
  <2>1. execs' = execs \/ execs' = [execs EXCEPT ![j] = Enqueued(j, now, startup)]
    BY <1>2
  <2> QED
    BY ONLY <1>4, <1>7, <2>1
<1>9. skips' \subseteq [job : Jobs, from : Nat, to : Nat, count : Nat]
  <2> HIDE DEF now, startup
  <2>1. skips' = skips \/ skips' = skips \cup {Skip(j, now)}
    BY <1>2
  <2>2. skips \subseteq [job : Jobs, from : Nat, to : Nat, count : Nat]
    BY <1>1 DEF TypeOK
  <2> QED
    BY ONLY <1>7, <2>1, <2>2
<1>10. /\ sweep' \in [startup : BOOLEAN, now : Time, left : SUBSET Jobs]
       /\ \/ sweep' = [startup |-> FALSE, now |-> 0, left |-> {}]
          \/ sweep'.now = sweep.now /\ sweep'.left = sweep.left \ {j}
  <2>1. sweep' = Sweep(startup, now, sweep.left \ {j})
    BY <1>2 DEF After
  <2>2. sweep' \in [startup : BOOLEAN, now : Time, left : SUBSET Jobs]
    BY <1>3, <2>1, SweepTyped
  <2> QED
    BY <2>1, <2>2 DEF Sweep
<1>11. TypeOK'
  BY <1>1, <1>2, <1>6, <1>8, <1>9, <1>10 DEF TypeOK
<1>12. SweepAgrees'
  <2>1. CASE sweep' = [startup |-> FALSE, now |-> 0, left |-> {}]
    <3>1. clock \in Nat
      BY <1>1 DEF TypeOK, Time
    <3> QED
      BY <1>2, <2>1, <3>1 DEF SweepAgrees
  <2>2. CASE sweep'.now = sweep.now /\ sweep'.left = sweep.left \ {j}
    <3>1. ASSUME NEW k \in sweep'.left
          PROVE  job'[k].next <= sweep'.now
      <4>1. k \in Jobs /\ k # j /\ job[k].next <= sweep.now
        BY <1>1, <1>3, <2>2 DEF SweepAgrees
      <4> QED
        BY <1>6, <2>2, <4>1
    <3> QED
      BY <1>1, <1>2, <2>2, <3>1 DEF SweepAgrees
  <2> QED
    BY <1>10, <2>1, <2>2
<1>13. ASSUME NEW k \in Jobs, k # j
       PROVE  Sound(k)'
  <2>1. execs'[k] = execs[k]
    BY <1>2, <1>4, <1>13
  <2>2. \A y : y.job = k => (y \in skips' <=> y \in skips)
    <3>1. Skip(j, now).job = j
      BY DEF Skip
    <3> QED
      BY <1>2, <1>13, <3>1
  <2> QED
    BY <1>1, <1>2, <1>3, <1>6, <1>11, <1>13, <2>1, <2>2, UntouchedSound
<1>14. Sound(j)'
  <2>1. Handled(j, now)
    BY <1>1, <1>2, <1>3, <1>6, <1>11 DEF Handled
  <2>2. CASE ~Admitted(j)
    <3> HIDE DEF now
    <3> QED
      BY <1>2, <2>1, <2>2, SkippedSound
  <2>3. CASE Admitted(j)
    <3>1. execs'[j] = Enqueued(j, now, startup) /\ skips' = skips
      BY <1>2, <1>4, <2>3
    <3> HIDE DEF now, startup
    <3>2. CASE For(j, job[j].next) = {}
      BY ONLY <1>3, <2>1, <2>3, <3>1, <3>2, j \in Jobs, EnqueuedSound
    <3>3. CASE For(j, job[j].next) # {}
      BY ONLY <1>3, <2>1, <3>1, <3>3, j \in Jobs, UpdatedSound
    <3> QED
      BY <3>2, <3>3
  <2> QED
    BY <2>2, <2>3
<1> QED
  BY <1>11, <1>12, <1>13, <1>14 DEF IInv

\* The inductive invariant holds throughout.
THEOREM ScheduleSound == ScheduleSpec => []IInv
<1>1. IInv /\ [ScheduleNext]_scheduleVars => IInv'
  <2> SUFFICES ASSUME IInv, [ScheduleNext]_scheduleVars
               PROVE  IInv'
    OBVIOUS
  <2>1. CASE Boot
    BY <2>1, BootSteps
  <2>2. CASE \E j \in Jobs : HandleDue(j)
    BY <2>2, HandleSteps
  <2>3. CASE \E j \in Jobs : Manual(j)
    BY <2>3, HandSteps
  <2>4. CASE \E j \in Jobs : \E enabled \in BOOLEAN, cron \in Crons, policy \in Policies[j] : SaveJob(j, enabled, cron, policy)
    BY <2>4, HandSteps
  <2>5. CASE \E j \in Jobs : \E i \in DOMAIN execs[j] : End(j, i)
    BY <2>5, EndSteps
  <2>6. CASE Tick \/ SetBack \/ RunDue \/ GiveUp \/ ProcessDies \/ (\E j \in Jobs : HandleFault(j)) \/ UNCHANGED scheduleVars
    BY <2>6, QuietSteps
  <2> QED
    BY <2>1, <2>2, <2>3, <2>4, <2>5, <2>6 DEF ScheduleNext
<1> QED
  BY <1>1, ScheduleInitSound, PTL DEF ScheduleSpec

\* A set whose members are all the same has at most one.
LEMMA AtMostOne ==
  ASSUME NEW S, \A x, y \in S : x = y
  PROVE  Cardinality(S) <= 1
<1>1. CASE S = {}
  BY <1>1, FS_EmptySet
<1>2. CASE S # {}
  <2>1. PICK x \in S : S = {x}
    BY <1>2
  <2>2. Cardinality({x}) = 1
    BY FS_Singleton
  <2> QED
    BY <2>1, <2>2
<1> QED
  BY <1>1, <1>2

\* Every occurrence before next_run_at has been accounted for, by an execution
\* that names it or by a skip, and by no two unless the clock was set back,
\* through downtime, crashes between two schedules, failing writes and saves.
THEOREM OccurrencesAccounted == ScheduleSpec => []EveryOccurrenceAccounted
<1>1. IInv => EveryOccurrenceAccounted
  <2> SUFFICES ASSUME IInv, NEW j \in Jobs, NEW t \in job[j].cron, since[j] <= t, t < job[j].next
               PROVE  Accounts(j, t) # {} /\ (backs = 0 => Cardinality(Accounts(j, t)) = 1)
    BY DEF EveryOccurrenceAccounted
  <2>1. Accounts(j, t) # {} /\ (backs = 0 => \E x \in Accounts(j, t) : Accounts(j, t) = {x})
    BY DEF IInv, Sound, Covered
  <2> QED
    BY <2>1, FS_Singleton
<1> QED
  BY <1>1, ScheduleSound, PTL

\* What executions report is what they stand for, an occurrence never has two
\* executions, and a schedule that skips overlaps has at most one of its own
\* under way.
THEOREM ExecutionsCorrect == ScheduleSpec => []ExecutionsAgree
<1>1. IInv => MissedCountTrue
  BY DEF IInv, Sound, Counted, Reports, MissedCountTrue
<1>2. IInv => OneExecutionPerOccurrence
  BY DEF IInv, Sound, Distinct, OneExecutionPerOccurrence
<1>3. IInv => NoOverlapWhenSkipping
  <2> SUFFICES ASSUME IInv, NEW j \in Jobs, Policies[j] = {"skip"}
               PROVE  Cardinality({i \in Automatic(j) : execs[j][i].active}) <= 1
    BY DEF NoOverlapWhenSkipping
  <2> DEFINE S == {i \in Automatic(j) : execs[j][i].active}
  <2>1. \A x, y \in S : x = y
    BY DEF IInv, Sound, OneActive
  <2> HIDE DEF S
  <2>2. Cardinality(S) <= 1
    BY ONLY <2>1, AtMostOne
  <2> QED
    BY <2>2 DEF S
<1>4. IInv => ExecutionsAgree
  BY <1>1, <1>2, <1>3 DEF ExecutionsAgree
<1> QED
  BY <1>4, ScheduleSound, PTL
=============================================================================
