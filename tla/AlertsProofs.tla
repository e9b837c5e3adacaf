---------------------------- MODULE AlertsProofs ----------------------------
(***************************************************************************)
(* What is announced, for any number of executions and incidents, any      *)
(* batch, limit of a pass, number of attempts, backlog, crashes and writes *)
(* that fail, and any schedule.  The outbox is proved first: what it reads *)
(* is a queue of rows in the order of their recording, what it makes of    *)
(* the events is a fold, of which the invariant says what holds after the  *)
(* first k events, and what was sent is counted by the rows, the message   *)
(* under way and the receipts that were lost, by a crash or not.  Then the *)
(* policy: an incident is opened when no age of grace is left and all that *)
(* was verified is too old, so that what is fresh later came since.  The   *)
(* outbox and the policy share no variable.                                *)
(***************************************************************************)
EXTENDS MCAlerts, SequenceTheorems, FiniteSetTheorems, WellFoundedInduction, TLAPS

-----------------------------------------------------------------------------
(* Numbers *)

\* A non-empty set of numbers has a least one.
LEMMA LeastNumber ==
  ASSUME NEW T, T \subseteq Nat, T # {}
  PROVE  \E n \in T : \A k \in T : n <= k
<1>1. \E n \in T : \A k \in T : <<k, n>> \notin OpToRel(<, Nat)
  BY ONLY WFMin, NatLessThanWellFounded, T \subseteq Nat, T # {}, Zenon
<1>2. \A k, n \in Nat : k < n => <<k, n>> \in OpToRel(<, Nat)
  BY DEF OpToRel
<1>3. PICK n \in T : \A k \in T : <<k, n>> \notin OpToRel(<, Nat)
  BY <1>1
<1>4. ASSUME NEW k \in T
      PROVE  n <= k
  <2>1. k \in Nat /\ n \in Nat
    OBVIOUS
  <2>2. ~(k < n)
    BY <1>2, <1>3, <2>1
  <2> QED
    BY <2>1, <2>2
<1> QED
  BY <1>4

\* A part of a finite set that leaves an element out is smaller.
LEMMA PartIsSmaller ==
  ASSUME NEW S, IsFiniteSet(S), NEW T, T \subseteq S, NEW x \in S, x \notin T
  PROVE  IsFiniteSet(T) /\ Cardinality(T) \in Nat /\ Cardinality(S) \in Nat /\ Cardinality(T) < Cardinality(S)
<1>1. IsFiniteSet(T) /\ Cardinality(T) <= Cardinality(S) /\ (Cardinality(T) = Cardinality(S) => S = T)
  BY FS_Subset
<1>2. Cardinality(T) \in Nat /\ Cardinality(S) \in Nat
  BY <1>1, FS_CardinalityType
<1> QED
  BY <1>1, <1>2

\* A non-empty finite set of numbers has a greatest one.
LEMMA GreatestNumber ==
  ASSUME NEW S, IsFiniteSet(S), S \subseteq Nat, S # {}
  PROVE  Max(S) \in S /\ \A k \in S : k <= Max(S)
<1> DEFINE Above(m) == {k \in S : k > m}
           Counts == {Cardinality(Above(m)) : m \in S}
<1>1. ASSUME NEW m \in S
      PROVE  IsFiniteSet(Above(m)) /\ Cardinality(Above(m)) \in Nat
  <2>1. Above(m) \subseteq S /\ m \notin Above(m)
    OBVIOUS
  <2> HIDE DEF Above
  <2> QED
    BY <2>1, PartIsSmaller
<1>2. PICK m \in S : \A k \in S : Cardinality(Above(m)) <= Cardinality(Above(k))
  <2>1. Counts \subseteq Nat /\ Counts # {}
    BY <1>1
  <2> HIDE DEF Counts
  <2>2. PICK c \in Counts : \A d \in Counts : c <= d
    BY <2>1, LeastNumber
  <2> USE DEF Counts
  <2> HIDE DEF Above
  <2> QED
    BY <2>2
<1>3. ASSUME NEW k \in S, k > m
      PROVE  FALSE
  <2>0. m \in Nat /\ k \in Nat /\ \A j \in S : j \in Nat
    OBVIOUS
  <2>1. k \in Above(m) /\ k \notin Above(k)
    BY <1>3, <2>0
  <2>3. ASSUME NEW j \in Above(k)
        PROVE  j \in Above(m)
    <3>1. j \in S /\ j \in Nat /\ j > k
      BY <2>0, <2>3
    <3>2. j > m
      BY ONLY <1>3, <2>0, <3>1
    <3> QED
      BY <3>1, <3>2
  <2> HIDE DEF Above
  <2>2. Cardinality(Above(k)) < Cardinality(Above(m))
    BY <1>1, <2>1, <2>3, PartIsSmaller
  <2> QED
    BY <1>1, <1>2, <2>2
<1>4. \A k \in S : m >= k
  BY <1>3
<1>5. Max(S) \in S /\ \A k \in S : Max(S) >= k
  BY <1>4 DEF Max
<1> QED
  BY <1>5

\* A non-empty set of numbers has the least one as its Min.
LEMMA MinIsLeast ==
  ASSUME NEW S, S \subseteq Nat, S # {}
  PROVE  Min(S) \in S /\ \A k \in S : Min(S) <= k
BY LeastNumber DEF Min

-----------------------------------------------------------------------------
(* Rows of the outbox *)

\* A row that may still be sent has attempts left; rows that are pending are in
\* the one order of their recording.
RowsOK(o) ==
  /\ o \in [Notices -> Row]
  /\ \A n \in Notices : o[n].status \in {"none", "pending", "superseded"} => o[n].attempts < Attempts
  /\ \A n, m \in Notices : n # m /\ o[n].status = "pending" /\ o[m].status = "pending" => o[n].rowid # o[m].rowid

\* Rows that one pass of the worker has read: each once, and as it is.
ReadRow == [notice : Notices, attempts : 0 .. Attempts]
QueueOK(o, rows) ==
  /\ rows \in Seq(ReadRow)
  /\ \A j, k \in 1 .. Len(rows) : j # k => rows[j].notice # rows[k].notice
  /\ \A k \in 1 .. Len(rows) : rows[k].attempts = o[rows[k].notice].attempts

\* There are finitely many notices.
LEMMA NoticesAreFinite == IsFiniteSet(Notices)
<1>1. IsFiniteSet({"first_failure"} \cup Verdicts) /\ IsFiniteSet({"opened", "resolved"})
  <2>1. ASSUME NEW a, NEW b, NEW c, NEW d
        PROVE  IsFiniteSet({a, b, c, d})
    <3>1. IsFiniteSet({a})
      BY FS_Singleton
    <3>2. IsFiniteSet({a} \cup {b})
      BY <3>1, FS_AddElement
    <3>3. IsFiniteSet(({a} \cup {b}) \cup {c})
      BY <3>2, FS_AddElement
    <3>4. IsFiniteSet((({a} \cup {b}) \cup {c}) \cup {d})
      BY <3>3, FS_AddElement
    <3>5. (({a} \cup {b}) \cup {c}) \cup {d} = {a, b, c, d}
      OBVIOUS
    <3> QED
      BY <3>4, <3>5
  <2>2. /\ {"first_failure"} \cup Verdicts = {"first_failure", "success", "recovered", "final_failure"}
        /\ {"opened", "resolved"} = {"opened", "resolved", "opened", "opened"}
    BY DEF Verdicts
  <2>3. IsFiniteSet({"first_failure", "success", "recovered", "final_failure"})
    BY <2>1, Zenon
  <2>4. IsFiniteSet({"opened", "resolved"})
    BY <2>1, <2>2, Zenon
  <2> QED
    BY <2>2, <2>3, <2>4
<1>2. IsFiniteSet(Executions \X ({"first_failure"} \cup Verdicts)) /\ IsFiniteSet(Incidents \X {"opened", "resolved"})
  BY <1>1, OutboxAssumption, FS_Product
<1> QED
  BY <1>2, FS_Union DEF Notices

\* A row that is recorded comes after every other.
LEMMA NewestIsLast ==
  ASSUME NEW o, RowsOK(o)
  PROVE  Newest(o) \in Nat /\ \A n \in Notices : o[n].rowid <= Newest(o)
<1> DEFINE ids == {o[n].rowid : n \in Notices}
<1>1. IsFiniteSet(ids)
  <2>1. [n \in Notices |-> o[n].rowid] \in Surjection(Notices, ids)
    BY DEF Surjection
  <2> QED
    BY <2>1, NoticesAreFinite, FS_Surjection
<1>2. IsFiniteSet({0} \cup ids)
  <2> HIDE DEF ids
  <2> QED
    BY <1>1, FS_AddElement
<1>3. {0} \cup ids \subseteq Nat
  BY DEF RowsOK, Row
<1>4. Max({0} \cup ids) \in {0} \cup ids /\ \A k \in {0} \cup ids : k <= Max({0} \cup ids)
  <2> HIDE DEF ids
  <2> QED
    BY <1>2, <1>3, GreatestNumber
<1>5. Newest(o) = Max({0} \cup ids)
  BY DEF Newest
<1> QED
  BY <1>3, <1>4, <1>5

\* Rows() lists each due row once, in their order.
LEMMA RowsAreRead ==
  ASSUME NEW o, RowsOK(o), NEW due, due \subseteq {n \in Notices : o[n].status = "pending"}
  PROVE  QueueOK(o, Rows(o, due))
<1> DEFINE older(n) == {m \in due : o[m].rowid < o[n].rowid}
           size == Cardinality(due)
           place == [n \in due |-> Cardinality(older(n)) + 1]
<1>1. IsFiniteSet(due) /\ size \in Nat
  <2>1. due \subseteq Notices
    OBVIOUS
  <2> QED
    BY <2>1, NoticesAreFinite, FS_Subset, FS_CardinalityType
<1>2. \A n \in due : o[n].rowid \in Nat
  BY DEF RowsOK, Row
<1>3. ASSUME NEW n \in due
      PROVE  IsFiniteSet(older(n)) /\ Cardinality(older(n)) \in 0 .. size - 1
  <2>1. older(n) \subseteq due /\ n \notin older(n)
    BY <1>2
  <2> HIDE DEF older
  <2> QED
    BY <1>1, <2>1, PartIsSmaller
<1>4. ASSUME NEW n \in due, NEW m \in due, o[m].rowid < o[n].rowid
      PROVE  Cardinality(older(m)) # Cardinality(older(n))
  <2>1. older(m) \subseteq older(n) /\ m \in older(n) /\ m \notin older(m)
    BY <1>2, <1>4
  <2> HIDE DEF older
  <2> QED
    BY <1>3, <2>1, PartIsSmaller
<1>5. ASSUME NEW n \in due, NEW m \in due, n # m
      PROVE  Cardinality(older(m)) # Cardinality(older(n))
  <2>1. o[m].rowid # o[n].rowid
    BY <1>5 DEF RowsOK
  <2>2. o[m].rowid < o[n].rowid \/ o[n].rowid < o[m].rowid
    BY <1>2, <2>1
  <2> HIDE DEF older
  <2> QED
    BY <1>4, <2>2
<1>6. place \in Injection(due, 1 .. size)
  <2>1. place \in [due -> 1 .. size]
    <3> HIDE DEF older
    <3> QED
      BY <1>1, <1>3
  <2>2. \A n, m \in due : n # m => place[n] # place[m]
    <3> HIDE DEF older
    <3> QED
      BY <1>3, <1>5
  <2> HIDE DEF place
  <2> QED
    BY <2>1, <2>2 DEF Injection, IsInjective
<1>7. \A k \in 1 .. size : \E n \in due : Cardinality(older(n)) = k - 1
  <2>1. IsFiniteSet(1 .. size) /\ Cardinality(1 .. size) = size
    BY <1>1, FS_Interval
  <2>2. place \in Surjection(due, 1 .. size)
    <3> HIDE DEF place, size
    <3> QED
      BY <1>1, <1>6, <2>1, FS_Injection DEF size
  <2>3. \A k \in 1 .. size : \E n \in due : place[n] = k
    <3> HIDE DEF place
    <3> QED
      BY <2>2 DEF Surjection
  <2>4. \A n \in due : place[n] = Cardinality(older(n)) + 1
    OBVIOUS
  <2> HIDE DEF place, older
  <2> QED
    BY <1>3, <2>3, <2>4
<1> DEFINE at(k) == CHOOSE m \in due : Cardinality(older(m)) = k - 1
<1>8. \A k \in 1 .. size : at(k) \in due /\ Cardinality(older(at(k))) = k - 1
  <2> HIDE DEF older
  <2> QED
    BY <1>7
<1>9. Rows(o, due) = [k \in 1 .. size |-> [notice |-> at(k), attempts |-> o[at(k)].attempts]]
  BY DEF Rows
<1> HIDE DEF at, older, place
<1>10. \A k \in 1 .. size : [notice |-> at(k), attempts |-> o[at(k)].attempts] \in ReadRow
  <2>1. \A k \in 1 .. size : at(k) \in Notices
    BY <1>8
  <2>2. \A n \in Notices : o[n].attempts \in 0 .. Attempts
    BY DEF RowsOK, Row
  <2> QED
    BY <2>1, <2>2 DEF ReadRow
<1>11. Rows(o, due) \in Seq(ReadRow) /\ Len(Rows(o, due)) = size
  <2> HIDE DEF size
  <2> QED
    BY <1>1, <1>9, <1>10
<1>12. \A j, k \in 1 .. size : at(j) = at(k) => j = k
  BY <1>8
<1> DEFINE rows == Rows(o, due)
<1>13. \A k \in 1 .. size : rows[k].notice = at(k) /\ rows[k].attempts = o[at(k)].attempts
  BY <1>9
<1>14. rows \in Seq(ReadRow) /\ Len(rows) = size
  BY <1>11
<1> HIDE DEF rows, size
<1>15. QueueOK(o, rows)
  BY <1>12, <1>13, <1>14 DEF QueueOK
<1> QED
  BY <1>15 DEF rows

-----------------------------------------------------------------------------
(* Events become rows *)

\* What materialize() does to the rows: they are recorded and superseded.
Follows(o, q) ==
  \A n \in Notices :
    /\ q[n].attempts = o[n].attempts
    /\ \/ q[n].status = o[n].status
       \/ o[n].status = "none" /\ q[n].status \in {"pending", "superseded"}
       \/ o[n].status = "pending" /\ q[n].status = "superseded"

\* A notice that is not on record is pending, as the last one.
LEMMA RecordIs ==
  ASSUME NEW o, RowsOK(o), NEW n \in Notices
  PROVE  /\ RowsOK(Record(o, n))
         /\ \A m \in Notices \ {n} : Record(o, n)[m] = o[m]
         /\ Record(o, n)[n].status = IF o[n].status = "none" THEN "pending" ELSE o[n].status
         /\ Record(o, n)[n].attempts = o[n].attempts
<1>1. o \in [Notices -> Row] /\ o[n] \in Row
  BY DEF RowsOK
<1>2. CASE o[n].status # "none"
  BY <1>2 DEF Record, Recorded
<1>3. CASE o[n].status = "none"
  <2> DEFINE r == [o[n] EXCEPT !.status = "pending", !.rowid = Newest(o) + 1]
  <2>1. Record(o, n) = [o EXCEPT ![n] = r]
    BY <1>1, <1>3 DEF Record, Recorded
  <2>2. r \in Row /\ r.status = "pending" /\ r.rowid = Newest(o) + 1 /\ r.attempts = o[n].attempts
    <3>1. Newest(o) + 1 \in Nat
      BY NewestIsLast
    <3>2. ASSUME NEW old \in Row, NEW id \in Nat
          PROVE  LET new == [old EXCEPT !.status = "pending", !.rowid = id]
                 IN new \in Row /\ new.status = "pending" /\ new.rowid = id /\ new.attempts = old.attempts
      BY DEF Row, Statuses
    <3> QED
      BY <1>1, <3>1, <3>2
  <2> HIDE DEF r
  <2> DEFINE q == [o EXCEPT ![n] = r]
  <2>3. q \in [Notices -> Row] /\ q[n] = r /\ \A m \in Notices \ {n} : q[m] = o[m]
    BY <1>1, <2>2
  <2> HIDE DEF q
  <2>4. \A m \in Notices \ {n} : q[m].rowid # q[n].rowid
    <3>1. \A m \in Notices : o[m].rowid \in Nat /\ o[m].rowid <= Newest(o) /\ Newest(o) \in Nat
      BY NewestIsLast DEF RowsOK, Row
    <3> QED
      BY <2>2, <2>3, <3>1
  <2>5. RowsOK(q)
    BY <1>3, <2>2, <2>3, <2>4 DEF RowsOK
  <2> QED
    BY <1>3, <2>1, <2>2, <2>3, <2>5 DEF q
<1> QED
  BY <1>2, <1>3

\* A pending notice is superseded.
LEMMA SupersedeIs ==
  ASSUME NEW o, RowsOK(o), NEW n \in Notices
  PROVE  /\ RowsOK(Supersede(o, n))
         /\ \A m \in Notices \ {n} : Supersede(o, n)[m] = o[m]
         /\ Supersede(o, n)[n].status = IF o[n].status = "pending" THEN "superseded" ELSE o[n].status
         /\ Supersede(o, n)[n].attempts = o[n].attempts
<1>1. o \in [Notices -> Row] /\ o[n] \in Row
  BY DEF RowsOK
<1>2. CASE o[n].status # "pending"
  BY <1>2 DEF Supersede
<1>3. CASE o[n].status = "pending"
  <2> DEFINE r == Settled(o[n], "superseded")
  <2>1. Supersede(o, n) = [o EXCEPT ![n] = r]
    BY <1>1, <1>3 DEF Supersede
  <2>2. r \in Row /\ r.status = "superseded" /\ r.attempts = o[n].attempts
    BY <1>1 DEF Row, Statuses, Settled
  <2> HIDE DEF r
  <2> DEFINE q == [o EXCEPT ![n] = r]
  <2>3. q \in [Notices -> Row] /\ q[n] = r /\ \A m \in Notices \ {n} : q[m] = o[m]
    BY <1>1, <2>2
  <2> HIDE DEF q
  <2>4. RowsOK(q)
    BY <1>3, <2>2, <2>3 DEF RowsOK
  <2> QED
    BY <1>3, <2>1, <2>2, <2>3, <2>4 DEF q
<1> QED
  BY <1>2, <1>3

\* An event after the first k.
ToCome(k, of, what) ==
  \E l \in k + 1 .. Len(events) : events[l].of = of /\ events[l].what = what

\* Events tell of what has happened, and an incident's end after its beginning.
EventsOK ==
  /\ events \in Seq([of : Executions \cup Incidents, what : {"changed", "opened", "resolved", "closed"}])
  /\ \A k \in 1 .. Len(events) :
       /\ events[k].what = "changed" => events[k].of \in Executions
       /\ events[k].what # "changed" => events[k].of \in Incidents
       /\ events[k].what = "opened" => incident[events[k].of] # "none"
       /\ events[k].what \in {"resolved", "closed"} => incident[events[k].of] = events[k].what
  /\ \A k, l \in 1 .. Len(events) :
       events[k].what = "opened" /\ events[l].what \in {"resolved", "closed"} /\ events[k].of = events[l].of => k < l

\* What the rows say once the first k events are among them: of an execution or
\* incident of which no event is to come, what OutboxAgrees says.
ExecutionNoticed(o, k, x) ==
  /\ \A v \in Verdicts : o[<<x, v>>].status # "none" => execution[x] \in Ended \ {"cancelled"} /\ v = VerdictOf(x)
  /\ ~ToCome(k, x, "changed") =>
       /\ execution[x] \in Ended \ {"cancelled"} => o[<<x, VerdictOf(x)>>].status # "none"
       /\ execution[x] \in Ended => o[<<x, "first_failure">>].status # "pending"
       /\ execution[x] = "failing" => o[<<x, "first_failure">>].status # "none"

IncidentNoticed(o, k, i) ==
  /\ o[<<i, "resolved">>].status # "none" => incident[i] = "resolved"
  /\ incident[i] # "none" /\ ~ToCome(k, i, "opened") => o[<<i, "opened">>].status # "none"
  /\ incident[i] \in {"resolved", "closed"} /\ ~ToCome(k, i, incident[i]) =>
       /\ o[<<i, "opened">>].status \notin {"none", "pending"}
       /\ incident[i] = "resolved" => o[<<i, "resolved">>].status # "none"

Noticed(o, k) ==
  /\ \A x \in Executions : ExecutionNoticed(o, k, x)
  /\ \A i \in Incidents : IncidentNoticed(o, k, i)

\* The types of what executions and incidents have come to.
ReportsTyped ==
  /\ execution \in [Executions -> {"quiet", "failing"} \cup Ended]
  /\ incident \in [Incidents -> {"none", "open", "resolved", "closed"}]

\* An event is the next one or comes after it.
LEMMA ToComeNext ==
  ASSUME NEW k \in 1 .. Len(events), EventsOK, NEW of, NEW what
  PROVE  ToCome(k - 1, of, what) <=> ToCome(k, of, what) \/ (events[k].of = of /\ events[k].what = what)
<1>1. Len(events) \in Nat
  BY DEF EventsOK
<1>2. (k - 1) + 1 .. Len(events) = {k} \cup k + 1 .. Len(events)
  BY <1>1
<1> QED
  BY <1>2 DEF ToCome

\* Names of notices.
LEMMA NoticeNames ==
  /\ \A x \in Executions : <<x, "first_failure">> \in Notices /\ \A v \in Verdicts : <<x, v>> \in Notices /\ v # "first_failure"
  /\ \A x \in Executions : VerdictOf(x) \in Verdicts
  /\ \A i \in Incidents : <<i, "opened">> \in Notices /\ <<i, "resolved">> \in Notices
  /\ \A v \in Verdicts : v \notin {"opened", "resolved"}
BY DEF Notices, Verdicts, VerdictOf

\* The notices of an execution as its status is now.
LEMMA ExecutionEvent ==
  ASSUME NEW o, RowsOK(o), EventsOK, ReportsTyped, NEW k \in 1 .. Len(events), Noticed(o, k - 1), events[k].what = "changed"
  PROVE  RowsOK(OfEvent(o, events[k])) /\ Follows(o, OfEvent(o, events[k])) /\ Noticed(OfEvent(o, events[k]), k)
<1> DEFINE x == events[k].of
           first == <<x, "first_failure">>
           verdict == <<x, VerdictOf(x)>>
           q == OfEvent(o, events[k])
<1>1. x \in Executions /\ first \in Notices /\ verdict \in Notices /\ first # verdict
  BY NoticeNames DEF EventsOK
<1>2. q = OfExecution(o, x)
  BY DEF OfEvent
<1>3. /\ RowsOK(q)
      /\ \A n \in Notices \ {first, verdict} : q[n] = o[n]
      /\ q[first].attempts = o[first].attempts /\ q[verdict].attempts = o[verdict].attempts
      /\ q[verdict].status = IF execution[x] \in Ended \ {"cancelled"} /\ o[verdict].status = "none" THEN "pending" ELSE o[verdict].status
      /\ q[first].status = IF execution[x] = "failing" /\ o[first].status = "none" THEN "pending"
                           ELSE IF execution[x] \in Ended /\ o[first].status = "pending" THEN "superseded"
                           ELSE o[first].status
  <2> HIDE DEF x, q
  <2>1. execution[x] \in {"quiet", "failing"} \cup Ended
    BY <1>1 DEF ReportsTyped
  <2>2. CASE execution[x] = "quiet"
    BY <1>1, <1>2, <2>2 DEF OfExecution, Ended
  <2>3. CASE execution[x] = "failing"
    <3>1. q = Record(o, first)
      BY <1>2, <2>3 DEF OfExecution
    <3> HIDE DEF first, verdict
    <3>2. /\ RowsOK(q) /\ \A m \in Notices \ {first} : q[m] = o[m]
          /\ q[first].status = IF o[first].status = "none" THEN "pending" ELSE o[first].status
          /\ q[first].attempts = o[first].attempts
      BY <1>1, <3>1, RecordIs
    <3>3. execution[x] \notin Ended
      BY <2>3 DEF Ended
    <3> QED
      BY <1>1, <2>3, <3>2, <3>3
  <2>4. CASE execution[x] = "cancelled"
    <3>1. q = Supersede(o, first)
      BY <1>2, <2>4 DEF OfExecution
    <3> HIDE DEF first, verdict
    <3>2. /\ RowsOK(q) /\ \A m \in Notices \ {first} : q[m] = o[m]
          /\ q[first].status = IF o[first].status = "pending" THEN "superseded" ELSE o[first].status
          /\ q[first].attempts = o[first].attempts
      BY <1>1, <3>1, SupersedeIs
    <3>3. execution[x] \in Ended /\ execution[x] # "failing"
      BY <2>4 DEF Ended
    <3> QED
      BY <1>1, <2>4, <3>2, <3>3
  <2>5. CASE execution[x] \in Ended \ {"cancelled"}
    <3> DEFINE s == Supersede(o, first)
    <3>1. q = Record(s, verdict)
      BY <1>2, <2>5 DEF OfExecution, Ended
    <3>2. /\ RowsOK(s) /\ \A m \in Notices \ {first} : s[m] = o[m]
          /\ s[first].status = IF o[first].status = "pending" THEN "superseded" ELSE o[first].status
          /\ s[first].attempts = o[first].attempts
      BY <1>1, SupersedeIs
    <3> HIDE DEF s, first, verdict
    <3>3. /\ RowsOK(q) /\ \A m \in Notices \ {verdict} : q[m] = s[m]
          /\ q[verdict].status = IF s[verdict].status = "none" THEN "pending" ELSE s[verdict].status
          /\ q[verdict].attempts = s[verdict].attempts
      BY <1>1, <3>1, <3>2, RecordIs
    <3>4. execution[x] # "failing" /\ execution[x] \in Ended
      BY <2>5 DEF Ended
    <3> QED
      BY <1>1, <2>5, <3>2, <3>3, <3>4
  <2> QED
    BY <2>1, <2>2, <2>3, <2>4, <2>5
<1>4. \A n \in Notices : o[n].status \in Statuses
  BY DEF RowsOK, Row
<1>5. Follows(o, q)
  <2> HIDE DEF q, first, verdict
  <2> QED
    BY <1>1, <1>3 DEF Follows
<1>6. ASSUME NEW y \in Executions
      PROVE  ExecutionNoticed(q, k, y)
  <2>1. ExecutionNoticed(o, k - 1, y)
    BY DEF Noticed
  <2>2. CASE y # x
    <3>1. ToCome(k, y, "changed") <=> ToCome(k - 1, y, "changed")
      BY <2>2, ToComeNext
    <3>2. q[<<y, "first_failure">>] = o[<<y, "first_failure">>] /\ \A v \in Verdicts : q[<<y, v>>] = o[<<y, v>>]
      BY <1>3, <2>2, NoticeNames
    <3>3. VerdictOf(y) \in Verdicts
      BY NoticeNames
    <3> HIDE DEF q, x
    <3> QED
      BY <2>1, <3>1, <3>2, <3>3 DEF ExecutionNoticed
  <2>3. CASE y = x
    <3>1. ASSUME NEW v \in Verdicts, q[<<x, v>>].status # "none"
          PROVE  execution[x] \in Ended \ {"cancelled"} /\ v = VerdictOf(x)
      <4>1. CASE v = VerdictOf(x)
        <5>1. o[<<x, v>>].status # "none" \/ execution[x] \in Ended \ {"cancelled"}
          BY <1>3, <3>1, <4>1
        <5> QED
          BY <2>1, <2>3, <4>1, <5>1 DEF ExecutionNoticed
      <4>2. CASE v # VerdictOf(x)
        <5>1. q[<<x, v>>] = o[<<x, v>>]
          BY <1>1, <1>3, <4>2, NoticeNames
        <5> QED
          BY <2>1, <2>3, <3>1, <5>1 DEF ExecutionNoticed
      <4> QED
        BY <4>1, <4>2
    <3>2. /\ execution[x] \in Ended \ {"cancelled"} => q[verdict].status # "none"
          /\ execution[x] \in Ended => q[first].status # "pending"
          /\ execution[x] = "failing" => q[first].status # "none"
      <4>1. execution[x] \in Ended => execution[x] # "failing"
        BY DEF Ended
      <4> HIDE DEF q, first, verdict, x
      <4> QED
        BY <1>3, <4>1
    <3> HIDE DEF q, x
    <3> QED
      BY <2>3, <3>1, <3>2 DEF ExecutionNoticed
  <2> QED
    BY <2>2, <2>3
<1>7. ASSUME NEW i \in Incidents
      PROVE  IncidentNoticed(q, k, i)
  <2>1. IncidentNoticed(o, k - 1, i)
    BY DEF Noticed
  <2>2. q[<<i, "opened">>] = o[<<i, "opened">>] /\ q[<<i, "resolved">>] = o[<<i, "resolved">>]
    BY <1>1, <1>3, NoticeNames
  <2>3. \A w \in {"opened", "resolved", "closed"} : ToCome(k, i, w) <=> ToCome(k - 1, i, w)
    BY ToComeNext
  <2> HIDE DEF q
  <2> QED
    BY <2>1, <2>2, <2>3 DEF IncidentNoticed
<1> QED
  BY <1>3, <1>5, <1>6, <1>7 DEF Noticed

\* The notices of an incident, which depend on the event.
LEMMA IncidentEvent ==
  ASSUME NEW o, RowsOK(o), EventsOK, ReportsTyped, NEW k \in 1 .. Len(events), Noticed(o, k - 1), events[k].what # "changed"
  PROVE  RowsOK(OfEvent(o, events[k])) /\ Follows(o, OfEvent(o, events[k])) /\ Noticed(OfEvent(o, events[k]), k)
<1> DEFINE i == events[k].of
           what == events[k].what
           begun == <<i, "opened">>
           ended == <<i, "resolved">>
           q == OfEvent(o, events[k])
<1>1. /\ i \in Incidents /\ begun \in Notices /\ ended \in Notices /\ begun # ended
      /\ what \in {"opened", "resolved", "closed"}
      /\ what = "opened" => incident[i] # "none"
      /\ what \in {"resolved", "closed"} => incident[i] = what
  <2>1. what \in {"changed", "opened", "resolved", "closed"}
    <3>1. events \in Seq([of : Executions \cup Incidents, what : {"changed", "opened", "resolved", "closed"}])
      BY DEF EventsOK
    <3>2. events[k] \in [of : Executions \cup Incidents, what : {"changed", "opened", "resolved", "closed"}]
      BY ONLY <3>1, k \in 1 .. Len(events), ElementOfSeq, Zenon
    <3> QED
      BY <3>2
  <2>2. /\ i \in Incidents
        /\ what = "opened" => incident[i] # "none"
        /\ what \in {"resolved", "closed"} => incident[i] = what
    BY DEF EventsOK
  <2> QED
    BY <2>1, <2>2, NoticeNames
<1>2. q = OfIncident(o, i, what)
  BY DEF OfEvent
<1>3. /\ RowsOK(q)
      /\ \A n \in Notices \ {begun, ended} : q[n] = o[n]
      /\ q[begun].attempts = o[begun].attempts /\ q[ended].attempts = o[ended].attempts
      /\ q[ended].status = IF what = "resolved" /\ o[ended].status = "none" THEN "pending" ELSE o[ended].status
      /\ q[begun].status = IF what = "opened" /\ o[begun].status = "none" THEN "pending"
                           ELSE IF what # "opened" /\ o[begun].status = "pending" THEN "superseded"
                           ELSE o[begun].status
  <2> HIDE DEF i, q, what
  <2>1. CASE what = "opened"
    <3>1. q = Record(o, begun)
      BY <1>2, <2>1 DEF OfIncident
    <3> HIDE DEF begun, ended
    <3>2. /\ RowsOK(q) /\ \A m \in Notices \ {begun} : q[m] = o[m]
          /\ q[begun].status = IF o[begun].status = "none" THEN "pending" ELSE o[begun].status
          /\ q[begun].attempts = o[begun].attempts
      BY <1>1, <3>1, RecordIs
    <3> QED
      BY <1>1, <2>1, <3>2
  <2>2. CASE what = "closed"
    <3>1. q = Supersede(o, begun)
      BY <1>2, <2>2 DEF OfIncident
    <3> HIDE DEF begun, ended
    <3>2. /\ RowsOK(q) /\ \A m \in Notices \ {begun} : q[m] = o[m]
          /\ q[begun].status = IF o[begun].status = "pending" THEN "superseded" ELSE o[begun].status
          /\ q[begun].attempts = o[begun].attempts
      BY <1>1, <3>1, SupersedeIs
    <3> QED
      BY <1>1, <2>2, <3>2
  <2>3. CASE what = "resolved"
    <3> DEFINE s == Supersede(o, begun)
    <3>1. q = Record(s, ended)
      BY <1>2, <2>3 DEF OfIncident
    <3>2. /\ RowsOK(s) /\ \A m \in Notices \ {begun} : s[m] = o[m]
          /\ s[begun].status = IF o[begun].status = "pending" THEN "superseded" ELSE o[begun].status
          /\ s[begun].attempts = o[begun].attempts
      BY <1>1, SupersedeIs
    <3> HIDE DEF s, begun, ended
    <3>3. /\ RowsOK(q) /\ \A m \in Notices \ {ended} : q[m] = s[m]
          /\ q[ended].status = IF s[ended].status = "none" THEN "pending" ELSE s[ended].status
          /\ q[ended].attempts = s[ended].attempts
      BY <1>1, <3>1, <3>2, RecordIs
    <3> QED
      BY <1>1, <2>3, <3>2, <3>3
  <2> QED
    BY <1>1, <2>1, <2>2, <2>3
<1>4. Follows(o, q)
  <2> HIDE DEF q, begun, ended, what
  <2> QED
    BY <1>1, <1>3 DEF Follows
<1>5. ASSUME NEW y \in Executions
      PROVE  ExecutionNoticed(q, k, y)
  <2>1. ExecutionNoticed(o, k - 1, y)
    BY DEF Noticed
  <2>2. ToCome(k, y, "changed") <=> ToCome(k - 1, y, "changed")
    BY ToComeNext
  <2>3. q[<<y, "first_failure">>] = o[<<y, "first_failure">>] /\ \A v \in Verdicts : q[<<y, v>>] = o[<<y, v>>]
    BY <1>3, NoticeNames
  <2>4. VerdictOf(y) \in Verdicts
    BY NoticeNames
  <2> HIDE DEF q
  <2> QED
    BY <2>1, <2>2, <2>3, <2>4 DEF ExecutionNoticed
<1>6. ASSUME NEW j \in Incidents
      PROVE  IncidentNoticed(q, k, j)
  <2>1. IncidentNoticed(o, k - 1, j)
    BY DEF Noticed
  <2>2. CASE j # i
    <3>1. \A w : ToCome(k, j, w) <=> ToCome(k - 1, j, w)
      BY <2>2, ToComeNext
    <3>2. q[<<j, "opened">>] = o[<<j, "opened">>] /\ q[<<j, "resolved">>] = o[<<j, "resolved">>]
      BY <1>3, <2>2, NoticeNames
    <3> HIDE DEF q
    <3> QED
      BY <2>1, <3>1, <3>2 DEF IncidentNoticed
  <2>3. CASE j = i
    <3>1. \A w : ToCome(k - 1, i, w) <=> ToCome(k, i, w) \/ what = w
      BY ToComeNext
    <3>2. what # "opened" => ~ToCome(k, i, "opened") /\ ~ToCome(k - 1, i, "opened")
      <4>1. Len(events) \in Nat
        BY DEF EventsOK
      <4>2. what # "opened" => ~ToCome(k, i, "opened")
        BY <1>1, <4>1 DEF ToCome, EventsOK
      <4> QED
        BY <3>1, <4>2
    <3>3. /\ o[ended].status # "none" => incident[i] = "resolved"
          /\ incident[i] # "none" /\ ~ToCome(k - 1, i, "opened") => o[begun].status # "none"
          /\ incident[i] \in {"resolved", "closed"} /\ ~ToCome(k - 1, i, incident[i]) =>
               o[begun].status \notin {"none", "pending"} /\ (incident[i] = "resolved" => o[ended].status # "none")
      BY <2>1, <2>3 DEF IncidentNoticed
    <3> HIDE DEF q, i, what, begun, ended
    <3>4. q[ended].status # "none" => incident[i] = "resolved"
      BY <1>1, <1>3, <3>3
    <3>5. incident[i] # "none" /\ ~ToCome(k, i, "opened") => q[begun].status # "none"
      BY <1>1, <1>3, <3>1, <3>2, <3>3
    <3>6. ASSUME incident[i] \in {"resolved", "closed"}, ~ToCome(k, i, incident[i])
          PROVE  q[begun].status \notin {"none", "pending"} /\ (incident[i] = "resolved" => q[ended].status # "none")
      <4>1. CASE what = incident[i]
        <5>1. o[begun].status # "none"
          BY <1>1, <3>2, <3>3, <3>6, <4>1
        <5> QED
          BY <1>3, <3>6, <4>1, <5>1
      <4>2. CASE what # incident[i]
        <5>1. ~ToCome(k - 1, i, incident[i])
          BY <3>1, <3>6, <4>2
        <5> QED
          BY <1>1, <1>3, <3>3, <3>6, <4>2, <5>1
      <4> QED
        BY <4>1, <4>2
    <3>7. q[<<j, "opened">>] = q[begun] /\ q[<<j, "resolved">>] = q[ended]
      BY <2>3 DEF begun, ended
    <3> QED
      BY <2>3, <3>4, <3>5, <3>6, <3>7 DEF IncidentNoticed
  <2> QED
    BY <2>2, <2>3
<1> QED
  BY <1>3, <1>4, <1>5, <1>6 DEF Noticed

\* The rows after each of the first n events.
Chain(f, n) == f = [k \in 0 .. n |-> IF k = 0 THEN outbox ELSE OfEvent(f[k - 1], events[k])]

\* There are such rows, for each number of events.
LEMMA ChainExists == \A n \in Nat : \E f : Chain(f, n)
<1> DEFINE T == {n \in Nat : ~\E f : Chain(f, n)}
<1>1. SUFFICES ASSUME T # {}
               PROVE  FALSE
  OBVIOUS
<1>2. PICK n \in T : \A m \in T : n <= m
  <2>1. T \subseteq Nat
    OBVIOUS
  <2> HIDE DEF T
  <2> QED
    BY <1>1, <2>1, LeastNumber
<1>3. n # 0
  <2>1. Chain([k \in 0 .. 0 |-> outbox], 0)
    BY DEF Chain
  <2> QED
    BY <1>2, <2>1
<1>4. n - 1 \in Nat /\ n - 1 \notin T
  BY <1>2, <1>3
<1>5. PICK g : Chain(g, n - 1)
  BY <1>4
<1>6. Chain([k \in 0 .. n |-> IF k < n THEN g[k] ELSE OfEvent(g[n - 1], events[n])], n)
  BY <1>3, <1>4, <1>5 DEF Chain
<1> QED
  BY <1>2, <1>6

\* What materialize() reads has become rows, and they say what it tells.
LEMMA MaterializedIs ==
  ASSUME RowsOK(outbox), EventsOK, ReportsTyped, Noticed(outbox, 0)
  PROVE  /\ Reached \in 0 .. Len(events)
         /\ RowsOK(Materialized) /\ Follows(outbox, Materialized) /\ Noticed(Materialized, Reached)
<1>1. Reached \in 0 .. Len(events)
  <2>1. Len(events) \in Nat /\ Batch \in Nat
    BY OutboxAssumption DEF EventsOK
  <2> QED
    BY <2>1 DEF Reached, Lesser
<1> DEFINE after == CHOOSE f : Chain(f, Reached)
           Good(k) == RowsOK(after[k]) /\ Follows(outbox, after[k]) /\ Noticed(after[k], k)
           T == {k \in 0 .. Reached : ~Good(k)}
<1>2. Chain(after, Reached)
  BY <1>1, ChainExists
<1>3. Materialized = after[Reached]
  BY DEF Materialized, Chain
<1> HIDE DEF after
<1>4. after[0] = outbox /\ \A k \in 1 .. Reached : after[k] = OfEvent(after[k - 1], events[k])
  BY <1>1, <1>2 DEF Chain
<1>5. Good(0)
  BY <1>4 DEF Follows
<1>6. ASSUME NEW k \in 1 .. Reached, Good(k - 1)
      PROVE  Good(k)
  <2>1. k \in 1 .. Len(events)
    BY <1>1
  <2>2. RowsOK(after[k]) /\ Follows(after[k - 1], after[k]) /\ Noticed(after[k], k)
    BY <1>4, <1>6, <2>1, ExecutionEvent, IncidentEvent
  <2>3. Follows(outbox, after[k])
    BY <1>6, <2>2 DEF Follows
  <2> QED
    BY <2>2, <2>3
<1> HIDE DEF Good
<1>7. T = {}
  <2>1. SUFFICES ASSUME T # {}
                 PROVE  FALSE
    OBVIOUS
  <2>2. T \subseteq Nat
    BY <1>1
  <2>3. PICK k \in T : \A m \in T : k <= m
    BY <2>1, <2>2, LeastNumber
  <2>4. k \in 1 .. Reached /\ k - 1 \in 0 .. Reached /\ k - 1 \notin T
    BY <1>1, <1>5, <2>3
  <2> QED
    BY <1>6, <2>3, <2>4
<1>8. Good(Reached)
  BY <1>1, <1>7
<1> QED
  BY <1>1, <1>3, <1>8 DEF Good

\* The events that are left are those to come.
LEMMA CursorMoves ==
  ASSUME EventsOK, UNCHANGED <<execution, incident>>, NEW k \in 0 .. Len(events),
         events' = SubSeq(events, k + 1, Len(events)), Noticed(outbox', k)
  PROVE  EventsOK' /\ Noticed(outbox, 0)' /\ Len(events') <= Len(events)
<1> DEFINE E == [of : Executions \cup Incidents, what : {"changed", "opened", "resolved", "closed"}]
           size == Len(events)
<1>1. events \in Seq(E) /\ size \in Nat
  BY DEF EventsOK
<1>2. /\ events' \in Seq(E) /\ Len(events') = size - k
      /\ \A l \in 1 .. size - k : events'[l] = events[k + l] /\ k + l \in 1 .. size
  <2> HIDE DEF E
  <2> QED
    BY <1>1, SubSeqProperties
<1> HIDE DEF E
<1>3. EventsOK'
  <2>1. \A l \in 1 .. Len(events') : \A m \in 1 .. Len(events') : k + l < k + m => l < m
    BY <1>1, <1>2
  <2> HIDE DEF size
  <2> QED
    BY <1>2, <2>1 DEF EventsOK, E
<1>4. ASSUME NEW of, NEW what
      PROVE  ToCome(0, of, what)' <=> ToCome(k, of, what)
  <2>1. \A l \in k + 1 .. size : l - k \in 1 .. size - k /\ k + (l - k) = l
    BY <1>1
  <2>2. \A l \in 1 .. size - k : k + l \in k + 1 .. size
    BY <1>1
  <2>3. 0 + 1 .. Len(events') = 1 .. size - k
    BY <1>2
  <2>4. ToCome(k, of, what) => \E l \in 1 .. size - k : events'[l].of = of /\ events'[l].what = what
    <3>1. SUFFICES ASSUME NEW l \in k + 1 .. size, events[l].of = of, events[l].what = what
                   PROVE  \E m \in 1 .. size - k : events'[m].of = of /\ events'[m].what = what
      BY DEF ToCome, size
    <3>2. events'[l - k] = events[l] /\ l - k \in 1 .. size - k
      BY <1>2, <2>1
    <3> QED
      BY <3>1, <3>2
  <2>5. (\E l \in 1 .. size - k : events'[l].of = of /\ events'[l].what = what) => ToCome(k, of, what)
    BY <1>2, <2>2 DEF ToCome, size
  <2> QED
    BY <2>3, <2>4, <2>5 DEF ToCome
<1>5. Noticed(outbox, 0)'
  <2>1. \A x : VerdictOf(x)' = VerdictOf(x)
    BY DEF VerdictOf
  <2> QED
    BY <1>4, <2>1 DEF Noticed, ExecutionNoticed, IncidentNoticed
<1> QED
  BY <1>1, <1>2, <1>3, <1>5

-----------------------------------------------------------------------------
(* The delivery worker *)

\* A pass holds rows that are still to do; the first of them is under way.
FlushOK(o, f) ==
  \/ f = Idle
  \/ /\ QueueOK(o, f.left) /\ f.left # <<>> /\ f.sending = {f.left[1].notice}
     /\ o[f.left[1].notice].status \in {"pending", "superseded"}

\* SendsAccounted, of rows, a pass, requests and lost receipts.
SentOK(o, f, s, l) ==
  \A n \in Notices :
    s[n] <= o[n].attempts + l[n] + IF n \in f.sending \/ o[n].status = "superseded" THEN 1 ELSE 0

\* A pass records nothing and makes nothing pending.
Settles(o, q) ==
  \A n \in Notices :
    /\ q[n].status = "none" <=> o[n].status = "none"
    /\ q[n].status = "pending" => o[n].status = "pending"

\* What the rows tell stays so while a pass settles them.
LEMMA SettlingIsNoticed ==
  ASSUME NEW o, NEW q, NEW k, Settles(o, q), Noticed(o, k), \A n \in Notices : o[n].status = "pending" \/ o[n].status # "pending"
  PROVE  Noticed(q, k)
<1>1. ASSUME NEW x \in Executions
      PROVE  ExecutionNoticed(q, k, x)
  <2>1. ExecutionNoticed(o, k, x) /\ <<x, "first_failure">> \in Notices /\ VerdictOf(x) \in Verdicts
        /\ \A v \in Verdicts : <<x, v>> \in Notices
    BY NoticeNames DEF Noticed
  <2> QED
    BY <2>1 DEF ExecutionNoticed, Settles
<1>2. ASSUME NEW i \in Incidents
      PROVE  IncidentNoticed(q, k, i)
  <2>1. IncidentNoticed(o, k, i) /\ <<i, "opened">> \in Notices /\ <<i, "resolved">> \in Notices
    BY NoticeNames DEF Noticed
  <2> QED
    BY <2>1 DEF IncidentNoticed, Settles
<1> QED
  BY <1>1, <1>2 DEF Noticed

\* The loop passes over rows, settles them or begins to send one.
LEMMA ContinueIs ==
  ASSUME NEW o, RowsOK(o), NEW rows, QueueOK(o, rows), sends \in [Notices -> Nat], NEW l \in [Notices -> Nat],
         SentOK(o, Idle, sends, l), Continue(o, rows)
  PROVE  /\ RowsOK(outbox') /\ FlushOK(outbox', flush') /\ sends' \in [Notices -> Nat]
         /\ SentOK(outbox', flush', sends', l) /\ Settles(o, outbox')
         /\ \A n \in Notices : sends'[n] = sends[n] \/ o[n].status = "pending"
<1> DEFINE todo == IF service = "stopping" THEN <<>> ELSE rows
           I == {j \in 1 .. Len(todo) : Wanted(o, todo[j].notice)}
           at == SelectInSeq(todo, LAMBDA r : Wanted(o, r.notice))
           passed == IF at = 0 THEN 1 .. Len(todo) ELSE 1 .. (at - 1)
           next_ == IF at = 0 THEN {} ELSE {todo[at].notice}
           quiet == {n \in {todo[k].notice : k \in passed} : o[n].status = "pending"}
<1>1. QueueOK(o, todo) /\ Len(todo) \in Nat
  <2>1. QueueOK(o, <<>>)
    BY DEF QueueOK
  <2>2. QueueOK(o, todo)
    BY <2>1
  <2> QED
    BY <2>2 DEF QueueOK
<1>2. /\ outbox' = [n \in Notices |-> IF n \in quiet THEN Settled(o[n], "suppressed") ELSE o[n]]
      /\ flush' = IF at = 0 THEN Idle ELSE [left |-> SubSeq(todo, at, Len(todo)), sending |-> next_]
      /\ sends' = [n \in Notices |-> IF n \in next_ THEN sends[n] + 1 ELSE sends[n]]
  <2> DEFINE passing(t, a) == IF a = 0 THEN 1 .. Len(t) ELSE 1 .. (a - 1)
             begun(t, a) == IF a = 0 THEN {} ELSE {t[a].notice}
             silent(t, a) == {n \in {t[k].notice : k \in passing(t, a)} : o[n].status = "pending"}
             Body(t, a) ==
               /\ outbox' = [n \in Notices |-> IF n \in silent(t, a) THEN Settled(o[n], "suppressed") ELSE o[n]]
               /\ flush' = IF a = 0 THEN Idle ELSE [left |-> SubSeq(t, a, Len(t)), sending |-> begun(t, a)]
               /\ sends' = [n \in Notices |-> IF n \in begun(t, a) THEN sends[n] + 1 ELSE sends[n]]
  <2>1. Body(todo, at)
    <3>1. \E t \in {todo} : \E a \in {SelectInSeq(t, LAMBDA r : Wanted(o, r.notice))} : Body(t, a)
      BY DEF Continue
    <3> HIDE DEF Body
    <3> QED
      BY <3>1
  <2> QED
    BY <2>1
<1> HIDE DEF todo
<1>3. at = 0 \/ (at \in 1 .. Len(todo) /\ Wanted(o, todo[at].notice))
  <2>1. I \subseteq Nat
    BY <1>1
  <2>2. I # {} => Min(I) \in I
    <3> HIDE DEF I
    <3> QED
      BY <2>1, MinIsLeast
  <2>3. at = IF I # {} THEN Min(I) ELSE 0
    BY DEF SelectInSeq
  <2> HIDE DEF at
  <2> QED
    BY <2>2, <2>3
<1> HIDE DEF at
<1>4. \A k \in 1 .. Len(todo) : todo[k].notice \in Notices
  <2>1. \A k \in 1 .. Len(todo) : todo[k] \in ReadRow
    BY <1>1, ElementOfSeq DEF QueueOK
  <2> QED
    BY <2>1 DEF ReadRow
<1>5. quiet \subseteq Notices /\ (\A n \in quiet : o[n].status = "pending") /\ next_ \cap quiet = {}
      /\ next_ \subseteq {n \in Notices : o[n].status = "pending"}
  <2>1. passed \subseteq 1 .. Len(todo) /\ (at # 0 => at \notin passed)
    BY <1>1, <1>3
  <2>2. quiet \subseteq Notices
    BY <1>4, <2>1
  <2>3. at # 0 => todo[at].notice \notin {todo[k].notice : k \in passed}
    BY <1>1, <1>3, <2>1 DEF QueueOK
  <2>4. at # 0 => todo[at].notice \in Notices /\ o[todo[at].notice].status = "pending"
    BY <1>3, <1>4 DEF Wanted
  <2> HIDE DEF passed
  <2> QED
    BY <2>2, <2>3, <2>4
<1> HIDE DEF quiet
<1>6. \A n \in quiet : /\ Settled(o[n], "suppressed") \in Row /\ Settled(o[n], "suppressed").status = "suppressed"
                       /\ Settled(o[n], "suppressed").attempts = o[n].attempts
  <2>1. ASSUME NEW old \in Row
        PROVE  LET new == Settled(old, "suppressed") IN new \in Row /\ new.status = "suppressed" /\ new.attempts = old.attempts
    BY DEF Row, Settled, Statuses
  <2>2. \A n \in quiet : o[n] \in Row
    BY <1>5 DEF RowsOK
  <2> QED
    BY <2>1, <2>2
<1>7. \A n \in Notices : /\ outbox'[n] \in Row /\ outbox'[n].attempts = o[n].attempts
                         /\ n \in quiet => outbox'[n].status = "suppressed"
                         /\ n \notin quiet => outbox'[n] = o[n]
  BY <1>2, <1>6 DEF RowsOK
<1>8. RowsOK(outbox')
  <2>1. outbox' \in [Notices -> Row]
    BY <1>2, <1>7
  <2> QED
    BY <1>7, <2>1 DEF RowsOK
<1>9. Settles(o, outbox')
  BY <1>5, <1>7 DEF Settles
<1>10. sends' \in [Notices -> Nat] /\ \A n \in Notices : sends'[n] = sends[n] + IF n \in next_ THEN 1 ELSE 0
  <2> HIDE DEF next_
  <2> QED
    BY <1>2
<1>11. flush'.sending = next_ /\ FlushOK(outbox', flush')
  <2>1. CASE at = 0
    BY <1>2, <2>1 DEF FlushOK, Idle
  <2>2. CASE at # 0
    <3> DEFINE left == SubSeq(todo, at, Len(todo))
    <3>1. at \in 1 .. Len(todo) /\ todo \in Seq(ReadRow)
      BY <1>1, <1>3, <2>2 DEF QueueOK
    <3>2. flush' = [left |-> left, sending |-> next_] /\ next_ = {todo[at].notice}
      BY <1>2, <2>2
    <3>3. /\ left \in Seq(ReadRow) /\ Len(left) = Len(todo) - at + 1
          /\ \A k \in 1 .. Len(left) : left[k] = todo[at + k - 1] /\ at + k - 1 \in 1 .. Len(todo)
      BY <1>1, <3>1, SubSeqProperties, ElementOfSeq
    <3> HIDE DEF left
    <3>4. 1 \in 1 .. Len(left) /\ left[1] = todo[at] /\ left # <<>>
      BY <1>1, <3>1, <3>3
    <3>5. QueueOK(outbox', left)
      <4>1. \A j, k \in 1 .. Len(left) : j # k => left[j].notice # left[k].notice
        <5>1. ASSUME NEW j \in 1 .. Len(left), NEW k \in 1 .. Len(left), j # k
              PROVE  left[j].notice # left[k].notice
          <6>1. at + j - 1 # at + k - 1
            BY <3>1, <5>1
          <6>2. \A a, b \in 1 .. Len(todo) : a # b => todo[a].notice # todo[b].notice
            BY <1>1 DEF QueueOK
          <6> QED
            BY <3>3, <6>1, <6>2
        <5> QED
          BY <5>1
      <4>2. \A k \in 1 .. Len(left) : left[k].attempts = outbox'[left[k].notice].attempts
        <5>1. ASSUME NEW k \in 1 .. Len(left)
              PROVE  left[k].attempts = outbox'[left[k].notice].attempts
          <6>1. left[k].attempts = o[left[k].notice].attempts
            BY <1>1, <3>3 DEF QueueOK
          <6>2. left[k].notice \in Notices
            BY <1>4, <3>3
          <6> QED
            BY <1>7, <6>1, <6>2
        <5> QED
          BY <5>1
      <4> QED
        BY <3>3, <4>1, <4>2 DEF QueueOK
    <3>6. outbox'[left[1].notice].status = "pending"
      <4>1. left[1].notice \in next_ /\ left[1].notice \in Notices
        BY <1>4, <3>1, <3>2, <3>4
      <4>2. o[left[1].notice].status = "pending" /\ left[1].notice \notin quiet
        BY <1>5, <4>1
      <4> QED
        BY <1>7, <4>1, <4>2
    <3> QED
      BY <3>2, <3>4, <3>5, <3>6 DEF FlushOK
  <2> QED
    BY <2>1, <2>2
<1> HIDE DEF next_
<1>12. \A n \in Notices : sends'[n] = sends[n] \/ o[n].status = "pending"
  BY <1>5, <1>10
<1>13. SentOK(outbox', flush', sends', l)
  <2>1. SUFFICES ASSUME NEW n \in Notices
                 PROVE  sends'[n] <= outbox'[n].attempts + l[n] + IF n \in flush'.sending \/ outbox'[n].status = "superseded" THEN 1 ELSE 0
    BY DEF SentOK
  <2>2. /\ sends[n] \in Nat /\ o[n].attempts \in Nat /\ l[n] \in Nat /\ outbox'[n].attempts = o[n].attempts
        /\ sends[n] <= o[n].attempts + l[n] + IF o[n].status = "superseded" THEN 1 ELSE 0
    BY <1>7 DEF SentOK, Idle, RowsOK, Row
  <2>3. CASE n \in next_
    <3>1. o[n].status # "superseded"
      BY <1>5, <2>3
    <3> QED
      BY <1>10, <1>11, <2>2, <2>3, <3>1
  <2>4. CASE n \notin next_
    <3>1. o[n].status = "superseded" => outbox'[n].status = "superseded"
      BY <1>5, <1>7
    <3> QED
      BY <1>10, <1>11, <2>2, <2>4, <3>1
  <2> QED
    BY <2>3, <2>4
<1> QED
  BY <1>8, <1>9, <1>10, <1>11, <1>12, <1>13

-----------------------------------------------------------------------------
(* The inductive invariant of the outbox *)

\* What the outbox keeps: of every event it has not read yet the rows need say
\* nothing, and of the others they say what OutboxAgrees does.
OutboxInv ==
  /\ ReportsTyped /\ EventsOK
  /\ RowsOK(outbox) /\ Noticed(outbox, 0)
  /\ FlushOK(outbox, flush)
  /\ sends \in [Notices -> Nat] /\ lost \in [Notices -> Nat]
  /\ SentOK(outbox, flush, sends, lost)

\* The step that SettledStaysSettled allows.
KeepsSettled ==
  \A n \in Notices :
    outbox[n].status \notin {"none", "pending"} => outbox'[n].status \notin {"none", "pending"} /\ sends'[n] = sends[n]

\* Without a report and with the events as they are.
LEMMA SameReports ==
  ASSUME ReportsTyped, EventsOK, Noticed(outbox', 0), UNCHANGED <<execution, incident, events>>
  PROVE  (ReportsTyped /\ EventsOK /\ Noticed(outbox, 0))'
<1>1. ReportsTyped' /\ EventsOK'
  BY DEF ReportsTyped, EventsOK
<1>2. \A of, what : ToCome(0, of, what)' <=> ToCome(0, of, what)
  BY DEF ToCome
<1>3. \A x : VerdictOf(x)' = VerdictOf(x)
  BY DEF VerdictOf
<1>4. \A x \in Executions : ExecutionNoticed(outbox, 0, x)'
  BY <1>2, <1>3 DEF Noticed, ExecutionNoticed
<1>5. \A i \in Incidents : IncidentNoticed(outbox, 0, i)'
  BY <1>2 DEF Noticed, IncidentNoticed
<1> QED
  BY <1>1, <1>4, <1>5 DEF Noticed

\* The first rows of a queue are a queue.
LEMMA QueueIsCut ==
  ASSUME NEW o, NEW rows, QueueOK(o, rows), NEW k \in 0 .. Len(rows)
  PROVE  QueueOK(o, SubSeq(rows, 1, k))
<1> DEFINE q == SubSeq(rows, 1, k)
<1>1. rows \in Seq(ReadRow) /\ Len(rows) \in Nat
  BY DEF QueueOK
<1>2. q \in Seq(ReadRow) /\ Len(q) = k /\ \A j \in 1 .. k : q[j] = rows[j] /\ j \in 1 .. Len(rows)
  BY <1>1, SubSeqProperties
<1> HIDE DEF q
<1>3. QueueOK(o, q)
  BY <1>2 DEF QueueOK
<1> QED
  BY <1>3 DEF q

\* What one pass reads is a queue.
LEMMA DueIsRead ==
  ASSUME NEW o, RowsOK(o)
  PROVE  QueueOK(o, Due(o))
<1> DEFINE rows == Rows(o, {n \in Notices : o[n].status = "pending" /\ ~o[n].delayed})
<1>1. QueueOK(o, rows)
  <2>1. {n \in Notices : o[n].status = "pending" /\ ~o[n].delayed} \subseteq {n \in Notices : o[n].status = "pending"}
    OBVIOUS
  <2> QED
    BY <2>1, RowsAreRead
<1>2. Due(o) = SubSeq(rows, 1, Lesser(Limit, Len(rows)))
  BY DEF Due
<1> HIDE DEF rows
<1>3. Lesser(Limit, Len(rows)) \in 0 .. Len(rows)
  <2>1. Len(rows) \in Nat /\ Limit \in Nat
    BY <1>1, OutboxAssumption DEF QueueOK
  <2> QED
    BY <2>1 DEF Lesser
<1> QED
  BY <1>1, <1>2, <1>3, QueueIsCut

\* A pass goes through its rows, or through the first of them.
LEMMA PassIs ==
  ASSUME NEW o, NEW rows, QueueOK(o, rows), NEW broken, Pass(o, rows, broken)
  PROVE  \E done : QueueOK(o, done) /\ Continue(o, done)
<1>1. PICK done \in IF broken THEN BrokenOff(o, rows) ELSE {rows} : Continue(o, done)
  BY DEF Pass
<1>2. CASE done \in BrokenOff(o, rows)
  <2>1. PICK k \in 1 .. Len(rows) : done = SubSeq(rows, 1, k - 1)
    BY <1>2 DEF BrokenOff
  <2>2. k - 1 \in 0 .. Len(rows)
    BY <2>1
  <2>3. QueueOK(o, done)
    BY <2>1, <2>2, QueueIsCut
  <2> QED
    BY <1>1, <2>3
<1>3. CASE done = rows
  BY <1>1, <1>3
<1> QED
  BY <1>1, <1>2, <1>3

\* The events are read, and a pass begins where none is under way.
LEMMA PollStep ==
  ASSUME OutboxInv, NEW broken \in BOOLEAN, Polled(broken)
  PROVE  OutboxInv' /\ KeepsSettled
<1> DEFINE o == Materialized
<1>1. /\ UNCHANGED <<execution, incident, lost>> /\ events' = SubSeq(events, Reached + 1, Len(events))
      /\ IF flush = Idle THEN Pass(o, Due(o), broken) ELSE outbox' = o /\ UNCHANGED <<flush, sends>>
  BY DEF Polled
<1>2. /\ Reached \in 0 .. Len(events)
      /\ RowsOK(o) /\ Follows(outbox, o) /\ Noticed(o, Reached)
  BY MaterializedIs DEF OutboxInv
<1> HIDE DEF o
<1>3. \A n \in Notices : sends[n] \in Nat /\ outbox[n].attempts \in Nat /\ o[n].attempts = outbox[n].attempts
                         /\ (outbox[n].status = "superseded" => o[n].status = "superseded")
                         /\ (outbox[n].status \notin {"none", "pending"} => o[n].status \notin {"none", "pending"})
  BY <1>2 DEF OutboxInv, RowsOK, Row, Follows
<1>4. SentOK(o, flush, sends, lost)
  BY <1>3 DEF OutboxInv, SentOK
<1>5. ReportsTyped'
  BY <1>1 DEF OutboxInv, ReportsTyped
<1>6. CASE flush = Idle
  <2>1. PICK rows : QueueOK(o, rows) /\ Continue(o, rows)
    <3>1. QueueOK(o, Due(o))
      BY <1>2, DueIsRead
    <3>2. Pass(o, Due(o), broken)
      BY <1>1, <1>6
    <3> QED
      BY <3>1, <3>2, PassIs
  <2>2. SentOK(o, Idle, sends, lost) /\ Continue(o, rows)
    BY <1>4, <1>6, <2>1
  <2>3. sends \in [Notices -> Nat] /\ lost \in [Notices -> Nat]
    BY DEF OutboxInv
  <2>4. /\ RowsOK(outbox') /\ FlushOK(outbox', flush') /\ sends' \in [Notices -> Nat]
        /\ SentOK(outbox', flush', sends', lost) /\ Settles(o, outbox')
        /\ \A n \in Notices : sends'[n] = sends[n] \/ o[n].status = "pending"
    BY <1>2, <2>1, <2>2, <2>3, ContinueIs
  <2>5. Noticed(outbox', Reached)
    BY <1>2, <2>4, SettlingIsNoticed
  <2>6. EventsOK' /\ Noticed(outbox, 0)'
    BY <1>1, <1>2, <2>5, CursorMoves DEF OutboxInv
  <2>7. KeepsSettled
    BY <1>3, <2>4 DEF KeepsSettled, Settles
  <2>8. (RowsOK(outbox) /\ FlushOK(outbox, flush) /\ SentOK(outbox, flush, sends, lost))'
    BY <1>1, <2>4 DEF RowsOK, FlushOK, SentOK, QueueOK
  <2> QED
    BY <1>1, <1>5, <2>3, <2>4, <2>6, <2>7, <2>8 DEF OutboxInv
<1>7. CASE flush # Idle
  <2>1. outbox' = o /\ UNCHANGED <<flush, sends>>
    BY <1>1, <1>7
  <2>2. EventsOK' /\ Noticed(outbox, 0)'
    BY <1>1, <1>2, <2>1, CursorMoves DEF OutboxInv
  <2>3. FlushOK(o, flush)
    <3>1. /\ QueueOK(outbox, flush.left) /\ flush.left # <<>> /\ flush.sending = {flush.left[1].notice}
          /\ outbox[flush.left[1].notice].status \in {"pending", "superseded"}
      BY <1>7 DEF OutboxInv, FlushOK
    <3>2. \A k \in 1 .. Len(flush.left) : flush.left[k].notice \in Notices
      <4>1. \A k \in 1 .. Len(flush.left) : flush.left[k] \in ReadRow
        BY <3>1, ElementOfSeq DEF QueueOK
      <4> QED
        BY <4>1 DEF ReadRow
    <3>3. 1 \in 1 .. Len(flush.left)
      BY <3>1 DEF QueueOK
    <3>4. QueueOK(o, flush.left)
      BY <1>3, <3>1, <3>2 DEF QueueOK
    <3>5. o[flush.left[1].notice].status \in {"pending", "superseded"}
      BY <1>2, <3>1, <3>2, <3>3 DEF Follows
    <3> QED
      BY <3>1, <3>4, <3>5 DEF FlushOK
  <2>4. KeepsSettled
    BY <1>3, <2>1 DEF KeepsSettled
  <2>5. (RowsOK(outbox) /\ FlushOK(outbox, flush) /\ SentOK(outbox, flush, sends, lost))'
    BY <1>1, <1>2, <1>4, <2>1, <2>3 DEF RowsOK, FlushOK, SentOK, QueueOK
  <2> QED
    BY <1>1, <1>5, <2>1, <2>2, <2>4, <2>5 DEF OutboxInv
<1> QED
  BY <1>6, <1>7

\* What an answer makes of the row that was sent.
LEMMA AnswerIs ==
  ASSUME OutboxInv, flush # Idle, NEW o \in {Delivered(outbox, Head(flush.left)), Refused(outbox, Head(flush.left))}
  PROVE  /\ RowsOK(o) /\ QueueOK(o, Tail(flush.left)) /\ SentOK(o, Idle, sends, lost) /\ Settles(outbox, o)
<1> DEFINE r == flush.left[1]
           n == r.notice
<1>1. /\ flush.left \in Seq(ReadRow) /\ flush.left # <<>> /\ flush.sending = {n}
      /\ QueueOK(outbox, flush.left) /\ outbox[n].status \in {"pending", "superseded"}
  BY DEF OutboxInv, FlushOK, QueueOK
<1>2. /\ 1 \in 1 .. Len(flush.left) /\ Head(flush.left) = r /\ Len(flush.left) \in Nat
      /\ \A k \in 1 .. Len(flush.left) : flush.left[k].notice \in Notices
  <2>1. \A k \in 1 .. Len(flush.left) : flush.left[k] \in ReadRow
    BY <1>1, ElementOfSeq
  <2>2. Head(flush.left) = flush.left[1] /\ 1 \in 1 .. Len(flush.left) /\ Len(flush.left) \in Nat
    BY <1>1
  <2> QED
    BY <2>1, <2>2 DEF ReadRow
<1>3. /\ n \in Notices /\ outbox[n] \in Row /\ outbox[n].attempts \in Nat /\ outbox[n].attempts < Attempts
      /\ r.attempts = outbox[n].attempts
  <2>1. n \in Notices /\ r.attempts = outbox[n].attempts
    BY <1>1, <1>2 DEF QueueOK
  <2>2. RowsOK(outbox)
    BY DEF OutboxInv
  <2> HIDE DEF n, r
  <2>3. outbox[n] \in Row /\ outbox[n].attempts \in Nat /\ outbox[n].attempts < Attempts
    BY <1>1, <2>1, <2>2 DEF RowsOK, Row
  <2> QED
    BY <2>1, <2>3
<1> HIDE DEF r, n
<1>4. \E row \in Row :
        /\ o = [outbox EXCEPT ![n] = row]
        /\ row.status \in {"none", "pending", "superseded"} => row.attempts < Attempts
        /\ row.status = "pending" => outbox[n].status = "pending" /\ row.rowid = outbox[n].rowid
        /\ row.status # "none"
        /\ row.attempts = outbox[n].attempts + 1 \/ (row.attempts = outbox[n].attempts /\ row.status = "superseded")
  <2>1. CASE o = Delivered(outbox, r)
    <3>1. ASSUME NEW old \in Row, old.attempts < Attempts
          PROVE  LET new == [Settled(old, "delivered") EXCEPT !.attempts = @ + 1]
                 IN new \in Row /\ new.status = "delivered" /\ new.attempts = old.attempts + 1
      <4> DEFINE s == Settled(old, "delivered")
      <4>1. s \in Row /\ s.status = "delivered" /\ s.attempts = old.attempts
        BY DEF Row, Settled, Statuses
      <4> HIDE DEF s
      <4>2. s.attempts + 1 \in 0 .. Attempts
        <5>1. Attempts \in Nat /\ old.attempts \in 0 .. Attempts
          BY OutboxAssumption DEF Row
        <5> QED
          BY <3>1, <4>1, <5>1
      <4>3. ASSUME NEW k \in 0 .. Attempts
            PROVE  LET new == [s EXCEPT !.attempts = k]
                   IN new \in Row /\ new.status = "delivered" /\ new.attempts = k
        BY <4>1 DEF Row
      <4>4. LET new == [s EXCEPT !.attempts = s.attempts + 1]
            IN new \in Row /\ new.status = "delivered" /\ new.attempts = old.attempts + 1
        BY <4>1, <4>2, <4>3
      <4> QED
        BY <4>4 DEF s
    <3>2. o = [outbox EXCEPT ![n] = [Settled(outbox[n], "delivered") EXCEPT !.attempts = @ + 1]]
      <4>1. r.notice = n
        BY DEF n
      <4> QED
        BY <2>1, <4>1, Zenon DEF Delivered
    <3> QED
      BY <1>3, <3>1, <3>2
  <2>2. CASE o = outbox /\ outbox[n].status # "pending"
    <3>1. o = [outbox EXCEPT ![n] = outbox[n]] /\ outbox[n].status = "superseded"
      BY <1>1, <2>2 DEF OutboxInv, RowsOK
    <3> QED
      BY <1>3, <3>1
  <2>3. CASE o = Retried(outbox, r, Attempts) /\ outbox[n].status = "pending"
    <3>1. Attempts \in Nat
      BY OutboxAssumption
    <3>2. CASE r.attempts + 1 >= Attempts
      <4>1. ASSUME NEW old \in Row, NEW k \in 0 .. Attempts
            PROVE  LET new == [Settled(old, "exhausted") EXCEPT !.attempts = k]
                   IN new \in Row /\ new.status = "exhausted" /\ new.attempts = k
        BY DEF Row, Settled, Statuses
      <4>2. o = [outbox EXCEPT ![n] = [Settled(outbox[n], "exhausted") EXCEPT !.attempts = outbox[n].attempts + 1]]
        <5>1. r.notice = n
          BY DEF n
        <5> QED
          BY <1>3, <2>3, <3>2, <5>1 DEF Retried
      <4>3. outbox[n] \in Row /\ outbox[n].attempts + 1 \in 0 .. Attempts
        BY <1>3, <3>1
      <4> DEFINE new == [Settled(outbox[n], "exhausted") EXCEPT !.attempts = outbox[n].attempts + 1]
      <4>4. new \in Row /\ new.status = "exhausted" /\ new.attempts = outbox[n].attempts + 1
        BY <4>1, <4>3
      <4>5. o = [outbox EXCEPT ![n] = new]
        BY <4>2
      <4> HIDE DEF new
      <4> QED
        BY <4>4, <4>5
    <3>3. CASE ~(r.attempts + 1 >= Attempts)
      <4>1. ASSUME NEW old \in Row, NEW k \in 0 .. Attempts
            PROVE  LET new == [old EXCEPT !.status = "pending", !.attempts = k, !.delayed = TRUE]
                   IN new \in Row /\ new.status = "pending" /\ new.attempts = k /\ new.rowid = old.rowid
        BY DEF Row, Statuses
      <4>2. o = [outbox EXCEPT ![n] = [outbox[n] EXCEPT !.status = "pending", !.attempts = outbox[n].attempts + 1, !.delayed = TRUE]]
        <5>1. r.notice = n
          BY DEF n
        <5> QED
          BY <1>3, <2>3, <3>3, <5>1 DEF Retried
      <4>3. outbox[n].attempts + 1 \in 0 .. Attempts /\ outbox[n].attempts + 1 < Attempts
        BY <1>3, <3>1, <3>3
      <4> DEFINE new == [outbox[n] EXCEPT !.status = "pending", !.attempts = outbox[n].attempts + 1, !.delayed = TRUE]
      <4>4. new \in Row /\ new.status = "pending" /\ new.attempts = outbox[n].attempts + 1 /\ new.rowid = outbox[n].rowid
        BY <1>3, <4>1, <4>3
      <4>5. o = [outbox EXCEPT ![n] = new]
        BY <4>2
      <4> HIDE DEF new
      <4> QED
        BY <2>3, <4>3, <4>4, <4>5
    <3> QED
      BY <3>2, <3>3
  <2> QED
    BY <1>2, <2>1, <2>2, <2>3 DEF Refused, n
<1>5. PICK row \in Row :
        /\ o = [outbox EXCEPT ![n] = row]
        /\ row.status \in {"none", "pending", "superseded"} => row.attempts < Attempts
        /\ row.status = "pending" => outbox[n].status = "pending" /\ row.rowid = outbox[n].rowid
        /\ row.status # "none"
        /\ row.attempts = outbox[n].attempts + 1 \/ (row.attempts = outbox[n].attempts /\ row.status = "superseded")
  BY <1>4
<1>6. o \in [Notices -> Row] /\ o[n] = row /\ \A m \in Notices \ {n} : o[m] = outbox[m]
  BY <1>3, <1>5 DEF OutboxInv, RowsOK
<1>7. RowsOK(o)
  BY <1>3, <1>5, <1>6 DEF OutboxInv, RowsOK
<1>8. Settles(outbox, o)
  BY <1>1, <1>5, <1>6 DEF Settles
<1>9. SentOK(o, Idle, sends, lost)
  <2>1. SUFFICES ASSUME NEW m \in Notices
                 PROVE  sends[m] <= o[m].attempts + lost[m] + IF m \in Idle.sending \/ o[m].status = "superseded" THEN 1 ELSE 0
    BY DEF SentOK
  <2>2. /\ sends[m] \in Nat /\ outbox[m].attempts \in Nat /\ lost[m] \in Nat
        /\ sends[m] <= outbox[m].attempts + lost[m] + IF m = n \/ outbox[m].status = "superseded" THEN 1 ELSE 0
    BY <1>1 DEF OutboxInv, SentOK, RowsOK, Row
  <2>3. CASE m = n
    BY <1>5, <1>6, <2>2, <2>3
  <2>4. CASE m # n
    BY <1>6, <2>2, <2>4
  <2> QED
    BY <2>3, <2>4
<1>10. QueueOK(o, Tail(flush.left))
  <2> DEFINE rest == Tail(flush.left)
  <2>1. /\ rest \in Seq(ReadRow) /\ Len(rest) = Len(flush.left) - 1
        /\ \A k \in 1 .. Len(rest) : rest[k] = flush.left[k + 1] /\ k + 1 \in 1 .. Len(flush.left) /\ k + 1 # 1
    BY <1>1, <1>2, HeadTailProperties
  <2> HIDE DEF rest
  <2>2. \A k \in 1 .. Len(rest) : rest[k].notice \in Notices \ {n} /\ rest[k].attempts = outbox[rest[k].notice].attempts
    BY <1>1, <1>2, <2>1 DEF QueueOK, n, r
  <2>3. \A j, k \in 1 .. Len(rest) : j # k => rest[j].notice # rest[k].notice
    <3>1. \A j, k \in 1 .. Len(rest) : j # k => j + 1 # k + 1
      BY <1>2, <2>1
    <3>2. \A j, k \in 1 .. Len(flush.left) : j # k => flush.left[j].notice # flush.left[k].notice
      BY <1>1 DEF QueueOK
    <3> QED
      BY <2>1, <3>1, <3>2
  <2>4. \A k \in 1 .. Len(rest) : rest[k].attempts = o[rest[k].notice].attempts
    BY <1>6, <2>2
  <2>5. QueueOK(o, rest)
    BY <2>1, <2>3, <2>4 DEF QueueOK
  <2> QED
    BY <2>5 DEF rest
<1> QED
  BY <1>7, <1>8, <1>9, <1>10

\* The provider answers or does not.
LEMMA AnswerStep ==
  ASSUME OutboxInv, NEW broken \in BOOLEAN, Answered(broken)
  PROVE  OutboxInv' /\ KeepsSettled
<1>1. /\ flush # Idle /\ UNCHANGED <<execution, incident, events, lost>>
      /\ \E o \in {Delivered(outbox, Head(flush.left)), Refused(outbox, Head(flush.left))} : Pass(o, Tail(flush.left), broken)
  BY DEF Answered
<1>2. PICK o \in {Delivered(outbox, Head(flush.left)), Refused(outbox, Head(flush.left))} : Pass(o, Tail(flush.left), broken)
  BY <1>1
<1>3. RowsOK(o) /\ QueueOK(o, Tail(flush.left)) /\ SentOK(o, Idle, sends, lost) /\ Settles(outbox, o)
  BY <1>1, AnswerIs
<1>4. sends \in [Notices -> Nat] /\ lost \in [Notices -> Nat] /\ Noticed(outbox, 0) /\ EventsOK /\ ReportsTyped
  BY DEF OutboxInv
<1>5. PICK rows : QueueOK(o, rows) /\ Continue(o, rows)
  BY <1>2, <1>3, PassIs
<1>6. /\ RowsOK(outbox') /\ FlushOK(outbox', flush') /\ sends' \in [Notices -> Nat]
      /\ SentOK(outbox', flush', sends', lost) /\ Settles(o, outbox')
      /\ \A n \in Notices : sends'[n] = sends[n] \/ o[n].status = "pending"
  BY ONLY <1>3, <1>4, <1>5, ContinueIs
<1>7. Settles(outbox, outbox')
  BY <1>3, <1>6 DEF Settles
<1>8. Noticed(outbox', 0)
  BY <1>4, <1>7, SettlingIsNoticed
<1>9. (ReportsTyped /\ EventsOK /\ Noticed(outbox, 0))'
  BY <1>1, <1>4, <1>8, SameReports
<1>10. (RowsOK(outbox) /\ FlushOK(outbox, flush) /\ SentOK(outbox, flush, sends, lost))'
  BY <1>1, <1>6 DEF RowsOK, FlushOK, SentOK, QueueOK
<1>11. KeepsSettled
  BY <1>3, <1>6 DEF KeepsSettled, Settles
<1> QED
  BY <1>1, <1>4, <1>6, <1>9, <1>10, <1>11 DEF OutboxInv

\* The answer leaves no receipt, by a crash or as its writes fail: the row stays
\* as it is, and the pass ends.
LEMMA ReceiptLostStep ==
  ASSUME OutboxInv, ReceiptLost \/ Crash
  PROVE  OutboxInv' /\ KeepsSettled
<1>1. /\ UNCHANGED <<execution, incident, events, outbox, sends>> /\ flush' = Idle
      /\ lost' = [n \in Notices |-> IF n \in flush.sending THEN lost[n] + 1 ELSE lost[n]]
  BY DEF ReceiptLost, Crash, LoseReceipt
<1>2. lost' \in [Notices -> Nat] /\ \A n \in Notices : lost'[n] = lost[n] + IF n \in flush.sending THEN 1 ELSE 0
  BY <1>1 DEF OutboxInv
<1>3. SentOK(outbox, Idle, sends, lost')
  <2>1. SUFFICES ASSUME NEW n \in Notices
                 PROVE  sends[n] <= outbox[n].attempts + lost'[n] + IF n \in Idle.sending \/ outbox[n].status = "superseded" THEN 1 ELSE 0
    BY DEF SentOK
  <2>2. /\ sends[n] \in Nat /\ outbox[n].attempts \in Nat /\ lost[n] \in Nat
        /\ sends[n] <= outbox[n].attempts + lost[n] + IF n \in flush.sending \/ outbox[n].status = "superseded" THEN 1 ELSE 0
    BY DEF OutboxInv, SentOK, RowsOK, Row
  <2> QED
    BY <1>2, <2>2
<1>4. (RowsOK(outbox) /\ FlushOK(outbox, flush) /\ SentOK(outbox, flush, sends, lost))' /\ KeepsSettled
  BY <1>1, <1>3 DEF OutboxInv, RowsOK, FlushOK, SentOK, KeepsSettled
<1> QED
  BY <1>1, <1>2, <1>4, SameReports DEF OutboxInv

\* An event is added.
LEMMA EventIsAdded ==
  ASSUME EventsOK, NEW e \in [of : Executions \cup Incidents, what : {"changed", "opened", "resolved", "closed"}],
         events' = Append(events, e)
  PROVE  /\ events' \in Seq([of : Executions \cup Incidents, what : {"changed", "opened", "resolved", "closed"}])
         /\ Len(events') = Len(events) + 1 /\ events'[Len(events) + 1] = e
         /\ \A k \in 1 .. Len(events) : events'[k] = events[k]
         /\ \A of, what : ToCome(0, of, what)' <=> ToCome(0, of, what) \/ (e.of = of /\ e.what = what)
<1> DEFINE E == [of : Executions \cup Incidents, what : {"changed", "opened", "resolved", "closed"}]
<1>1. events \in Seq(E) /\ e \in E /\ Len(events) \in Nat
  BY DEF EventsOK
<1> HIDE DEF E
<1>2. /\ events' \in Seq(E) /\ Len(events') = Len(events) + 1 /\ events'[Len(events) + 1] = e
      /\ \A k \in 1 .. Len(events) : events'[k] = events[k]
  BY <1>1
<1>3. 0 + 1 .. Len(events') = (0 + 1 .. Len(events)) \cup {Len(events) + 1}
  BY <1>1, <1>2
<1>4. ASSUME NEW of, NEW what
      PROVE  ToCome(0, of, what)' <=> ToCome(0, of, what) \/ (e.of = of /\ e.what = what)
  BY <1>2, <1>3 DEF ToCome
<1> QED
  BY <1>2, <1>4 DEF E

\* An execution changes, and an event tells it.
LEMMA ProgressStep ==
  ASSUME OutboxInv, NEW x \in Executions, Progress(x)
  PROVE  OutboxInv' /\ KeepsSettled
<1> DEFINE e == [of |-> x, what |-> "changed"]
<1>1. /\ UNCHANGED <<incident, outbox, flush, sends, lost>> /\ events' = Append(events, e)
      /\ \E s \in {"failing"} \cup Ended : execution' = [execution EXCEPT ![x] = s]
      /\ execution[x] \in {"quiet", "failing"}
  BY DEF Progress, Ended, OutboxInv, ReportsTyped
<1>2. ReportsTyped /\ EventsOK /\ Noticed(outbox, 0) /\ e.of = x /\ e.what = "changed"
  BY DEF OutboxInv
<1>3. e \in [of : Executions \cup Incidents, what : {"changed", "opened", "resolved", "closed"}]
  OBVIOUS
<1> HIDE DEF e
<1>4. /\ events' \in Seq([of : Executions \cup Incidents, what : {"changed", "opened", "resolved", "closed"}])
      /\ Len(events') = Len(events) + 1 /\ events'[Len(events) + 1] = e
      /\ \A k \in 1 .. Len(events) : events'[k] = events[k]
      /\ \A of, what : ToCome(0, of, what)' <=> ToCome(0, of, what) \/ (e.of = of /\ e.what = what)
  BY <1>1, <1>2, <1>3, EventIsAdded
<1>5. ReportsTyped' /\ \A y \in Executions \ {x} : execution'[y] = execution[y]
  BY <1>1, <1>2 DEF ReportsTyped
<1>6. 1 .. Len(events') = 1 .. Len(events) \cup {Len(events) + 1} /\ Len(events) \in Nat
  BY <1>2, <1>4 DEF EventsOK
<1>7. EventsOK'
  <2>1. \A k \in 1 .. Len(events') :
          \/ k \in 1 .. Len(events) /\ events'[k] = events[k]
          \/ events'[k].what = "changed" /\ events'[k].of \in Executions
    BY <1>2, <1>4, <1>6
  <2> QED
    BY <1>1, <1>2, <1>4, <2>1 DEF EventsOK
<1>8. ASSUME NEW y \in Executions
      PROVE  ExecutionNoticed(outbox, 0, y)'
  <2>1. ExecutionNoticed(outbox, 0, y)
    BY <1>2 DEF Noticed
  <2>2. CASE y = x
    <3>1. ToCome(0, x, "changed")'
      BY <1>2, <1>4
    <3>2. \A v \in Verdicts : outbox[<<x, v>>].status = "none"
      BY <1>1, <2>1, <2>2 DEF ExecutionNoticed, Ended
    <3> QED
      BY <1>1, <2>2, <3>1, <3>2 DEF ExecutionNoticed
  <2>3. CASE y # x
    <3>1. ToCome(0, y, "changed")' <=> ToCome(0, y, "changed")
      BY <1>2, <1>4, <2>3
    <3>2. VerdictOf(y)' = VerdictOf(y) /\ execution'[y] = execution[y]
      BY <1>5, <2>3 DEF VerdictOf
    <3> QED
      BY <1>1, <2>1, <3>1, <3>2 DEF ExecutionNoticed
  <2> QED
    BY <2>2, <2>3
<1>9. ASSUME NEW i \in Incidents
      PROVE  IncidentNoticed(outbox, 0, i)'
  <2>1. IncidentNoticed(outbox, 0, i)
    BY <1>2 DEF Noticed
  <2>2. \A w \in {"opened", "resolved", "closed"} : ToCome(0, i, w)' <=> ToCome(0, i, w)
    BY <1>2, <1>4
  <2> QED
    BY <1>1, <2>1, <2>2 DEF IncidentNoticed
<1>10. (RowsOK(outbox) /\ FlushOK(outbox, flush) /\ SentOK(outbox, flush, sends, lost))' /\ KeepsSettled
  BY <1>1 DEF OutboxInv, RowsOK, FlushOK, SentOK, QueueOK, KeepsSettled
<1> QED
  BY <1>1, <1>5, <1>7, <1>8, <1>9, <1>10 DEF OutboxInv, Noticed

\* An incident is opened or ends, and an event tells it.
LEMMA JudgeStep ==
  ASSUME OutboxInv, NEW i \in Incidents, Judge(i)
  PROVE  OutboxInv' /\ KeepsSettled
<1>1. PICK s \in {"open", "resolved", "closed"} :
        /\ incident' = [incident EXCEPT ![i] = s]
        /\ events' = Append(events, [of |-> i, what |-> IF s = "open" THEN "opened" ELSE s])
        /\ incident[i] = IF s = "open" THEN "none" ELSE "open"
  BY DEF Judge
<1> DEFINE e == [of |-> i, what |-> IF s = "open" THEN "opened" ELSE s]
<1>2. UNCHANGED <<execution, outbox, flush, sends, lost>>
  BY DEF Judge
<1>3. /\ ReportsTyped /\ EventsOK /\ Noticed(outbox, 0)
      /\ e.of = i /\ e.what = IF s = "open" THEN "opened" ELSE s
  BY DEF OutboxInv
<1>4. e \in [of : Executions \cup Incidents, what : {"changed", "opened", "resolved", "closed"}]
  OBVIOUS
<1>5. events' = Append(events, e)
  BY <1>1
<1> HIDE DEF e
<1>6. /\ events' \in Seq([of : Executions \cup Incidents, what : {"changed", "opened", "resolved", "closed"}])
      /\ Len(events') = Len(events) + 1 /\ events'[Len(events) + 1] = e
      /\ \A k \in 1 .. Len(events) : events'[k] = events[k]
      /\ \A of, what : ToCome(0, of, what)' <=> ToCome(0, of, what) \/ (e.of = of /\ e.what = what)
  BY <1>3, <1>4, <1>5, EventIsAdded
<1>7. ReportsTyped' /\ incident'[i] = s /\ \A j \in Incidents \ {i} : incident'[j] = incident[j]
  BY <1>1, <1>2, <1>3 DEF ReportsTyped
<1>8. 1 .. Len(events') = 1 .. Len(events) \cup {Len(events) + 1} /\ Len(events) \in Nat
  BY <1>3, <1>6 DEF EventsOK
<1>9. \A k \in 1 .. Len(events) :
        /\ events[k].what = "opened" /\ events[k].of = i => s # "open"
        /\ ~(events[k].what \in {"resolved", "closed"} /\ events[k].of = i)
  BY <1>1, <1>3 DEF EventsOK
<1>10. EventsOK'
  <2>1. \A k \in 1 .. Len(events') : k \in 1 .. Len(events) \/ k = Len(events) + 1
    BY <1>8
  <2>2. ASSUME NEW k \in 1 .. Len(events')
        PROVE  /\ events'[k].what = "changed" => events'[k].of \in Executions
               /\ events'[k].what # "changed" => events'[k].of \in Incidents
               /\ events'[k].what = "opened" => incident'[events'[k].of] # "none"
               /\ events'[k].what \in {"resolved", "closed"} => incident'[events'[k].of] = events'[k].what
    <3>1. CASE k = Len(events) + 1
      <4>1. events'[k].of = i /\ events'[k].what = IF s = "open" THEN "opened" ELSE s
        BY <1>3, <1>6, <3>1
      <4> QED
        BY <1>7, <4>1
    <3>2. CASE k \in 1 .. Len(events)
      <4>1. events'[k] = events[k]
        BY <1>6, <3>2
      <4>2. /\ events[k].what = "changed" => events[k].of \in Executions
            /\ events[k].what # "changed" => events[k].of \in Incidents
            /\ events[k].what = "opened" => incident[events[k].of] # "none"
            /\ events[k].what \in {"resolved", "closed"} => incident[events[k].of] = events[k].what
        BY <1>3, <3>2 DEF EventsOK
      <4> QED
        BY <1>7, <1>9, <3>2, <4>1, <4>2
    <3> QED
      BY <2>1, <3>1, <3>2
  <2>3. ASSUME NEW k \in 1 .. Len(events'), NEW l \in 1 .. Len(events'),
               events'[k].what = "opened", events'[l].what \in {"resolved", "closed"}, events'[k].of = events'[l].of
        PROVE  k < l
    <3>1. CASE l = Len(events) + 1
      <4>1. k # l
        BY <2>3
      <4> QED
        BY <1>8, <2>1, <3>1, <4>1
    <3>2. CASE l \in 1 .. Len(events) /\ k = Len(events) + 1
      BY <1>3, <1>6, <1>9, <2>3, <3>2
    <3>3. CASE l \in 1 .. Len(events) /\ k \in 1 .. Len(events)
      BY <1>3, <1>6, <2>3, <3>3 DEF EventsOK
    <3> QED
      BY <2>1, <3>1, <3>2, <3>3
  <2> QED
    BY <1>6, <2>2, <2>3 DEF EventsOK
<1>11. ASSUME NEW x \in Executions
       PROVE  ExecutionNoticed(outbox, 0, x)'
  <2>1. ExecutionNoticed(outbox, 0, x)
    BY <1>3 DEF Noticed
  <2>2. ToCome(0, x, "changed")' <=> ToCome(0, x, "changed")
    BY <1>3, <1>6
  <2>3. VerdictOf(x)' = VerdictOf(x)
    BY <1>2 DEF VerdictOf
  <2> QED
    BY <1>2, <2>1, <2>2, <2>3 DEF ExecutionNoticed
<1>12. ASSUME NEW j \in Incidents
       PROVE  IncidentNoticed(outbox, 0, j)'
  <2>1. IncidentNoticed(outbox, 0, j)
    BY <1>3 DEF Noticed
  <2>2. CASE j # i
    <3>1. \A w : ToCome(0, j, w)' <=> ToCome(0, j, w)
      BY <1>3, <1>6, <2>2
    <3> QED
      BY <1>2, <1>7, <2>1, <2>2, <3>1 DEF IncidentNoticed
  <2>3. CASE j = i
    <3>1. \A w : ToCome(0, i, w)' <=> ToCome(0, i, w) \/ e.what = w
      BY <1>3, <1>6
    <3>2. outbox[<<i, "resolved">>].status = "none"
      BY <1>1, <2>1, <2>3 DEF IncidentNoticed
    <3>3. ~ToCome(0, i, "opened")' => outbox[<<i, "opened">>].status # "none"
      BY <1>1, <1>3, <2>1, <2>3, <3>1 DEF IncidentNoticed
    <3>4. s \in {"resolved", "closed"} => ToCome(0, i, s)'
      BY <1>3, <3>1
    <3> QED
      BY <1>2, <1>7, <2>3, <3>2, <3>3, <3>4 DEF IncidentNoticed
  <2> QED
    BY <2>2, <2>3
<1>13. (RowsOK(outbox) /\ FlushOK(outbox, flush) /\ SentOK(outbox, flush, sends, lost))' /\ KeepsSettled
  BY <1>2 DEF OutboxInv, RowsOK, FlushOK, SentOK, QueueOK, KeepsSettled
<1> QED
  BY <1>2, <1>7, <1>10, <1>11, <1>12, <1>13 DEF OutboxInv, Noticed

\* The clock, the settings and the process itself.
LEMMA OtherSteps ==
  ASSUME OutboxInv,
         \/ Stop \/ Exit \/ Start
         \/ \E n \in Notices : BackoffElapses(n)
         \/ \E kind \in Muteable : Mute(kind)
  PROVE  OutboxInv' /\ KeepsSettled
<1>1. UNCHANGED <<execution, incident, events, sends, lost>>
  BY DEF Stop, Exit, Start, BackoffElapses, Mute
<1>2. CASE \E n \in Notices : BackoffElapses(n)
  <2>1. PICK n \in Notices : BackoffElapses(n)
    BY <1>2
  <2>2. outbox' = [outbox EXCEPT ![n].delayed = FALSE] /\ UNCHANGED flush
    BY <2>1 DEF BackoffElapses
  <2>3. ASSUME NEW old \in Row
        PROVE  LET new == [old EXCEPT !.delayed = FALSE]
               IN new \in Row /\ new.status = old.status /\ new.attempts = old.attempts /\ new.rowid = old.rowid
    BY DEF Row
  <2>4. outbox \in [Notices -> Row]
    BY DEF OutboxInv, RowsOK
  <2>5. outbox' \in [Notices -> Row] /\ \A m \in Notices : /\ outbox'[m].status = outbox[m].status
                                                        /\ outbox'[m].attempts = outbox[m].attempts
                                                        /\ outbox'[m].rowid = outbox[m].rowid
    <3> DEFINE new == [outbox[n] EXCEPT !.delayed = FALSE]
    <3>1. outbox' = [outbox EXCEPT ![n] = new]
      BY <2>2
    <3>2. new \in Row /\ new.status = outbox[n].status /\ new.attempts = outbox[n].attempts /\ new.rowid = outbox[n].rowid
      BY <2>3, <2>4
    <3> HIDE DEF new
    <3> QED
      BY <2>4, <3>1, <3>2
  <2>6. RowsOK(outbox') /\ Settles(outbox, outbox')
    BY <2>5 DEF OutboxInv, RowsOK, Settles
  <2>7. Noticed(outbox', 0)
    BY <2>6, SettlingIsNoticed DEF OutboxInv
  <2>8. FlushOK(outbox', flush)
    <3>1. CASE flush = Idle
      BY <3>1 DEF FlushOK
    <3>2. CASE flush # Idle
      <4>1. /\ QueueOK(outbox, flush.left) /\ flush.left # <<>> /\ flush.sending = {flush.left[1].notice}
            /\ outbox[flush.left[1].notice].status \in {"pending", "superseded"}
        BY <3>2 DEF OutboxInv, FlushOK
      <4>2. \A k \in 1 .. Len(flush.left) : flush.left[k].notice \in Notices
        <5>1. \A k \in 1 .. Len(flush.left) : flush.left[k] \in ReadRow
          BY <4>1, ElementOfSeq DEF QueueOK
        <5> QED
          BY <5>1 DEF ReadRow
      <4>3. 1 \in 1 .. Len(flush.left)
        BY <4>1 DEF QueueOK
      <4>4. QueueOK(outbox', flush.left)
        BY <2>5, <4>1, <4>2 DEF QueueOK
      <4> QED
        BY <2>5, <4>1, <4>2, <4>3, <4>4 DEF FlushOK
    <3> QED
      BY <3>1, <3>2
  <2>9. SentOK(outbox', flush, sends, lost)
    BY <2>5 DEF OutboxInv, SentOK
  <2>10. KeepsSettled
    BY <1>1, <2>5 DEF KeepsSettled
  <2>11. (RowsOK(outbox) /\ FlushOK(outbox, flush) /\ SentOK(outbox, flush, sends, lost))'
    <3>1. flush' = flush /\ sends' = sends /\ lost' = lost
      BY <1>1, <2>2
    <3>2. RowsOK(outbox)'
      BY <2>6 DEF RowsOK
    <3>3. FlushOK(outbox, flush)'
      BY <2>8, <3>1 DEF FlushOK, QueueOK
    <3>4. SentOK(outbox, flush, sends, lost)'
      BY <2>9, <3>1 DEF SentOK
    <3> QED
      BY <3>2, <3>3, <3>4
  <2> QED
    BY <1>1, <2>2, <2>7, <2>10, <2>11, SameReports DEF OutboxInv
<1>3. CASE Stop \/ Exit \/ Start \/ \E kind \in Muteable : Mute(kind)
  <2>1. UNCHANGED <<outbox, flush>>
    BY <1>3 DEF Stop, Exit, Start, Mute
  <2>2. (RowsOK(outbox) /\ FlushOK(outbox, flush) /\ SentOK(outbox, flush, sends, lost))' /\ KeepsSettled
    BY <1>1, <2>1 DEF OutboxInv, RowsOK, FlushOK, SentOK, QueueOK, KeepsSettled
  <2> QED
    BY <1>1, <2>1, <2>2, SameReports DEF OutboxInv
<1> QED
  BY <1>2, <1>3

\* Every step of the outbox keeps the invariant, and what is settled.
LEMMA OutboxSteps ==
  ASSUME OutboxInv, [Next]_<<outboxVars, protection, side>>
  PROVE  OutboxInv' /\ KeepsSettled
<1>1. CASE OutboxNext
  <2>1. CASE Polled(FALSE) \/ Polled(TRUE)
    BY <2>1, PollStep
  <2>2. CASE Answered(FALSE) \/ Answered(TRUE)
    BY <2>2, AnswerStep
  <2> QED
    BY <1>1, <2>1, <2>2, ReceiptLostStep, ProgressStep, JudgeStep, OtherSteps DEF OutboxNext, Poll, Answer, PassFails
<1>2. CASE UNCHANGED outboxVars
  <2>1. (RowsOK(outbox) /\ FlushOK(outbox, flush) /\ SentOK(outbox, flush, sends, lost))' /\ KeepsSettled
    BY <1>2 DEF outboxVars, OutboxInv, RowsOK, FlushOK, SentOK, QueueOK, KeepsSettled
  <2> QED
    BY <1>2, <2>1, SameReports DEF outboxVars, OutboxInv
<1>3. OutboxNext \/ UNCHANGED outboxVars
  BY DEF Next
<1> QED
  BY <1>1, <1>2, <1>3

\* The outbox keeps its invariant, beside the policy.
LEMMA OutboxHolds == Spec => []OutboxInv
<1>1. Init => OutboxInv
  <2> SUFFICES ASSUME OutboxInit
               PROVE  OutboxInv
    BY DEF Init
  <2>1. RowsOK(outbox)
    <3>1. [status |-> "none", attempts |-> 0, delayed |-> FALSE, rowid |-> 0] \in Row /\ 0 < Attempts
      BY OutboxAssumption DEF Row, Statuses
    <3> QED
      BY <3>1 DEF OutboxInit, RowsOK
  <2>2. \A n \in Notices : outbox[n].status = "none" /\ outbox[n].attempts = 0 /\ sends[n] = 0
    BY DEF OutboxInit
  <2>3. ReportsTyped /\ EventsOK /\ events = <<>>
    BY DEF OutboxInit, ReportsTyped, EventsOK
  <2>4. Noticed(outbox, 0)
    <3>1. ASSUME NEW x \in Executions
          PROVE  ExecutionNoticed(outbox, 0, x)
      BY <2>2, NoticeNames DEF OutboxInit, ExecutionNoticed, Ended
    <3>2. ASSUME NEW i \in Incidents
          PROVE  IncidentNoticed(outbox, 0, i)
      BY <2>2, NoticeNames DEF OutboxInit, IncidentNoticed
    <3> QED
      BY <3>1, <3>2 DEF Noticed
  <2>5. SentOK(outbox, flush, sends, lost)
    BY <2>2 DEF OutboxInit, SentOK
  <2> QED
    BY <2>1, <2>3, <2>4, <2>5 DEF OutboxInit, OutboxInv, FlushOK
<1>2. OutboxInv /\ [Next]_<<outboxVars, protection, side>> => OutboxInv'
  BY OutboxSteps
<1> QED
  BY <1>1, <1>2, PTL DEF Spec

\* Polling while a provider is slow, a pass that breaks off, a refusal of what
\* was superseded and an orderly stop never send a notice more often than its
\* row counts; each request whose answer leaves no receipt adds one.
THEOREM SendsCorrect == Spec => []SendsAccounted
<1>1. OutboxInv => SendsAccounted
  <2>1. SUFFICES ASSUME OutboxInv, NEW n \in Notices
                 PROVE  sends[n] <= outbox[n].attempts + lost[n] + Cardinality({n} \cap flush.sending)
                                      + (IF outbox[n].status = "superseded" /\ n \notin flush.sending THEN 1 ELSE 0)
    BY DEF SendsAccounted
  <2>2. Cardinality({n} \cap flush.sending) = IF n \in flush.sending THEN 1 ELSE 0
    <3>1. CASE n \in flush.sending
      <4>1. {n} \cap flush.sending = {n}
        BY <3>1
      <4> QED
        BY <3>1, <4>1, FS_Singleton
    <3>2. CASE n \notin flush.sending
      <4>1. {n} \cap flush.sending = {}
        BY <3>2
      <4> QED
        BY <3>2, <4>1, FS_EmptySet
    <3> QED
      BY <3>1, <3>2
  <2>3. /\ sends[n] \in Nat /\ outbox[n].attempts \in Nat /\ lost[n] \in Nat
        /\ sends[n] <= outbox[n].attempts + lost[n] + IF n \in flush.sending \/ outbox[n].status = "superseded" THEN 1 ELSE 0
    BY <2>1 DEF OutboxInv, SentOK, RowsOK, Row
  <2> QED
    BY <2>2, <2>3
<1> QED
  BY <1>1, OutboxHolds, PTL

\* A notice that is settled is neither sent again nor made pending, by a late
\* refusal or by an event that is read again.
THEOREM SettledCorrect == Spec => SettledStaysSettled
<1>1. OutboxInv /\ [Next]_<<outboxVars, protection, side>>
        => [\A n \in Notices :
              outbox[n].status \notin {"none", "pending"} =>
                outbox'[n].status \notin {"none", "pending"} /\ (sends'[n] = sends[n])]_outboxVars
  BY OutboxSteps DEF KeepsSettled
<1> QED
  BY <1>1, OutboxHolds, PTL DEF Spec, SettledStaysSettled

\* When every event has been read, the rows say what has become of executions
\* and incidents, whatever was read in one batch and whatever was sent before.
THEOREM OutboxCorrect == Spec => []OutboxAgrees
<1>1. OutboxInv => OutboxAgrees
  <2>1. SUFFICES ASSUME OutboxInv, events = <<>>
                 PROVE  /\ \A x \in Executions :
                             /\ {v \in Verdicts : <<x, v>> \in Recorded(outbox)}
                                  = IF execution[x] \in Ended \ {"cancelled"} THEN {VerdictOf(x)} ELSE {}
                             /\ execution[x] \in Ended => outbox[<<x, "first_failure">>].status # "pending"
                             /\ execution[x] = "failing" => <<x, "first_failure">> \in Recorded(outbox)
                        /\ \A i \in Incidents :
                             /\ incident[i] \in {"resolved", "closed"} => outbox[<<i, "opened">>].status # "pending"
                             /\ incident[i] = "resolved" <=> <<i, "resolved">> \in Recorded(outbox)
                             /\ incident[i] # "none" => <<i, "opened">> \in Recorded(outbox)
    BY DEF OutboxAgrees
  <2>2. \A of, what : ~ToCome(0, of, what)
    BY <2>1 DEF ToCome
  <2>3. \A n \in Notices : n \in Recorded(outbox) <=> outbox[n].status # "none"
    BY DEF Recorded
  <2>4. ASSUME NEW x \in Executions
        PROVE  /\ {v \in Verdicts : <<x, v>> \in Recorded(outbox)}
                    = IF execution[x] \in Ended \ {"cancelled"} THEN {VerdictOf(x)} ELSE {}
               /\ execution[x] \in Ended => outbox[<<x, "first_failure">>].status # "pending"
               /\ execution[x] = "failing" => <<x, "first_failure">> \in Recorded(outbox)
    <3>1. ExecutionNoticed(outbox, 0, x) /\ <<x, "first_failure">> \in Notices /\ VerdictOf(x) \in Verdicts
          /\ \A v \in Verdicts : <<x, v>> \in Notices
      BY <2>1, NoticeNames DEF OutboxInv, Noticed
    <3> QED
      BY <2>2, <2>3, <3>1 DEF ExecutionNoticed
  <2>5. ASSUME NEW i \in Incidents
        PROVE  /\ incident[i] \in {"resolved", "closed"} => outbox[<<i, "opened">>].status # "pending"
               /\ incident[i] = "resolved" <=> <<i, "resolved">> \in Recorded(outbox)
               /\ incident[i] # "none" => <<i, "opened">> \in Recorded(outbox)
    <3>1. IncidentNoticed(outbox, 0, i) /\ <<i, "opened">> \in Notices /\ <<i, "resolved">> \in Notices
      BY <2>1, NoticeNames DEF OutboxInv, Noticed
    <3> QED
      BY <2>2, <2>3, <3>1 DEF IncidentNoticed
  <2> QED
    BY <2>4, <2>5
<1> QED
  BY <1>1, OutboxHolds, PTL

-----------------------------------------------------------------------------
(* The protection policy *)

\* The type of the policy's state; an artifact is verified when its run ends.
PolicyTyped ==
  /\ now \in Policy!Times
  /\ job \in [enabled : BOOLEAN, config : Configs, age : Ages, required : SUBSET Pairs, next : Policy!Times \cup {Policy!Never}]
  /\ runs \subseteq Policy!Run /\ work \subseteq Policy!Work
  /\ \A r \in runs : r.outcome = "verified" => r.at \in Policy!Times
  /\ opened \in [Policy!Incident -> Policy!Times \cup {Policy!Never}] /\ shifted \subseteq Policy!Incident

\* What makes evidence new.  An incident whose age was not raised, under a clock
\* that was not set back, was opened in the past; if it is one of freshness, no
\* age of grace was left at that time, and what was verified before then was too
\* old already.
OpenedOn(i) ==
  /\ opened[i] <= now
  /\ i.kind = "freshness" =>
       /\ job.age <= opened[i]
       /\ \A r \in runs : r.pair = i.pair /\ r.config = i.config /\ r.outcome = "verified"
                            => opened[i] <= r.at \/ r.at + job.age <= opened[i]

\* What the policy keeps.
PolicyInv == PolicyTyped /\ \A i \in Policy!Open \ shifted : OpenedOn(i)

\* What ResolvedByEvidence says of an incident.
Evidenced(i) ==
  /\ job.enabled /\ i.pair \in job.required /\ i.config = job.config
  /\ i.kind = "freshness" /\ i \notin shifted => Policy!FreshSince(i)
  /\ i.kind = "missed_start" => Policy!NothingWaits(i)
  /\ i.kind = "long_running" /\ i \notin shifted =>
       \A w \in work : w.pair = i.pair /\ w.config = i.config /\ w.status = "running" => opened[i] - w.since < Long

\* The step that ResolvedByEvidence allows.
ResolvesOnEvidence == \A i \in Policy!Open : [what |-> "resolved", incident |-> i] \in announced' => Evidenced(i)

\* The types in numbers.
LEMMA PolicyNumbers ==
  ASSUME PolicyTyped
  PROVE  /\ now \in Nat /\ job.age \in Nat /\ Grace \in Nat /\ Long \in Nat /\ Policy!Times \subseteq Nat
         /\ \A w \in work : w.since \in Int
         /\ \A i \in Policy!Open : i \in Policy!Incident /\ opened[i] \in Nat
         /\ \A r \in runs : r.outcome = "verified" => r.at \in Nat
<1>1. MaxTime \in Nat /\ Grace \in Nat /\ Long \in Nat /\ Ages \subseteq Nat
  BY PolicyAssumption
<1>2. Policy!Times \subseteq Nat /\ Policy!Times \cup {Policy!Never} \subseteq Int
  BY <1>1 DEF Policy!Times, Policy!Never
<1>3. now \in Nat /\ job.age \in Nat
  BY <1>1, <1>2 DEF PolicyTyped
<1>4. \A w \in work : w.since \in Int
  BY <1>2 DEF PolicyTyped, Policy!Work
<1>5. \A i \in Policy!Open : i \in Policy!Incident /\ opened[i] \in Nat
  BY <1>2 DEF PolicyTyped, Policy!Open
<1>6. \A r \in runs : r.outcome = "verified" => r.at \in Nat
  BY <1>2 DEF PolicyTyped
<1> QED
  BY <1>1, <1>2, <1>3, <1>4, <1>5, <1>6

\* Latest() is the latest of some times.
LEMMA LatestIs ==
  ASSUME NEW T, T \subseteq Policy!Times, T # {}
  PROVE  Policy!Latest(T) \in T /\ \A t \in T : t <= Policy!Latest(T)
<1>1. MaxTime \in Nat
  BY PolicyAssumption
<1>2. IsFiniteSet(T) /\ T \subseteq Nat
  <2>1. IsFiniteSet(0 .. MaxTime) /\ T \subseteq 0 .. MaxTime
    BY <1>1, FS_Interval DEF Policy!Times
  <2>2. IsFiniteSet(T)
    BY <2>1, FS_Subset
  <2> QED
    BY <1>1, <2>1, <2>2
<1>3. Max(T) \in T /\ \A k \in T : k <= Max(T)
  BY <1>2, GreatestNumber
<1> QED
  BY <1>3 DEF Policy!Latest

\* The runs that count as verified.
LEMMA VerifiedIs ==
  ASSUME PolicyTyped, NEW p
  PROVE  /\ Policy!Verified(p) \subseteq Policy!Times
         /\ \A t : t \in Policy!Verified(p) <=>
              \E r \in runs : r.pair = p /\ r.config = job.config /\ r.outcome = "verified" /\ r.at <= now /\ r.at = t
         /\ Policy!Verified(p) # {} =>
              /\ Policy!Latest(Policy!Verified(p)) \in Policy!Verified(p)
              /\ \A t \in Policy!Verified(p) : t <= Policy!Latest(Policy!Verified(p))
<1>1. Policy!Verified(p) \subseteq Policy!Times
  BY DEF Policy!Verified, Policy!RunsOf, PolicyTyped
<1>2. \A t : t \in Policy!Verified(p) <=>
        \E r \in runs : r.pair = p /\ r.config = job.config /\ r.outcome = "verified" /\ r.at <= now /\ r.at = t
  BY DEF Policy!Verified, Policy!RunsOf
<1>3. Policy!Verified(p) # {} =>
        /\ Policy!Latest(Policy!Verified(p)) \in Policy!Verified(p)
        /\ \A t \in Policy!Verified(p) : t <= Policy!Latest(Policy!Verified(p))
  BY <1>1, LatestIs
<1> QED
  BY <1>1, <1>2, <1>3

\* When an incident of freshness is opened, no age of grace is left and what is
\* verified is too old.
LEMMA BadIsOld ==
  ASSUME PolicyTyped, NEW i \in Policy!Bad, i.kind = "freshness"
  PROVE  /\ job.age <= now
         /\ \A r \in runs : r.pair = i.pair /\ r.config = i.config /\ r.outcome = "verified" => r.at + job.age <= now
<1> DEFINE p == i.pair
           t == Policy!Latest(Policy!Verified(p))
<1>1. i.config = job.config /\ Policy!Assess(p, "freshness") = "bad"
  BY DEF Policy!Bad, Policy!Current
<1>2. ~Policy!Future(p) /\ Policy!Freshness(p) = "bad"
  BY <1>1 DEF Policy!Assess
<1>3. now \in Nat /\ job.age \in Nat /\ Policy!Times \subseteq Nat /\ \A r \in runs : r.outcome = "verified" => r.at \in Nat
  BY PolicyNumbers
<1>4. ASSUME NEW r \in runs, r.pair = p, r.config = job.config, r.outcome = "verified"
      PROVE  r.at \in Policy!Verified(p)
  <2>1. ~(r.at > now) /\ r.at \in Nat
    BY <1>2, <1>3, <1>4 DEF Policy!Future, Policy!RunsOf
  <2>2. r.at <= now
    BY <1>3, <2>1
  <2> QED
    BY <1>4, <2>2, VerifiedIs
<1>5. CASE Policy!Verified(p) # {}
  <2>1. t \in Policy!Verified(p) /\ t \in Nat /\ \A u \in Policy!Verified(p) : u <= t
    BY <1>3, <1>5, VerifiedIs
  <2>2. now - t >= job.age
    BY <1>2, <1>5 DEF Policy!Freshness
  <2> HIDE DEF t
  <2>3. \A u \in Nat : u <= t => u + job.age <= now
    BY <1>3, <2>1, <2>2
  <2>4. job.age <= now
    BY <1>3, <2>1, <2>2
  <2>5. \A r \in runs : r.pair = p /\ r.config = job.config /\ r.outcome = "verified" => r.at + job.age <= now
    BY <1>3, <1>4, <2>1, <2>3
  <2> QED
    BY <1>1, <2>4, <2>5
<1>6. CASE Policy!Verified(p) = {}
  <2>1. ~(now < job.age)
    BY <1>2, <1>6 DEF Policy!Freshness
  <2>2. job.age <= now
    BY <1>3, <2>1
  <2> QED
    BY <1>1, <1>4, <1>6, <2>2
<1> QED
  BY <1>5, <1>6

\* A condition that is neither bad nor unknown is good, by new evidence.
LEMMA GoodIsEvidenced ==
  ASSUME PolicyInv, NEW i \in Policy!Open, Policy!Current(i), Policy!Assess(i.pair, i.kind) \notin {"bad", "unknown"}
  PROVE  Evidenced(i)
<1> DEFINE p == i.pair
<1>1. job.enabled /\ ~Policy!Future(p) /\ i.pair \in job.required /\ i.config = job.config
  BY DEF Policy!Assess, Policy!Current
<1>2. /\ now \in Nat /\ job.age \in Nat /\ Grace \in Nat /\ Long \in Nat /\ Policy!Times \subseteq Nat
      /\ i \in Policy!Incident /\ opened[i] \in Nat /\ PolicyTyped
      /\ \A w \in work : w.since \in Int
      /\ \A r \in runs : r.outcome = "verified" => r.at \in Nat
  BY PolicyNumbers DEF PolicyInv
<1>3. i.kind \in {"freshness", "missed_start", "long_running"}
  BY <1>2 DEF Policy!Incident, Policy!Kinds
<1>4. i \notin shifted => OpenedOn(i)
  BY DEF PolicyInv
<1>5. ASSUME i.kind = "freshness", i \notin shifted
      PROVE  Policy!FreshSince(i)
  <2>1. Policy!Freshness(p) \notin {"bad", "unknown"}
    BY <1>1, <1>5 DEF Policy!Assess
  <2>2. /\ opened[i] <= now /\ job.age <= opened[i]
        /\ \A r \in runs : r.pair = i.pair /\ r.config = i.config /\ r.outcome = "verified"
                             => opened[i] <= r.at \/ r.at + job.age <= opened[i]
    BY <1>4, <1>5 DEF OpenedOn
  <2>3. Policy!Verified(p) # {}
    <3>1. ~(now < job.age)
      BY <1>2, <2>2
    <3> QED
      BY <2>1, <3>1 DEF Policy!Freshness
  <2> DEFINE t == Policy!Latest(Policy!Verified(p))
  <2>4. t \in Policy!Verified(p) /\ ~(now - t >= job.age)
    BY <1>2, <2>1, <2>3, VerifiedIs DEF Policy!Freshness
  <2> HIDE DEF t
  <2>5. PICK r \in runs : r.pair = p /\ r.config = job.config /\ r.outcome = "verified" /\ r.at <= now /\ r.at = t
    BY <1>2, <2>4, VerifiedIs
  <2>6. r.at \in Nat /\ (opened[i] <= r.at \/ r.at + job.age <= opened[i])
    BY <1>1, <1>2, <2>2, <2>5
  <2>7. opened[i] <= r.at /\ now - r.at < job.age
    <3> DEFINE o == opened[i]
               a == job.age
               at == r.at
    <3>1. o \in Nat /\ a \in Nat /\ at \in Nat /\ now \in Nat /\ o <= now /\ ~(now - at >= a) /\ (o <= at \/ at + a <= o)
      BY <1>2, <2>2, <2>4, <2>5, <2>6
    <3> HIDE DEF o, a, at
    <3>2. o <= at /\ now - at < a
      BY ONLY <3>1
    <3> QED
      BY <3>2 DEF o, a, at
  <2> QED
    BY <1>1, <2>5, <2>7 DEF Policy!FreshSince
<1>6. ASSUME i.kind = "missed_start"
      PROVE  Policy!NothingWaits(i)
  <2>1. Policy!MissedStart(p) # "bad"
    BY <1>1, <1>6 DEF Policy!Assess
  <2> DEFINE occurrences == {w \in Policy!WorkOf(p) : w.scheduled # Policy!Never}
             times == {v.scheduled : v \in occurrences}
  <2>2. \A w \in occurrences : w.scheduled = Policy!Latest(times) => ~(w.status = "queued" /\ now - w.scheduled >= Grace)
    BY <2>1 DEF Policy!MissedStart
  <2>3. times \subseteq Policy!Times
    BY <1>2 DEF Policy!WorkOf, Policy!Work, PolicyTyped
  <2>4. ASSUME NEW w \in work, w.pair = i.pair, w.config = job.config, w.status = "queued", w.scheduled # Policy!Never,
               ~(now - w.scheduled < Grace)
        PROVE  \E v \in work : v.pair = i.pair /\ v.config = job.config /\ v.scheduled > w.scheduled
    <3>1. w \in occurrences /\ w.scheduled \in times
      BY <2>4 DEF Policy!WorkOf
    <3>2. Policy!Latest(times) \in times /\ w.scheduled <= Policy!Latest(times)
      <4> HIDE DEF times
      <4> QED
        BY <2>3, <3>1, LatestIs
    <3>3. Policy!Latest(times) \in Nat /\ w.scheduled \in Nat
      BY <1>2, <2>3, <3>1, <3>2
    <3>4. w.scheduled # Policy!Latest(times)
      <4>1. now - w.scheduled >= Grace
        BY <1>2, <2>4, <3>3
      <4> HIDE DEF times
      <4> QED
        BY <2>2, <2>4, <3>1, <4>1
    <3>5. PICK v \in occurrences : v.scheduled = Policy!Latest(times)
      BY <3>2
    <3> HIDE DEF times
    <3>6. v \in work /\ v.pair = p /\ v.config = job.config
      BY DEF Policy!WorkOf
    <3> QED
      BY <3>2, <3>3, <3>4, <3>5, <3>6
  <2> QED
    BY <1>1, <2>4 DEF Policy!NothingWaits
<1>7. ASSUME i.kind = "long_running", i \notin shifted, NEW w \in work, w.pair = i.pair, w.config = i.config, w.status = "running"
      PROVE  opened[i] - w.since < Long
  <2>1. Policy!LongRunning(p) # "bad"
    BY <1>1, <1>7 DEF Policy!Assess
  <2>2. ~(now - w.since >= Long)
    BY <1>1, <1>7, <2>1 DEF Policy!LongRunning, Policy!WorkOf
  <2>3. opened[i] <= now /\ w.since \in Int
    BY <1>2, <1>4, <1>7 DEF OpenedOn
  <2> QED
    BY <1>2, <2>2, <2>3
<1> QED
  BY <1>1, <1>5, <1>6, <1>7 DEF Evidenced

\* What is resolved is a current incident whose condition is good, and what is
\* opened is opened now.
LEMMA EvaluateStep ==
  ASSUME PolicyInv, Policy!Evaluate
  PROVE  PolicyInv' /\ ResolvesOnEvidence
<1> DEFINE ending == Policy!Open \ (Policy!Bad \cup Policy!Unknown)
           fresh == Policy!Bad \ Policy!Open
           event(i) == [what |-> IF i \in fresh THEN "opened" ELSE IF Policy!Current(i) THEN "resolved" ELSE "closed", incident |-> i]
<1>1. /\ UNCHANGED <<now, job, runs, work>>
      /\ opened' = [i \in Policy!Incident |-> IF i \in ending THEN Policy!Never ELSE IF i \in fresh THEN now ELSE opened[i]]
      /\ announced' = {event(i) : i \in ending \cup fresh} /\ shifted' = shifted \ ending
  BY DEF Policy!Evaluate
<1>2. PolicyTyped /\ fresh \subseteq Policy!Bad /\ fresh \cap Policy!Open = {} /\ ending \subseteq Policy!Open
  BY DEF PolicyInv
<1>3. PolicyTyped'
  BY <1>1, <1>2 DEF PolicyTyped, Policy!Times, Policy!Run, Policy!Work, Policy!Incident
<1>4. ASSUME NEW i \in Policy!Open, [what |-> "resolved", incident |-> i] \in announced'
      PROVE  Evidenced(i)
  <2>1. PICK j \in ending \cup fresh : [what |-> "resolved", incident |-> i] = event(j)
    BY <1>1, <1>4
  <2>2. j = i /\ j \in ending /\ Policy!Current(i)
    <3>1. event(j).what = "resolved" /\ event(j).incident = i
      BY <2>1
    <3>2. event(j).incident = j
      OBVIOUS
    <3>3. j \notin fresh
      BY <1>4, <3>1, <3>2
    <3> QED
      BY <2>1, <3>1, <3>2, <3>3
  <2>3. i \notin Policy!Bad /\ i \notin Policy!Unknown /\ i \in Policy!Incident
    BY <2>2 DEF Policy!Open
  <2>4. Policy!Assess(i.pair, i.kind) \notin {"bad", "unknown"}
    BY <2>2, <2>3 DEF Policy!Bad, Policy!Unknown
  <2> QED
    BY <2>2, <2>4, GoodIsEvidenced
<1>5. ASSUME NEW i \in Policy!Open' \ shifted'
      PROVE  OpenedOn(i)'
  <2>1. i \in Policy!Incident /\ opened'[i] # Policy!Never
    BY DEF Policy!Open, Policy!Incident, Policy!Never
  <2>2. i \notin ending /\ i \notin shifted
    BY <1>1, <2>1
  <2>3. CASE i \in fresh
    <3>1. opened'[i] = now
      BY <1>1, <2>1, <2>2, <2>3
    <3>2. i.kind = "freshness" => /\ job.age <= now
                                  /\ \A r \in runs : r.pair = i.pair /\ r.config = i.config /\ r.outcome = "verified" => r.at + job.age <= now
      BY <1>2, <2>3, BadIsOld
    <3>3. now <= now
      BY <1>2, PolicyNumbers
    <3> QED
      BY <1>1, <3>1, <3>2, <3>3 DEF OpenedOn
  <2>4. CASE i \notin fresh
    <3>1. opened'[i] = opened[i]
      BY <1>1, <2>1, <2>2, <2>4
    <3>2. i \in Policy!Open
      BY <2>1, <3>1 DEF Policy!Open
    <3>3. OpenedOn(i)
      BY <2>2, <3>2 DEF PolicyInv
    <3> QED
      BY <1>1, <3>1, <3>3 DEF OpenedOn
  <2> QED
    BY <2>3, <2>4
<1> QED
  BY <1>3, <1>4, <1>5 DEF PolicyInv, ResolvesOnEvidence

\* Every step but an evaluation.
Evidence ==
  \/ Policy!Tick \/ Policy!SetBack \/ Policy!RunDue \/ Policy!Manual \/ Policy!SaveJob
  \/ \E w \in work : Policy!Start(w) \/ Policy!End(w) \/ Policy!Cancel(w)
  \/ \E r \in runs : Policy!Expire(r)

\* A run that is not on record yet, or not in this form, is not verified or is now.
LEMMA EvidenceIsNew ==
  ASSUME PolicyTyped, Evidence, NEW r \in runs'
  PROVE  r \in runs \/ (r \in Policy!Run /\ (r.outcome = "verified" => r.at = now))
<1>1. work \subseteq Policy!Work /\ runs \subseteq Policy!Run /\ now \in Policy!Times
  BY DEF PolicyTyped
<1>2. CASE \E w \in work : Policy!Start(w)
  <2>1. PICK w \in work : Policy!Start(w)
    BY <1>2
  <2>2. PICK c \in {w.config, Policy!Unrecorded} :
          runs' = runs \cup {[pair |-> w.pair, config |-> c, started |-> now, at |-> Policy!Never, outcome |-> "running"]}
    BY <2>1 DEF Policy!Start
  <2>3. w.pair \in Pairs /\ c \in Configs \cup {Policy!Unrecorded}
    BY <1>1, <2>1, <2>2 DEF Policy!Work
  <2>4. [pair |-> w.pair, config |-> c, started |-> now, at |-> Policy!Never, outcome |-> "running"] \in Policy!Run
    BY <1>1, <2>3 DEF Policy!Run
  <2> QED
    BY <2>2, <2>4
<1>3. CASE \E w \in work : Policy!End(w)
  <2>1. runs' = runs \/ \E q \in runs, o \in {"verified", "failed"} : runs' = (runs \ {q}) \cup {[q EXCEPT !.at = now, !.outcome = o]}
    BY <1>3 DEF Policy!End
  <2>2. \A q \in runs, o \in {"verified", "failed"} :
          [q EXCEPT !.at = now, !.outcome = o] \in Policy!Run /\ [q EXCEPT !.at = now, !.outcome = o].at = now
    BY <1>1 DEF Policy!Run
  <2> QED
    BY <2>1, <2>2
<1>4. CASE \E q \in runs : Policy!Expire(q)
  <2>1. PICK q \in runs : runs' = (runs \ {q}) \cup {[q EXCEPT !.outcome = "expired"]}
    BY <1>4 DEF Policy!Expire
  <2>2. [q EXCEPT !.outcome = "expired"] \in Policy!Run /\ [q EXCEPT !.outcome = "expired"].outcome = "expired"
    BY <1>1, <2>1 DEF Policy!Run
  <2> QED
    BY <2>1, <2>2
<1>5. CASE runs' = runs
  BY <1>5
<1> QED
  BY <1>2, <1>3, <1>4, <1>5 DEF Evidence, Policy!Tick, Policy!SetBack, Policy!RunDue, Policy!Manual, Policy!SaveJob, Policy!Cancel

\* What changes evidence keeps its types.
LEMMA EvidenceIsTyped ==
  ASSUME PolicyTyped, Evidence
  PROVE  PolicyTyped' /\ announced' = {} /\ opened' = opened
<1>1. announced' = {} /\ opened' = opened
  BY DEF Evidence, Policy!Tick, Policy!SetBack, Policy!RunDue, Policy!Manual, Policy!SaveJob, Policy!Start, Policy!End, Policy!Cancel, Policy!Expire
<1>2. now \in 0 .. MaxTime /\ MaxTime \in Nat
  BY PolicyAssumption DEF PolicyTyped, Policy!Times
<1>3. now' \in Policy!Times
  <2>1. now' = now \/ (now < MaxTime /\ now' = now + 1) \/ (now > 0 /\ now' = now - 1)
    BY DEF Evidence, Policy!Tick, Policy!SetBack, Policy!RunDue, Policy!Manual, Policy!SaveJob, Policy!Start, Policy!End, Policy!Cancel, Policy!Expire
  <2>2. now' \in 0 .. MaxTime
    BY ONLY <1>2, <2>1
  <2> QED
    BY <2>2 DEF Policy!Times
<1>4. \A later : later = (IF now < MaxTime THEN now + 1 ELSE Policy!Never) => later \in Policy!Times \cup {Policy!Never}
  BY <1>2 DEF Policy!Times
<1>5. job \in [enabled : BOOLEAN, config : Configs, age : Ages, required : SUBSET Pairs, next : Policy!Times \cup {Policy!Never}]
  BY DEF PolicyTyped
<1>6. job' \in [enabled : BOOLEAN, config : Configs, age : Ages, required : SUBSET Pairs, next : Policy!Times \cup {Policy!Never}]
  <2>1. CASE Policy!RunDue
    BY <1>4, <1>5, <2>1 DEF Policy!RunDue
  <2>2. CASE Policy!SaveJob
    BY <1>2, <2>2 DEF Policy!SaveJob, Policy!Times
  <2>3. CASE job' = job
    BY <1>5, <2>3
  <2> QED
    BY <2>1, <2>2, <2>3 DEF Evidence, Policy!Tick, Policy!SetBack, Policy!Manual, Policy!Start, Policy!End, Policy!Cancel, Policy!Expire
<1>7. work \subseteq Policy!Work /\ runs \subseteq Policy!Run /\ now \in Policy!Times
      /\ \A r \in runs : r.outcome = "verified" => r.at \in Policy!Times
  BY DEF PolicyTyped
<1>8. work' \subseteq Policy!Work
  <2>1. ASSUME NEW s \in Policy!Times \cup {Policy!Never}
        PROVE  Policy!Added(s) \subseteq Policy!Work
    BY <1>5, <1>7 DEF Policy!Added, Policy!Work
  <2>2. CASE Policy!RunDue
    <3>1. job.next \in Policy!Times \cup {Policy!Never}
      BY <1>5
    <3>2. work' = work \cup Policy!Added(job.next) \/ work' = work
      BY <2>2 DEF Policy!RunDue
    <3> QED
      BY <1>7, <2>1, <3>1, <3>2
  <2>3. CASE Policy!Manual
    <3>1. PICK added \in {Policy!Added(Policy!Never)} \cup {{Policy!Again(w)} : w \in {w \in work : w.status = "ended"}} : work' = work \cup added
      BY <2>3 DEF Policy!Manual
    <3>2. \A w \in work : Policy!Again(w) \in Policy!Work
      BY <1>7 DEF Policy!Again, Policy!Work
    <3> QED
      BY <1>7, <2>1, <3>1, <3>2
  <2>4. CASE \E w \in work : Policy!Start(w) \/ Policy!End(w) \/ Policy!Cancel(w)
    <3>1. PICK w \in work : Policy!Start(w) \/ Policy!End(w) \/ Policy!Cancel(w)
      BY <2>4
    <3>2. /\ [w EXCEPT !.status = "running", !.since = now] \in Policy!Work /\ [w EXCEPT !.status = "ended"] \in Policy!Work
          /\ \A s \in {"ended", "waiting"} : [w EXCEPT !.status = s, !.since = Policy!Never] \in Policy!Work
      BY <1>7 DEF Policy!Work
    <3>3. \E v \in Policy!Work : work' = (work \ {w}) \cup {v}
      BY <3>1, <3>2 DEF Policy!Start, Policy!End, Policy!Cancel
    <3> QED
      BY <1>7, <3>3
  <2>5. CASE work' = work
    BY <1>7, <2>5
  <2> QED
    BY <2>2, <2>3, <2>4, <2>5 DEF Evidence, Policy!Tick, Policy!SetBack, Policy!SaveJob, Policy!Expire
<1>9. runs' \subseteq Policy!Run /\ \A r \in runs' : r.outcome = "verified" => r.at \in Policy!Times
  <2>1. \A r \in runs' : r \in runs \/ (r \in Policy!Run /\ (r.outcome = "verified" => r.at = now))
    BY <1>7, EvidenceIsNew DEF Evidence, PolicyTyped
  <2> QED
    BY <1>7, <2>1
<1>10. shifted' \subseteq Policy!Incident
  <2>1. shifted' = shifted \/ shifted' = Policy!Open
    BY DEF Evidence, Policy!Tick, Policy!SetBack, Policy!RunDue, Policy!Manual, Policy!SaveJob, Policy!Start, Policy!End, Policy!Cancel, Policy!Expire
  <2> QED
    BY <2>1 DEF PolicyTyped, Policy!Open
<1>11. PolicyTyped'
  <2>1. opened \in [Policy!Incident -> Policy!Times \cup {Policy!Never}]
    BY DEF PolicyTyped
  <2> QED
    BY <1>1, <1>3, <1>6, <1>8, <1>9, <1>10, <2>1 DEF PolicyTyped, Policy!Times, Policy!Run, Policy!Work, Policy!Incident
<1> QED
  BY <1>1, <1>11

\* Only new evidence, or none, comes to what was verified before an incident.
LEMMA EvidenceSteps ==
  ASSUME PolicyInv, Evidence
  PROVE  PolicyInv' /\ ResolvesOnEvidence
<1>1. PolicyTyped /\ PolicyTyped' /\ announced' = {} /\ opened' = opened
  BY EvidenceIsTyped DEF PolicyInv
<1>2. Policy!Open' = Policy!Open
  BY <1>1 DEF Policy!Open
<1>3. \A r \in runs' : r \in runs \/ (r.outcome = "verified" => r.at = now)
  BY <1>1, EvidenceIsNew DEF Evidence
<1>4. ASSUME NEW i \in Policy!Open' \ shifted'
      PROVE  OpenedOn(i)'
  <2>1. i \in Policy!Open
    BY <1>2
  <2>2. i \notin shifted /\ ~Policy!SetBack /\ job'.age <= job.age /\ now <= now'
    <3>1. now \in Nat /\ job.age \in Nat /\ job'.age \in Nat
      <4>1. Ages \subseteq Nat
        BY PolicyAssumption
      <4> QED
        BY <1>1, <4>1, PolicyNumbers DEF PolicyTyped
    <3>2. CASE Policy!SetBack
      BY <2>1, <3>2 DEF Policy!SetBack
    <3>3. CASE Policy!SaveJob
      <4>1. ~(job'.age > job.age) /\ shifted' = shifted /\ now' = now
        BY <2>1, <3>3 DEF Policy!SaveJob
      <4> QED
        BY <2>1, <3>1, <3>3, <4>1 DEF Policy!SaveJob, Policy!SetBack
    <3>4. CASE Policy!RunDue
      BY <3>1, <3>4 DEF Policy!RunDue, Policy!SetBack, PolicyInv, PolicyTyped
    <3>5. CASE Policy!Tick
      BY <3>1, <3>5 DEF Policy!Tick, Policy!SetBack
    <3>6. CASE UNCHANGED <<now, job, shifted>>
      BY <3>1, <3>6 DEF Policy!SetBack
    <3> QED
      BY <3>2, <3>3, <3>4, <3>5, <3>6 DEF Evidence, Policy!Manual, Policy!Start, Policy!End, Policy!Cancel, Policy!Expire
  <2>3. OpenedOn(i)
    BY <2>1, <2>2 DEF PolicyInv
  <2>4. /\ now \in Nat /\ now' \in Nat /\ job.age \in Nat /\ job'.age \in Nat /\ opened[i] \in Nat
        /\ \A r \in runs : r.outcome = "verified" => r.at \in Nat
    <3>1. Ages \subseteq Nat /\ MaxTime \in Nat
      BY PolicyAssumption
    <3>2. now' \in Nat /\ job'.age \in Nat
      <4>1. now' \in 0 .. MaxTime /\ job'.age \in Ages
        BY <1>1 DEF PolicyTyped, Policy!Times
      <4>2. now' \in Nat
        BY ONLY <3>1, <4>1
      <4>3. job'.age \in Nat
        BY ONLY <3>1, <4>1
      <4> QED
        BY <4>2, <4>3
    <3> QED
      BY <1>1, <2>1, <3>2, PolicyNumbers
  <2>5. opened[i] <= now'
    <3>1. opened[i] <= now
      BY <2>3 DEF OpenedOn
    <3> DEFINE o == opened[i]
    <3> HIDE DEF o
    <3>2. o \in Nat /\ o <= now
      BY <2>4, <3>1 DEF o
    <3>3. o <= now'
      BY ONLY <2>2, <2>4, <3>2
    <3> QED
      BY <3>3 DEF o
  <2>6. ASSUME i.kind = "freshness"
        PROVE  /\ job'.age <= opened[i]
               /\ \A r \in runs' : r.pair = i.pair /\ r.config = i.config /\ r.outcome = "verified"
                                     => opened[i] <= r.at \/ r.at + job'.age <= opened[i]
    <3>1. /\ opened[i] <= now /\ job.age <= opened[i]
          /\ \A r \in runs : r.pair = i.pair /\ r.config = i.config /\ r.outcome = "verified"
                               => opened[i] <= r.at \/ r.at + job.age <= opened[i]
      BY <2>3, <2>6 DEF OpenedOn
    <3>2. \A o, a, b, at \in Nat : b <= a /\ a <= o => b <= o
      OBVIOUS
    <3>3. \A o, a, b, at \in Nat : b <= a /\ at + a <= o => at + b <= o
      OBVIOUS
    <3>4. job'.age <= opened[i]
      BY ONLY <2>2, <2>4, <3>1, <3>2
    <3>5. ASSUME NEW r \in runs', r.pair = i.pair, r.config = i.config, r.outcome = "verified"
          PROVE  opened[i] <= r.at \/ r.at + job'.age <= opened[i]
      <4>1. CASE r \in runs
        BY <2>2, <2>4, <3>1, <3>3, <3>5, <4>1
      <4>2. CASE r \notin runs
        BY <1>3, <3>1, <3>5, <4>2
      <4> QED
        BY <4>1, <4>2
    <3> QED
      BY <3>4, <3>5
  <2> QED
    BY <1>1, <2>5, <2>6 DEF OpenedOn
<1> QED
  BY <1>1, <1>4 DEF PolicyInv, ResolvesOnEvidence

\* While the maximum age is not raised and the clock is not set back, pauses, other
\* edits, expired artifacts, failed verification, retries and crashes resolve no
\* incident of freshness: only a verified artifact does that finished since it was
\* opened.  Work that ran too long must have ended, and where a missed start is
\* resolved no occurrence waits, whether it started, was cancelled or forgotten.
THEOREM ResolvedCorrect == Spec => ResolvedByEvidence
<1>1. Init => PolicyInv
  <2> SUFFICES ASSUME Policy!ProtectionInit
               PROVE  PolicyInv
    BY DEF Init
  <2>1. 0 \in Policy!Times
    BY PolicyAssumption DEF Policy!Times
  <2>2. PolicyTyped
    BY <2>1 DEF Policy!ProtectionInit, PolicyTyped
  <2>3. Policy!Open = {}
    BY DEF Policy!ProtectionInit, Policy!Open
  <2> QED
    BY <2>2, <2>3 DEF PolicyInv
<1>2. PolicyInv /\ [Next]_<<outboxVars, protection, side>> => PolicyInv' /\ (ResolvesOnEvidence \/ UNCHANGED protection)
  <2>1. ASSUME PolicyInv, UNCHANGED protection
        PROVE  PolicyInv'
    BY <2>1 DEF protection, PolicyInv, PolicyTyped, OpenedOn, Policy!Open, Policy!Times, Policy!Run, Policy!Work, Policy!Incident
  <2>2. ASSUME PolicyInv, Policy!ProtectionNext
        PROVE  PolicyInv' /\ ResolvesOnEvidence
    BY <2>2, EvaluateStep, EvidenceSteps DEF Policy!ProtectionNext, Evidence
  <2>3. [Next]_<<outboxVars, protection, side>> => Policy!ProtectionNext \/ UNCHANGED protection
    BY DEF Next
  <2> QED
    BY <2>1, <2>2, <2>3
<1>3. PolicyInv /\ [Next]_<<outboxVars, protection, side>>
        => [\A i \in Policy!Open :
              [what |-> "resolved", incident |-> i] \in announced' =>
                /\ job.enabled /\ i.pair \in job.required /\ i.config = job.config
                /\ i.kind = "freshness" /\ i \notin shifted => Policy!FreshSince(i)
                /\ i.kind = "missed_start" => Policy!NothingWaits(i)
                /\ i.kind = "long_running" /\ i \notin shifted =>
                     \A w \in work : w.pair = i.pair /\ w.config = i.config /\ w.status = "running" => opened[i] - w.since < Long
           ]_Policy!protectionVars
  BY <1>2 DEF ResolvesOnEvidence, Evidenced, protection, Policy!protectionVars
<1> QED
  BY <1>1, <1>2, <1>3, PTL DEF Spec, ResolvedByEvidence, Policy!ResolvedByEvidence
=============================================================================
