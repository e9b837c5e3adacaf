------------------------------- MODULE Outbox -------------------------------
(***************************************************************************)
(* The notification outbox (system/notification-outbox.service.ts): rows   *)
(* made from the events of executions and protection incidents, and the    *)
(* one delivery worker that sends them to a provider.                      *)
(*                                                                         *)
(* Each step is one synchronous stretch of the handlers: up to the await   *)
(* of sendNotification, or from its answer to the next one.                *)
(***************************************************************************)
EXTENDS Naturals, Sequences, SequencesExt, FiniteSets

CONSTANTS
  Executions,   \* executions whose attempts are reported
  Incidents,    \* protection incidents
  Muteable,     \* kinds of notice an administrator switches off and on
  MaxBacklog,   \* bound: events that wait to become notices
  Batch,        \* events that one materialize() takes (250 in the code)
  Limit,        \* rows that one pass of the delivery worker reads (25)
  Attempts,     \* deliveries tried before a notice is exhausted (5)
  MaxFaults     \* bound: crashes, orderly stops and receipts that are not written

VARIABLES
  execution,    \* per execution: its status, as far as notices tell it apart
  incident,     \* per incident: its status
  events,       \* execution_events beyond notification_event_cursor, in order
  outbox,       \* notification_outbox
  flush,        \* flush(): the rows still to do and the one being sent
  muted,        \* kinds that the notification settings switch off
  service,      \* the process: up, stopping (stop() called) or down
  sends,        \* per notice: requests made to the provider, ever
  lost,         \* per notice: requests whose answer left no receipt
  faults        \* crashes, orderly stops and receipts that were not written

ASSUME OutboxAssumption ==
  /\ IsFiniteSet(Executions) /\ IsFiniteSet(Incidents)
  /\ {MaxBacklog, MaxFaults} \subseteq Nat /\ {Batch, Limit, Attempts} \subseteq Nat \ {0}

outboxVars == <<execution, incident, events, outbox, flush, muted, service, sends, lost, faults>>

Verdicts == {"success", "recovered", "final_failure"}
Ended == {"succeeded", "healed", "failed", "cancelled"}
Notices == (Executions \X ({"first_failure"} \cup Verdicts)) \cup (Incidents \X {"opened", "resolved"})

Statuses == {"none", "pending", "delivered", "superseded", "suppressed", "exhausted"}
Row == [status : Statuses, attempts : 0..Attempts, delayed : BOOLEAN, rowid : Nat]
Idle == [left |-> <<>>, sending |-> {}]

OutboxTypeOK ==
  /\ execution \in [Executions -> {"quiet", "failing"} \cup Ended]
  /\ incident \in [Incidents -> {"none", "open", "resolved", "closed"}]
  /\ events \in Seq([of : Executions \cup Incidents, what : {"changed", "opened", "resolved", "closed"}])
  /\ Len(events) <= MaxBacklog
  /\ outbox \in [Notices -> Row]
  /\ flush.sending \subseteq Notices /\ flush.left \in Seq([notice : Notices, attempts : 0..Attempts])
  /\ muted \subseteq Muteable /\ service \in {"up", "stopping", "down"}
  /\ {sends, lost} \subseteq [Notices -> Nat] /\ faults \in 0..MaxFaults

OutboxInit ==
  /\ execution = [x \in Executions |-> "quiet"] /\ incident = [i \in Incidents |-> "none"]
  /\ events = <<>>
  /\ outbox = [n \in Notices |-> [status |-> "none", attempts |-> 0, delayed |-> FALSE, rowid |-> 0]]
  /\ flush = Idle /\ muted = {} /\ service = "up"
  /\ sends = [n \in Notices |-> 0] /\ lost = sends /\ faults = 0

-----------------------------------------------------------------------------
\* Rows.

Recorded(o) == {n \in Notices : o[n].status # "none"}

\* The order of the rows is kept as long as they are pending.
Newest(o) == Max({0} \cup {o[n].rowid : n \in Notices})
Settled(row, s) == [row EXCEPT !.status = s, !.delayed = FALSE, !.rowid = 0]

\* INSERT OR IGNORE: the event's identity is the notice.
Record(o, n) ==
  IF n \in Recorded(o) THEN o
  ELSE [o EXCEPT ![n].status = "pending", ![n].rowid = Newest(o) + 1]

Supersede(o, n) ==
  IF o[n].status = "pending" THEN [o EXCEPT ![n] = Settled(@, "superseded")] ELSE o

VerdictOf(x) ==
  CASE execution[x] = "succeeded" -> "success"
    [] execution[x] = "healed" -> "recovered"
    [] OTHER -> "final_failure"

\* With a bug: the alert of a cancelled execution is forgotten.
OfExecutionKeepsAlert(o, x) ==
  LET first == <<x, "first_failure">> IN
  CASE execution[x] \in {"quiet", "cancelled"} -> o
    [] execution[x] = "failing" -> Record(o, first)
    [] OTHER -> Record(Supersede(o, first), <<x, VerdictOf(x)>>)

\* The notices of an execution follow from its status now, not from the event.
OfExecution(o, x) ==
  LET first == <<x, "first_failure">> IN
  CASE execution[x] = "quiet" -> o
    [] execution[x] = "failing" -> Record(o, first)
    [] execution[x] = "cancelled" -> Supersede(o, first)
    [] OTHER -> Record(Supersede(o, first), <<x, VerdictOf(x)>>)

OfIncident(o, i, what) ==
  CASE what = "opened" -> Record(o, <<i, "opened">>)
    [] what = "closed" -> Supersede(o, <<i, "opened">>)
    [] what = "resolved" -> Record(Supersede(o, <<i, "opened">>), <<i, "resolved">>)

OfEvent(o, e) == IF e.what = "changed" THEN OfExecution(o, e.of) ELSE OfIncident(o, e.of, e.what)

Lesser(a, b) == IF a < b THEN a ELSE b

\* materialize(): the next events become rows, in one transaction with the cursor.
Reached == Lesser(Batch, Len(events))
Materialized ==
  LET after[k \in 0..Reached] == IF k = 0 THEN outbox ELSE OfEvent(after[k - 1], events[k])
  IN after[Reached]

-----------------------------------------------------------------------------
\* The delivery worker.

Rows(o, due) ==
  LET older(n) == {m \in due : o[m].rowid < o[n].rowid}
  IN [k \in 1..Cardinality(due) |->
        LET n == CHOOSE m \in due : Cardinality(older(m)) = k - 1
        IN [notice |-> n, attempts |-> o[n].attempts]]

\* With a bug: what was refused once is not looked at again.
DueOnce(o) == Rows(o, {n \in Notices : o[n].status = "pending" /\ o[n].attempts = 0})

\* The oldest rows that are due.
Due(o) ==
  LET rows == Rows(o, {n \in Notices : o[n].status = "pending" /\ ~o[n].delayed})
  IN SubSeq(rows, 1, Lesser(Limit, Len(rows)))

Wanted(o, n) == o[n].status = "pending" /\ n[2] \notin muted

\* The loop runs on to the next row that is sent: rows that are not pending any
\* more are passed over, rows whose kind is switched off become suppressed.
Continue(o, rows) ==
  \E todo \in {IF service = "stopping" THEN <<>> ELSE rows} :
  \E at \in {SelectInSeq(todo, LAMBDA r : Wanted(o, r.notice))} :
  LET passed == IF at = 0 THEN 1..Len(todo) ELSE 1..(at - 1)
      next == IF at = 0 THEN {} ELSE {todo[at].notice}
      quiet == {n \in {todo[k].notice : k \in passed} : o[n].status = "pending"}
  IN /\ outbox' = [n \in Notices |-> IF n \in quiet THEN Settled(o[n], "suppressed") ELSE o[n]]
     /\ flush' = IF at = 0 THEN Idle ELSE [left |-> SubSeq(todo, at, Len(todo)), sending |-> next]
     /\ sends' = [n \in Notices |-> IF n \in next THEN sends[n] + 1 ELSE sends[n]]

\* Rows of a pass that ends early: the next one should become suppressed, the
\* write fails, and flush() rejects.
BrokenOff(o, rows) ==
  {SubSeq(rows, 1, k - 1) : k \in {k \in 1..Len(rows) :
     /\ o[rows[k].notice].status = "pending"
     /\ \A j \in 1..k : ~Wanted(o, rows[j].notice)}}

Pass(o, rows, broken) == \E done \in IF broken THEN BrokenOff(o, rows) ELSE {rows} : Continue(o, done)

\* poll() and deliverDue(): every second, also while a provider is slow.  A
\* materialize() that fails changes nothing, and the pass is not begun.
Polled(broken) ==
  /\ service = "up"
  /\ events' = SubSeq(events, Reached + 1, Len(events))
  /\ \E o \in {Materialized} :
       IF flush = Idle THEN Pass(o, Due(o), broken) ELSE ~broken /\ outbox' = o /\ UNCHANGED <<flush, sends>>
  /\ UNCHANGED <<execution, incident, muted, service, lost, faults>>

Poll == Polled(FALSE)

Delivered(o, r) ==
  [o EXCEPT ![r.notice] = [Settled(o[r.notice], "delivered") EXCEPT !.attempts = @ + 1]]

Retried(o, r, limit) ==
  [o EXCEPT ![r.notice] =
     IF r.attempts + 1 >= limit THEN [Settled(@, "exhausted") EXCEPT !.attempts = r.attempts + 1]
     ELSE [@ EXCEPT !.status = "pending", !.attempts = r.attempts + 1, !.delayed = TRUE]]

\* With a bug: the row is not read again.
RefusedUnread(o, r) == Retried(o, r, Attempts)

\* The failed row is tried again later, unless it was superseded meanwhile.
Refused(o, r) ==
  IF o[r.notice].status # "pending" THEN o ELSE Retried(o, r, Attempts)

\* The provider accepts the message, or refuses it or does not answer in time.
\* An accepted one whose receipt cannot be written is taken for a refusal.
Answered(broken) ==
  /\ service # "down" /\ flush # Idle
  /\ \E o \in {Delivered(outbox, Head(flush.left)), Refused(outbox, Head(flush.left))} :
       Pass(o, Tail(flush.left), broken)
  /\ UNCHANGED <<execution, incident, events, muted, service, lost, faults>>

Answer == Answered(FALSE)

\* A row that is switched off cannot be written: the pass ends there.
PassFails == Polled(TRUE) \/ Answered(TRUE)

LoseReceipt ==
  /\ faults' = faults + 1
  /\ lost' = [n \in Notices |-> IF n \in flush.sending THEN lost[n] + 1 ELSE lost[n]]

\* The refusal, or what is taken for one, cannot be written either: flush()
\* rejects, the row stays pending and due, with its attempt not counted, and
\* the other rows of the pass wait for the next one.
ReceiptLost ==
  /\ service # "down" /\ flush # Idle /\ faults < MaxFaults
  /\ flush' = Idle /\ LoseReceipt
  /\ UNCHANGED <<execution, incident, events, outbox, muted, service, sends>>

\* next_attempt_at passes.
BackoffElapses(n) ==
  /\ outbox[n].delayed
  /\ outbox' = [outbox EXCEPT ![n].delayed = FALSE]
  /\ UNCHANGED <<execution, incident, events, flush, muted, service, sends, lost, faults>>

-----------------------------------------------------------------------------
\* What is reported: a transition and its event are one transaction.

Progress(x) ==
  /\ service # "down"
  /\ \E s \in CASE execution[x] = "quiet" -> {"failing", "succeeded", "healed", "failed", "cancelled"}
                [] execution[x] = "failing" -> {"failing", "healed", "failed", "cancelled"}
                [] OTHER -> {} :
       execution' = [execution EXCEPT ![x] = s]
  /\ Len(events) < MaxBacklog
  /\ events' = Append(events, [of |-> x, what |-> "changed"])
  /\ UNCHANGED <<incident, outbox, flush, muted, service, sends, lost, faults>>

Judge(i) ==
  /\ service # "down" /\ Len(events) < MaxBacklog
  /\ \E s \in CASE incident[i] = "none" -> {"open"} [] incident[i] = "open" -> {"resolved", "closed"} [] OTHER -> {} :
       /\ incident' = [incident EXCEPT ![i] = s]
       /\ events' = Append(events, [of |-> i, what |-> IF s = "open" THEN "opened" ELSE s])
  /\ UNCHANGED <<execution, outbox, flush, muted, service, sends, lost, faults>>

\* An administrator switches a kind of notice off or on.
Mute(kind) ==
  /\ service # "down"
  /\ muted' = (muted \ {kind}) \cup ({kind} \ muted)
  /\ UNCHANGED <<execution, incident, events, outbox, flush, service, sends, lost, faults>>

\* stop(): nothing more is begun; the process waits for the message under way.
Stop ==
  /\ service = "up" /\ faults < MaxFaults
  /\ service' = "stopping" /\ faults' = faults + 1
  /\ UNCHANGED <<execution, incident, events, outbox, flush, muted, sends, lost>>

\* With a bug: the message under way is not awaited.
ExitAtOnce ==
  /\ service = "stopping" /\ service' = "down" /\ flush' = Idle
  /\ UNCHANGED <<execution, incident, events, outbox, muted, sends, lost, faults>>

Exit ==
  /\ service = "stopping" /\ flush = Idle /\ service' = "down"
  /\ UNCHANGED <<execution, incident, events, outbox, flush, muted, sends, lost, faults>>

Crash ==
  /\ service # "down" /\ faults < MaxFaults
  /\ service' = "down" /\ flush' = Idle /\ LoseReceipt
  /\ UNCHANGED <<execution, incident, events, outbox, muted, sends>>

Start ==
  /\ service = "down" /\ service' = "up"
  /\ UNCHANGED <<execution, incident, events, outbox, flush, muted, sends, lost, faults>>

OutboxNext ==
  \/ Poll \/ Answer \/ PassFails \/ ReceiptLost \/ Stop \/ Exit \/ Crash \/ Start
  \/ \E n \in Notices : BackoffElapses(n)
  \/ \E x \in Executions : Progress(x)
  \/ \E i \in Incidents : Judge(i)
  \/ \E kind \in Muteable : Mute(kind)

\* The timer, the ten-second limit of a request, the clock and the supervisor.
\* Writes fail now and then: that a pass breaks off is never owed, and MaxFaults
\* bounds the receipts that are lost.
OutboxFairness ==
  /\ WF_outboxVars(Poll) /\ WF_outboxVars(Answer) /\ WF_outboxVars(Exit) /\ WF_outboxVars(Start)
  /\ \A n \in Notices : WF_outboxVars(BackoffElapses(n))

-----------------------------------------------------------------------------
\* Delivery is at least once, and every request that is made for a notice is
\* accounted for: it is a counted attempt, the one under way, one whose row was
\* superseded before it failed, or one that left no receipt, as a crash cut it
\* off or as both writes of its outcome failed.  Polling while a provider is
\* slow, passes that break off, retries and an orderly stop never make another.
SendsAccounted ==
  \A n \in Notices :
    sends[n] <= outbox[n].attempts + lost[n]
                  + Cardinality({n} \cap flush.sending)
                  + (IF outbox[n].status = "superseded" /\ n \notin flush.sending THEN 1 ELSE 0)

\* A notice that is settled is never sent again: neither a late refusal nor an
\* event that is read again makes it pending.
SettledStaysSettled ==
  [][\A n \in Notices :
       outbox[n].status \notin {"none", "pending"} =>
         outbox'[n].status \notin {"none", "pending"} /\ (sends'[n] = sends[n])]_outboxVars

\* When the cursor has caught up with the events, an execution that ended has its one verdict
\* and no failure alert that waits; an incident that ended has no alert that
\* waits; and a failure or an open incident has been noticed.
OutboxAgrees ==
  events = <<>> =>
    /\ \A x \in Executions :
         /\ {v \in Verdicts : <<x, v>> \in Recorded(outbox)}
              = IF execution[x] \in Ended \ {"cancelled"} THEN {VerdictOf(x)} ELSE {}
         /\ execution[x] \in Ended => outbox[<<x, "first_failure">>].status # "pending"
         /\ execution[x] = "failing" => <<x, "first_failure">> \in Recorded(outbox)
    /\ \A i \in Incidents :
         /\ incident[i] \in {"resolved", "closed"} => outbox[<<i, "opened">>].status # "pending"
         /\ incident[i] = "resolved" <=> <<i, "resolved">> \in Recorded(outbox)
         /\ incident[i] # "none" => <<i, "opened">> \in Recorded(outbox)

\* Every notice is settled in the end, through refusals, restarts and writes that
\* fail now and then, as the executions and incidents of an instance are finitely many.
EveryNoticeSettles == <>[](\A n \in Notices : outbox[n].status # "pending")
=============================================================================
