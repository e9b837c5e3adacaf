------------------------------ MODULE Execution ------------------------------
(***************************************************************************)
(* The execution coordinator of VaultBack: src/src/backup/                 *)
(* execution.service.ts over the durable queue of ExecutionStore, with the *)
(* life of one attempt (executePair, src/src/backup/backup.service.ts) as  *)
(* far as the coordinator can see it.                                      *)
(*                                                                         *)
(* db and the settings survive the process; stage, abort and dispatchError *)
(* are its memory.  Node runs one handler at a time, so each handler is    *)
(* one action; what happens between an await and its continuation is an    *)
(* interleaving of actions.                                                *)
(***************************************************************************)
EXTENDS ExecutionStore

CONSTANTS AutoGroups,   \* automatic groups, one for each host and port
          Aliases,      \* groups that an administrator assigns
          NoAlias,
          Host0,        \* the automatic group of a connection at first
          JobSelections,\* what a schedule can submit: sets of selections
          Limits,       \* values an administrator gives to execution_concurrency
          GroupLimits,  \* values an administrator gives to a group
          MaxPriority,  \* bound on the priorities that moveAhead hands out
          MaxStops,     \* bound on crashes and shutdowns
          MaxFaults     \* bound on failing writes of the database file

ASSUME ExecutionAssumption ==
  /\ Groups = AutoGroups \cup Aliases
  /\ AutoGroups \cap Aliases = {}
  /\ NoAlias \notin Groups
  /\ Host0 \in [Connections -> AutoGroups]
  /\ JobSelections \subseteq (SUBSET Selections) \ {{}}
  /\ IsFiniteSet(Executions) /\ IsFiniteSet(Selections)
  /\ Limits \subseteq 1..32 /\ Limits # {}
  /\ GroupLimits \subseteq 1..8
  /\ MaxPriority \in Nat /\ MaxStops \in Nat /\ MaxFaults \in Nat

VARIABLES db,            \* the committed queue
          limit,         \* app_settings.execution_concurrency
          cap,           \* source_groups.concurrency
          alias,         \* the alias in source_group_id of a connection
          host,          \* the automatic group of its host and port
          phase,         \* of the process
          stage,         \* of the worker of a pair, "none" without one
          abort,         \* reason on the worker's AbortController
          dispatchError, \* a finished attempt could not be stored
          stops, faults  \* bounded counters

settings == <<limit, cap, alias, host>>
process  == <<phase, dispatchError>>
vars     == <<db, limit, cap, alias, host, phase, stage, abort, dispatchError, stops, faults>>

Phases == {"down", "recovering", "up", "draining"}
Stages == {"none", "working", "uploading", "settled"}
Aborts == {"none", "cancel", "shutdown"}

Lesser(m, n) == IF m <= n THEN m ELSE n

-----------------------------------------------------------------------------
(* Helpers. *)

\* this.workers
Workers(st) == {p \in Pairs : st[p] # "none"}

\* The attempt has not been handed to finishAttempt yet.
AtWork(p) == stage[p] \in {"working", "uploading"}

\* Requests are served from the end of bootstrap until the process exits.
Serving == phase \in {"up", "draining"}

Stopped == phase # "up" \/ dispatchError

\* sourceGroup(): an assigned alias wins over the host.
GroupNow == [c \in Connections |-> IF alias[c] = NoAlias THEN host[c] ELSE alias[c]]

\* insert() numbers executions by MAX(enqueue_sequence) + 1; rows are never
\* deleted, so that is one more than their number.
NextSeq(d) == Cardinality({e \in Executions : d.estat[e] # "none"}) + 1

Unused(e) == db.estat[e] = "none"

\* What readyPairs() offers and no retry delay holds back.
Eligible(d) == Ready(d) \ d.delayed

InGroup(d, H, g) == {q \in H : d.group[q] = g}

\* Mutant of Room: off by one.
RoomForOneMore(d, H, p, lim, cp) ==
  /\ Cardinality(H) < lim
  /\ Cardinality(InGroup(d, H, d.group[p])) <= Lesser(lim, cp[d.group[p]])

\* Workers H leave room for one more attempt of pair p.
Room(d, H, p, lim, cp) ==
  /\ Cardinality(H) < lim
  /\ Cardinality(InGroup(d, H, d.group[p])) < Lesser(lim, cp[d.group[p]])

\* Mutant of Admits: newest first.
AdmitsNewestFirst(d, W, A, lim, cp) ==
  \A p \in Eligible(d) :
    p \in A <=> Room(d, W \cup {q \in A : Ahead(d, p, q)}, p, lim, cp)

\* The loop of pump() over readyPairs(): it starts exactly the pairs of A,
\* when the workers W are there already.  A pair is tested against W and
\* the pairs that were started before it.
Admits(d, W, A, lim, cp) ==
  \A p \in Eligible(d) :
    p \in A <=> Room(d, W \cup {q \in A : Ahead(d, q, p)}, p, lim, cp)

\* pump() after a handler has brought the store to d and the workers to st.
Pump(d, st, lim, cp) ==
  \E A \in SUBSET Eligible(d) :
    /\ IF Stopped THEN A = {} ELSE Admits(d, Workers(st), A, lim, cp)
    /\ db' = StartAttempts(d, A)
    /\ stage' = [p \in Pairs |-> IF p \in A THEN "working" ELSE st[p]]
-----------------------------------------------------------------------------
Init ==
  /\ db = EmptyStore
  /\ limit \in Limits
  /\ cap = [g \in Groups |-> 1]
  /\ alias = [c \in Connections |-> NoAlias]
  /\ host = Host0
  /\ phase = "up"
  /\ stage = [p \in Pairs |-> "none"]
  /\ abort = [p \in Pairs |-> "none"]
  /\ dispatchError = FALSE
  /\ stops = 0
  /\ faults = 0

(* Submitting work. *)

\* POST /jobs/:id/executions.  The microtask that insert() queues is PumpStep.
Enqueue(e, S) ==
  /\ Serving
  /\ Unused(e)
  /\ db' = Insert(db, e, S, NextSeq(db), GroupNow)
  /\ UNCHANGED <<settings, process, stage, abort, stops, faults>>

\* runDue(): a due schedule is enqueued and the queue pumped in one handler.
RunDue(e, S) ==
  /\ ~Stopped
  /\ Unused(e)
  /\ Pump(Insert(db, e, S, NextSeq(db), GroupNow), stage, limit, cap)
  /\ UNCHANGED <<settings, process, abort, stops, faults>>

\* retry() accepts a pair that has finished, and one that never started only
\* when its whole execution is over.
Retryable(p) ==
  \/ db.pstat[p] \in PairTerminal \ {"not_started"}
  \/ db.pstat[p] = "not_started" /\ db.estat[p[1]] \in ExecTerminal

Retry(e, parent, S) ==
  /\ Serving
  /\ Unused(e)
  /\ S # {}
  /\ \A s \in S : Retryable(<<parent, s>>)
  /\ db' = Insert(db, e, S, NextSeq(db), GroupNow)
  /\ UNCHANGED <<settings, process, stage, abort, stops, faults>>

-----------------------------------------------------------------------------
(* Dispatching. *)

\* pump() from a microtask of insert(), from its own timer or from the cron.
PumpStep ==
  /\ ~Stopped
  /\ Pump(db, stage, limit, cap)
  /\ db' # db
  /\ UNCHANGED <<settings, process, abort, stops, faults>>

\* A write of pump() fails at pair f: the pairs before it have started and
\* the rest of the loop is lost.  An HTTP handler or the cron reports it.
PumpFault ==
  /\ ~Stopped
  /\ faults < MaxFaults
  /\ \E A \in SUBSET Eligible(db) :
       /\ Admits(db, Workers(stage), A, limit, cap)
       /\ \E f \in A :
            LET B == {q \in A : Ahead(db, q, f)}
            IN  /\ db' = StartAttempts(db, B)
                /\ stage' = [p \in Pairs |-> IF p \in B THEN "working" ELSE stage[p]]
  /\ faults' = faults + 1
  /\ UNCHANGED <<settings, process, abort, stops>>

\* The clock passes next_attempt_at.  Saved schedules wait at least 30 s
\* between attempts: the worker of the failed attempt has gone by then.
DelayElapses(p) ==
  /\ p \in db.delayed
  /\ stage[p] = "none"
  /\ db' = [db EXCEPT !.delayed = @ \ {p}]
  /\ UNCHANGED <<settings, process, stage, abort, stops, faults>>

-----------------------------------------------------------------------------
(* One attempt. *)

\* Dump and verification are done; the last throwIfAborted before the upload.
BeginUpload(p) ==
  /\ stage[p] = "working"
  /\ abort[p] = "none"
  /\ stage' = [stage EXCEPT ![p] = "uploading"]
  /\ UNCHANGED <<db, settings, process, abort, stops, faults>>

\* The upload is acknowledged and the run row says 'success'; a provider may
\* complete it although the attempt was aborted meanwhile.
RecordArtifact(p) ==
  /\ stage[p] = "uploading"
  /\ p \notin db.recorded
  /\ db' = [db EXCEPT !.recorded = @ \cup {p}]
  /\ UNCHANGED <<settings, process, stage, abort, stops, faults>>

\* What an attempt without an artifact returns.  One that nobody aborted is
\* 'failed', or 'interrupted' when executePair itself throws.
Unsuccessful(reason) ==
  CASE reason = "cancel"   -> {"cancelled"}
    [] reason = "shutdown" -> {"interrupted"}
    [] reason = "none"     -> {"failed", "interrupted"}

Finish(p, outcome) ==
  /\ db' = FinishAttempt(db, p, outcome)
  /\ stage' = [stage EXCEPT ![p] = "settled"]
  /\ UNCHANGED <<settings, process, abort, stops>>

\* executePair returns and its continuation stores the outcome.
Settle(p) ==
  /\ AtWork(p)
  /\ \E outcome \in (IF p \in db.recorded THEN {"success"} ELSE Unsuccessful(abort[p])) :
       Finish(p, outcome)
  /\ UNCHANGED faults

\* A write in the finally block of executePair fails: it throws although the
\* artifact is recorded.
SettleFault(p) ==
  /\ AtWork(p)
  /\ p \in db.recorded
  /\ faults < MaxFaults
  /\ Finish(p, IF abort[p] = "cancel" THEN "cancelled" ELSE "interrupted")
  /\ faults' = faults + 1

\* Mutant of FinishFault: the error is only logged.
FinishFaultLogged(p) ==
  /\ AtWork(p)
  /\ faults < MaxFaults
  /\ stage' = [stage EXCEPT ![p] = "settled"]
  /\ faults' = faults + 1
  /\ UNCHANGED <<db, settings, process, abort, stops>>

\* The outcome cannot be stored: the coordinator stops until a restart.
FinishFault(p) ==
  /\ AtWork(p)
  /\ faults < MaxFaults
  /\ dispatchError' = TRUE
  /\ stage' = [stage EXCEPT ![p] = "settled"]
  /\ faults' = faults + 1
  /\ UNCHANGED <<db, settings, phase, abort, stops>>

\* Mutant of Release: returns early when the coordinator has stopped.
ReleaseUnlessStopped(p) ==
  /\ stage[p] = "settled"
  /\ ~Stopped
  /\ abort' = [abort EXCEPT ![p] = "none"]
  /\ Pump(db, [stage EXCEPT ![p] = "none"], limit, cap)
  /\ UNCHANGED <<settings, process, stops, faults>>

\* The finally at the end of the chain: the slot is free, and pumped.
Release(p) ==
  /\ stage[p] = "settled"
  /\ abort' = [abort EXCEPT ![p] = "none"]
  /\ Pump(db, [stage EXCEPT ![p] = "none"], limit, cap)
  /\ UNCHANGED <<settings, process, stops, faults>>

-----------------------------------------------------------------------------
(* Requests of an administrator. *)

\* Controllers of the workers in W are aborted; only the first reason counts.
Aborted(W, reason) ==
  [p \in Pairs |-> IF p \in W /\ stage[p] # "none" /\ abort[p] = "none"
                      THEN reason ELSE abort[p]]

\* cancel(): stopping a running pair has to be confirmed.
Cancel(e, confirmed) ==
  /\ Serving
  /\ ~Unused(e)
  /\ confirmed \/ \A p \in PairsOf(db, e) : db.pstat[p] # "running"
  /\ abort' = Aborted(PairsOf(db, e), "cancel")
  /\ Pump(RequestCancellation(db, e), stage, limit, cap)
  /\ UNCHANGED <<settings, process, stops, faults>>

\* moveAhead(): one more than the highest priority there is.
MoveAhead(e) ==
  /\ Serving
  /\ db.estat[e] = "queued"
  /\ \E n \in 1..MaxPriority :
       /\ \A f \in Executions : db.prio[f] < n
       /\ n > 1 => \E f \in Executions : db.prio[f] = n - 1
       /\ Pump(SetPriority(db, e, n), stage, limit, cap)
  /\ UNCHANGED <<settings, process, abort, stops, faults>>

\* configure()
Configure(n) ==
  /\ Serving
  /\ limit' = n
  /\ Pump(db, stage, n, cap)
  /\ UNCHANGED <<cap, alias, host, process, abort, stops, faults>>

\* Mutant of HasWork: looks at running pairs only.
HasRunningWork(c) == \E p \in Pairs : ConnOf[p[2]] = c /\ db.pstat[p] \in PairBusy

\* A pair of connection c is queued or running.
HasWork(c) == \E p \in Pairs : ConnOf[p[2]] = c /\ Unfinished(db, p)

\* assignGroup(): exactly the connections of C are members of alias g afterwards.
AssignAlias(g, C, k) ==
  LET removed == {c \in Connections \ C : alias[c] = g}
      changed == removed \cup {c \in C : alias[c] # g}
  IN  /\ Serving
      /\ \A c \in changed : ~HasWork(c)
      /\ alias' = [c \in Connections |-> IF c \in C THEN g
                                       ELSE IF c \in removed THEN NoAlias
                                       ELSE alias[c]]
      /\ cap' = [cap EXCEPT ![g] = k]
      /\ Pump(db, stage, limit, cap')
      /\ UNCHANGED <<limit, host, process, abort, stops, faults>>

\* assignGroup() of an automatic group can only change its limit.
LimitGroup(g, k) ==
  /\ Serving
  /\ cap' = [cap EXCEPT ![g] = k]
  /\ Pump(db, stage, limit, cap')
  /\ UNCHANGED <<limit, alias, host, process, abort, stops, faults>>

\* saveConnection() with another host or port.  Its guard does not look at
\* pairs in cancel_requested.
MoveConnection(c, g) ==
  /\ Serving
  /\ g # host[c]
  /\ \A p \in Pairs : ConnOf[p[2]] = c => db.pstat[p] \notin PairReady \cup {"running"}
  /\ host' = [host EXCEPT ![c] = g]
  /\ UNCHANGED <<db, limit, cap, alias, process, stage, abort, stops, faults>>

-----------------------------------------------------------------------------
(* Stopping and starting the process. *)

\* drain(): nothing starts any more, every attempt is told to stop.
Shutdown ==
  /\ phase = "up"
  /\ stops < MaxStops
  /\ phase' = "draining"
  /\ abort' = Aborted(Pairs, "shutdown")
  /\ stops' = stops + 1
  /\ UNCHANGED <<db, settings, stage, dispatchError, faults>>

\* The memory of the process is gone.
Vanish ==
  /\ phase' = "down"
  /\ stage' = [p \in Pairs |-> "none"]
  /\ abort' = [p \in Pairs |-> "none"]
  /\ dispatchError' = FALSE
  /\ UNCHANGED <<db, settings, faults>>

\* The database is closed when every worker is done.
Exit ==
  /\ phase = "draining"
  /\ Workers(stage) = {}
  /\ Vanish
  /\ UNCHANGED stops

Crash ==
  /\ phase # "down"
  /\ stops < MaxStops
  /\ Vanish
  /\ stops' = stops + 1

Boot ==
  /\ phase = "down"
  /\ phase' = "recovering"
  /\ UNCHANGED <<db, settings, stage, abort, dispatchError, stops, faults>>

\* Mutant of RecoverAttempt: does not look at the run row.
RecoverAsInterrupted(p) ==
  /\ phase = "recovering"
  /\ db.last[p] = "running"
  /\ db' = FinishAttempt(db, p, "interrupted")
  /\ UNCHANGED <<settings, process, stage, abort, stops, faults>>

\* recover(): a running attempt is a success if its run row says so.  Each
\* attempt is a transaction of its own.
RecoverAttempt(p) ==
  /\ phase = "recovering"
  /\ db.last[p] = "running"
  /\ db' = FinishAttempt(db, p, IF p \in db.recorded THEN "success" ELSE "interrupted")
  /\ UNCHANGED <<settings, process, stage, abort, stops, faults>>

\* Everything is recovered; runDue(true) and pump() follow as RunDue and
\* PumpStep of the process that is up.
BootDone ==
  /\ phase = "recovering"
  /\ \A p \in Pairs : db.last[p] # "running"
  /\ phase' = "up"
  /\ UNCHANGED <<db, settings, stage, abort, dispatchError, stops, faults>>

-----------------------------------------------------------------------------
Submit ==
  \E e \in Executions :
    \/ \E S \in JobSelections : Enqueue(e, S) \/ RunDue(e, S)
    \/ \E parent \in Executions, S \in SUBSET Selections : Retry(e, parent, S)

Attempt ==
  \E p \in Pairs :
    \/ BeginUpload(p) \/ RecordArtifact(p) \/ Settle(p) \/ Release(p)
    \/ SettleFault(p) \/ FinishFault(p)
    \/ DelayElapses(p)

Administer ==
  \/ \E e \in Executions : MoveAhead(e) \/ \E confirmed \in BOOLEAN : Cancel(e, confirmed)
  \/ \E n \in Limits : Configure(n)
  \/ \E k \in GroupLimits :
       \/ \E g \in Aliases, C \in SUBSET Connections : AssignAlias(g, C, k)
       \/ \E g \in AutoGroups : LimitGroup(g, k)
  \/ \E c \in Connections, g \in AutoGroups : MoveConnection(c, g)

Lifecycle ==
  Shutdown \/ Exit \/ Crash \/ Boot \/ (\E p \in Pairs : RecoverAttempt(p)) \/ BootDone

Next == Submit \/ PumpStep \/ PumpFault \/ Attempt \/ Administer \/ Lifecycle

Spec == Init /\ [][Next]_vars

\* The timer and the cron pump again and again, an attempt ends some time, a
\* settled attempt is released, the clock goes on, and a process that went
\* down is started again and boots.
Fairness ==
  /\ WF_vars(PumpStep) /\ WF_vars(Exit) /\ WF_vars(Boot) /\ WF_vars(BootDone)
  /\ \A p \in Pairs : /\ WF_vars(Settle(p)) /\ WF_vars(Release(p))
                      /\ WF_vars(DelayElapses(p)) /\ WF_vars(RecoverAttempt(p))

FairSpec == Spec /\ Fairness

-----------------------------------------------------------------------------
(* Properties. *)

\* The types of the queue, the settings and the memory of the process.
TypeOK ==
  /\ db \in Store
  /\ limit \in Limits
  /\ cap \in [Groups -> 1..8]
  /\ alias \in [Connections -> Aliases \cup {NoAlias}]
  /\ host \in [Connections -> AutoGroups]
  /\ phase \in Phases
  /\ stage \in [Pairs -> Stages]
  /\ abort \in [Pairs -> Aborts]
  /\ dispatchError \in BOOLEAN
  /\ stops \in 0..MaxStops
  /\ faults \in 0..MaxFaults

\* The status stored for an execution says what its pairs say, although
\* finishAttempt, startAttempt, requestCancellation and insert each compute
\* it in their own way: an open execution has unfinished pairs and none that
\* was cancelled, a cancelling one only waits for running pairs, a closed one
\* is over.
StatusAgrees == \A e \in Executions : StatusAgreesOf(db, e)

\* A pair is marked as running exactly when its latest attempt is, and a
\* finished pair has the status of that attempt; no pair is attempted more
\* often than its configuration allows, whatever restarts come in between.
AttemptsAgree == \A p \in Pairs : AttemptsAgreeOf(db, p)

\* The worker of p in st and its abort reason in ab agree with the store d: at
\* work it has a running pair; a pair whose worker is still registered is not offered
\* again, for the map of workers is keyed by the pair; and only the worker of a
\* cancelled pair is told to cancel.
SlotAgrees(d, st, ab, p) ==
  /\ st[p] \in {"working", "uploading"} => d.pstat[p] \in PairBusy
  /\ st[p] # "none" => \/ d.pstat[p] \in PairBusy \cup PairTerminal
                       \/ d.pstat[p] = "retry_wait" /\ p \in d.delayed
  /\ ab[p] = "cancel" => d.pstat[p] \in {"cancel_requested"} \cup PairTerminal

SlotsAgreeOf(d, st, ab) == \A p \in Pairs : SlotAgrees(d, st, ab, p)

\* Every running pair of the store has a worker.
EveryRunHasWorker(d, st) ==
  \A p \in Pairs : d.pstat[p] \in PairBusy => st[p] \in {"working", "uploading"}

\* The map of workers agrees with the store through every interleaving of
\* settling, releasing, pumping, cancelling, failing writes and restarts; as
\* long as the database works no slot is lost.
SlotsAgree ==
  /\ SlotsAgreeOf(db, stage, abort)
  /\ phase \in {"up", "draining"} /\ ~dispatchError => EveryRunHasWorker(db, stage)
  /\ phase \in {"down", "recovering"} => Workers(stage) = {}

\* An attempt that has ended is a success exactly when its artifact is
\* recorded, through cancellation, shutdown, crash and recovery.
ArtifactsAgree ==
  \A p \in Pairs : db.last[p] \in Outcomes => (db.last[p] = "success" <=> p \in db.recorded)

\* A pair that waits or runs is counted in the group its connection belongs
\* to now, so that the limit of a server covers all the work on it.
GroupAgrees ==
  \A p \in Pairs : db.pstat[p] \in PairReady \cup {"running"} => db.group[p] = GroupNow[ConnOf[p[2]]]

\* The attempts a step starts.
Started == {p \in Pairs : db'.tries[p] > db.tries[p]}

\* No attempt starts beyond the limits in force, whichever handler pumps.
CapacityAtStart ==
  [][\A p \in Started :
       /\ Cardinality(Workers(stage')) <= limit'
       /\ Cardinality(InGroup(db', Workers(stage'), db'.group[p])) <= cap'[db'.group[p]]]_vars

\* FIFO admission: a pair overtakes one that is ahead of it and not delayed
\* only when the group of that one is full, so never within a group.
FifoAdmission ==
  [][\A p \in Started, q \in Eligible(db') :
       Ahead(db', q, p) =>
         /\ db'.group[p] # db'.group[q]
         /\ Cardinality(InGroup(db', Workers(stage'), db'.group[q])) >= Lesser(limit', cap'[db'.group[q]])]_vars

\* What callers rely on: the coordinator implements the contract.
Contract == INSTANCE ExecutionContract WITH
  result  <- [p \in Pairs |-> IF Unfinished(db, p) THEN "pending" ELSE db.pstat[p]],
  verdict <- [e \in Executions |-> IF db.estat[e] \in ExecActive THEN "open" ELSE db.estat[e]],
  asked   <- {e \in Executions : db.estat[e] \in {"cancel_requested", "cancelled"}}

ContractHolds == Contract!Spec

\* Every execution ends, through retries, cancellation, restarts and
\* competition for slots.
EveryExecutionEnds ==
  \A e \in Executions : db.estat[e] \in ExecActive ~> db.estat[e] \in ExecTerminal

\* A shutdown waits for running work, and does not wait for ever.
ShutdownCompletes == phase = "draining" ~> phase = "down"

\* 'Cannot change source host, port or engine with queued or running work'
\* (saveConnection).
IdentityFixedUnderWork ==
  [][\A c \in Connections : host'[c] # host[c] =>
       \A p \in Pairs : ConnOf[p[2]] = c => ~AtWork(p)]_vars
=============================================================================
