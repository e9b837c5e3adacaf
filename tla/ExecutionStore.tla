--------------------------- MODULE ExecutionStore ---------------------------
(***************************************************************************)
(* The durable queue of VaultBack: the tables backup_executions,           *)
(* backup_execution_pairs and backup_execution_attempts, and the           *)
(* transactions of src/src/backup/execution.store.ts over them.  A value   *)
(* of Store is one committed content of those tables; every transaction is *)
(* an operator from Store to Store.                                        *)
(*                                                                         *)
(* An execution e submits pairs <<e, s>>, one for each selection s (a      *)
(* source connection and a storage target).  A pair is tried at most       *)
(* RetryCount[s] + 1 times; only its latest attempt is ever read back by   *)
(* the code, so the attempts of a pair are their number and the status of  *)
(* the latest one.                                                         *)
(***************************************************************************)
EXTENDS Naturals, FiniteSets

CONSTANTS Executions,   \* identities of executions, used once each
          Selections,   \* (connection, storage target) combinations
          Connections,  \* saved source connections
          ConnOf,       \* the connection of a selection
          Rank,         \* order in which the pairs of an execution are inserted
          RetryCount,   \* retry_count in the configuration snapshot of a pair
          Groups        \* source groups, automatic ones and aliases

ASSUME StoreAssumption ==
  /\ ConnOf \in [Selections -> Connections]
  /\ Rank \in [Selections -> Nat]
  /\ \A s, t \in Selections : Rank[s] = Rank[t] => s = t
  /\ RetryCount \in [Selections -> Nat]
  /\ Groups # {}

Pairs == Executions \X Selections

(* Statuses of an execution. "none" is a row that does not exist yet. *)
ExecOpen     == {"queued", "running", "retrying"}
ExecActive   == ExecOpen \cup {"cancel_requested"}
ExecTerminal == {"success", "partial_failure", "failed", "cancelled", "interrupted"}
ExecStatus   == {"none"} \cup ExecActive \cup ExecTerminal

(* Statuses of a pair. *)
PairReady    == {"queued", "retry_wait"}
PairBusy     == {"running", "cancel_requested"}
PairTerminal == {"success", "failed", "cancelled", "interrupted", "not_started"}
PairStatus   == {"none"} \cup PairReady \cup PairBusy \cup PairTerminal

(* Statuses of the latest attempt of a pair; what executePair can return. *)
Outcomes      == {"success", "failed", "cancelled", "interrupted"}
AttemptStatus == {"none", "running"} \cup Outcomes

Store == [pstat    : [Pairs -> PairStatus],
          estat    : [Executions -> ExecStatus],
          tries    : [Pairs -> Nat],             \* attempts started so far
          last     : [Pairs -> AttemptStatus],   \* status of the latest attempt
          recorded : SUBSET Pairs,  \* the run row of the latest attempt says 'success'
          delayed  : SUBSET Pairs,  \* next_attempt_at lies in the future
          group    : [Pairs -> Groups],          \* source_group_id, fixed on insertion
          seq      : [Executions -> Nat],        \* enqueue_sequence
          prio     : [Executions -> Nat]]        \* priority

EmptyStore ==
  [pstat    |-> [p \in Pairs |-> "none"],
   estat    |-> [e \in Executions |-> "none"],
   tries    |-> [p \in Pairs |-> 0],
   last     |-> [p \in Pairs |-> "none"],
   recorded |-> {},
   delayed  |-> {},
   group    |-> [p \in Pairs |-> CHOOSE g \in Groups : TRUE],
   seq      |-> [e \in Executions |-> 0],
   prio     |-> [e \in Executions |-> 0]]

-----------------------------------------------------------------------------
(* Reading the store. *)

\* The pairs that execution e really has.
PairsOf(d, e) == {p \in Pairs : p[1] = e /\ d.pstat[p] # "none"}

\* Mutant of Ready: forgets executions that only wait for a retry.
ReadyWithoutRetrying(d) ==
  {p \in Pairs : d.pstat[p] \in PairReady /\ d.estat[p[1]] \in {"queued", "running"}}

\* readyPairs(): what the queue offers to the coordinator.
Ready(d) == {p \in Pairs : d.pstat[p] \in PairReady /\ d.estat[p[1]] \in ExecOpen}

\* ORDER BY e.priority DESC, e.enqueue_sequence, p.rowid
Ahead(d, p, q) ==
  \/ d.prio[p[1]] > d.prio[q[1]]
  \/ /\ d.prio[p[1]] = d.prio[q[1]]
     /\ \/ d.seq[p[1]] < d.seq[q[1]]
        \/ /\ d.seq[p[1]] = d.seq[q[1]]
           /\ Rank[p[2]] < Rank[q[2]]

\* The pair has work that is queued or running, as the guards of
\* assignGroup and of the settings editor understand it.
Unfinished(d, p) == d.pstat[p] \in PairReady \cup PairBusy

-----------------------------------------------------------------------------
(* The status of an execution as finishAttempt derives it from all its     *)
(* pairs; before is the status it has, stat the pairs after the update.    *)

AllTerminal(P, stat) == \A p \in P : stat[p] \in PairTerminal
Some(P, stat, s)     == \E p \in P : stat[p] = s

Verdict(P, stat) ==
  IF \A p \in P : stat[p] = "success" THEN "success"
  ELSE IF Some(P, stat, "success") THEN "partial_failure"
  ELSE IF Some(P, stat, "failed") THEN "failed"
  ELSE IF Some(P, stat, "interrupted") THEN "interrupted"
  ELSE "failed"

Progress(P, stat) ==
  IF Some(P, stat, "running") THEN "running"
  ELSE IF Some(P, stat, "retry_wait") THEN "retrying"
  ELSE "queued"

\* Mutant of Aggregate: a late result overwrites cancel_requested.
AggregateForgetsCancel(before, P, stat) ==
  IF AllTerminal(P, stat) THEN Verdict(P, stat) ELSE Progress(P, stat)

Aggregate(before, P, stat) ==
  IF before = "cancel_requested"
    THEN IF AllTerminal(P, stat) THEN "cancelled" ELSE "cancel_requested"
    ELSE IF AllTerminal(P, stat) THEN Verdict(P, stat) ELSE Progress(P, stat)

-----------------------------------------------------------------------------
(* Transactions. *)

\* insert(): a new execution e with one queued pair for each selection in S;
\* grp gives the source group of a connection at this moment.
Insert(d, e, S, n, grp) ==
  [d EXCEPT !.pstat = [p \in Pairs |-> IF p[1] = e /\ p[2] \in S THEN "queued" ELSE @[p]],
            !.estat = [@ EXCEPT ![e] = "queued"],
            !.group = [p \in Pairs |-> IF p[1] = e /\ p[2] \in S
                                         THEN grp[ConnOf[p[2]]] ELSE @[p]],
            !.seq   = [@ EXCEPT ![e] = n]]

\* startAttempt() for every pair of A.  next_attempt_at is left as it is: it
\* has elapsed.  The new attempt has no run row yet.
StartAttempts(d, A) ==
  [d EXCEPT !.pstat    = [p \in Pairs |-> IF p \in A THEN "running" ELSE @[p]],
            !.last     = [p \in Pairs |-> IF p \in A THEN "running" ELSE @[p]],
            !.tries    = [p \in Pairs |-> IF p \in A THEN @[p] + 1 ELSE @[p]],
            !.recorded = @ \ A,
            !.estat    = [e \in Executions |-> IF \E p \in A : p[1] = e
                                                 THEN "running" ELSE @[e]]]

\* finishAttempt() ignores an attempt that is no longer running.
CanFinish(d, p) == d.last[p] = "running" /\ d.pstat[p] \in PairBusy

\* What is recorded for the attempt: a cancelled pair never ends as a failure.
Recorded(d, p, outcome) ==
  IF d.pstat[p] = "cancel_requested" /\ outcome # "success" THEN "cancelled" ELSE outcome

\* Mutant of WillRetry: one retry too many.
WillRetryOnceMore(d, p, outcome) ==
  /\ d.pstat[p] # "cancel_requested"
  /\ outcome = "failed"
  /\ d.tries[p] <= RetryCount[p[2]] + 1

\* attemptNumber <= retry_count, for a failure that nobody cancelled.
WillRetry(d, p, outcome) ==
  /\ d.pstat[p] # "cancel_requested"
  /\ outcome = "failed"
  /\ d.tries[p] <= RetryCount[p[2]]

FinishAttempt(d, p, outcome) ==
  LET e     == p[1]
      retry == WillRetry(d, p, outcome)
      stat  == [d.pstat EXCEPT ![p] = IF retry THEN "retry_wait" ELSE Recorded(d, p, outcome)]
  IN  IF ~CanFinish(d, p) THEN d
      ELSE [d EXCEPT !.last    = [@ EXCEPT ![p] = Recorded(d, p, outcome)],
                     !.pstat   = stat,
                     !.delayed = IF retry THEN @ \cup {p} ELSE @ \ {p},
                     !.estat   = [@ EXCEPT ![e] = Aggregate(d.estat[e], PairsOf(d, e), stat)]]

\* Mutant of RequestCancellation: running pairs are not marked.
CancelWaitingOnly(d, e) ==
  LET mine == PairsOf(d, e)
  IN  IF d.estat[e] \notin ExecActive THEN d
      ELSE [d EXCEPT
             !.pstat   = [p \in Pairs |-> IF p \in mine /\ @[p] \in PairReady
                                             THEN "not_started" ELSE @[p]],
             !.delayed = @ \ {p \in mine : d.pstat[p] \in PairReady},
             !.estat   = [@ EXCEPT ![e] = IF \E p \in mine : d.pstat[p] \in PairBusy
                                            THEN "cancel_requested" ELSE "cancelled"]]

\* requestCancellation(): waiting pairs never start, running ones are marked.
RequestCancellation(d, e) ==
  LET mine == PairsOf(d, e)
  IN  IF d.estat[e] \notin ExecActive THEN d
      ELSE [d EXCEPT
             !.pstat   = [p \in Pairs |->
                            IF p \notin mine THEN @[p]
                            ELSE IF @[p] \in PairReady THEN "not_started"
                            ELSE IF @[p] = "running" THEN "cancel_requested"
                            ELSE @[p]],
             !.delayed = @ \ {p \in mine : d.pstat[p] \in PairReady},
             !.estat   = [@ EXCEPT ![e] = IF \E p \in mine : d.pstat[p] \in PairBusy
                                            THEN "cancel_requested" ELSE "cancelled"]]

\* prioritize()
SetPriority(d, e, n) == [d EXCEPT !.prio = [@ EXCEPT ![e] = n]]

-----------------------------------------------------------------------------
(* Consistency of the store. *)

\* The stored status of execution e agrees with its pairs.
StatusAgreesOf(d, e) ==
  LET mine == PairsOf(d, e)
  IN  /\ d.estat[e] = "none" <=> mine = {}
      /\ d.estat[e] \in ExecOpen =>
           /\ ~AllTerminal(mine, d.pstat)
           /\ d.estat[e] = Progress(mine, d.pstat)
      /\ d.estat[e] \in ExecOpen \cup (ExecTerminal \ {"cancelled"}) =>
           \A p \in mine : d.pstat[p] \notin {"cancel_requested", "cancelled", "not_started"}
      /\ d.estat[e] = "cancel_requested" =>
           /\ ~AllTerminal(mine, d.pstat)
           /\ \A p \in mine : d.pstat[p] \in {"cancel_requested"} \cup PairTerminal
      /\ d.estat[e] = "cancelled" => AllTerminal(mine, d.pstat)
      /\ d.estat[e] \in ExecTerminal \ {"cancelled"} =>
           AllTerminal(mine, d.pstat) /\ d.estat[e] = Verdict(mine, d.pstat)

\* The latest attempt of pair p agrees with the pair.
AttemptsAgreeOf(d, p) ==
  /\ d.last[p] = "running" <=> d.pstat[p] \in PairBusy
  /\ d.pstat[p] \in PairTerminal \ {"not_started"} => d.last[p] = d.pstat[p]
  /\ d.pstat[p] = "retry_wait" => d.last[p] = "failed" /\ d.tries[p] <= RetryCount[p[2]]
  /\ d.pstat[p] \in {"none", "queued"} => d.tries[p] = 0
  /\ d.tries[p] <= RetryCount[p[2]] + 1
=============================================================================
