-------------------------- MODULE ExecutionContract --------------------------
(***************************************************************************)
(* What VaultBack promises about an execution, whatever the queue, the     *)
(* capacity, retries, restarts and failures do in between: every submitted *)
(* pair ends in at most one final result, a cancelled execution reports    *)
(* only successes, cancellations and pairs that never started, the verdict *)
(* comes with the last result and says what the results say, and neither   *)
(* is ever changed.  After the statuses of docs/superpowers/specs/         *)
(* 2026-10-31-backup-execution.md.                                         *)
(***************************************************************************)
CONSTANTS Executions, Selections

VARIABLES result,   \* of a pair: none, pending, or final
          verdict,  \* of an execution: none, open, or final
          asked     \* the executions whose cancellation was requested

contractVars == <<result, verdict, asked>>

PairsIn(e) == {e} \X Selections

Init == /\ result = [p \in Executions \X Selections |-> "none"]
        /\ verdict = [e \in Executions |-> "none"]
        /\ asked = {}

\* The verdict on the results r of execution e.
Judgement(e, r) ==
  LET results == {r[p] : p \in PairsIn(e)} \ {"none"}
  IN  CASE "pending" \in results -> "open"
        [] "pending" \notin results /\ e \in asked' -> "cancelled"
        [] "pending" \notin results /\ e \notin asked' ->
             IF results = {"success"} THEN "success"
             ELSE IF "success" \in results THEN "partial_failure"
             ELSE IF "failed" \in results THEN "failed"
             ELSE "interrupted"

Submit(e, S) ==
  /\ verdict[e] = "none"
  /\ S # {}
  /\ result' = [p \in DOMAIN result |-> IF p \in {e} \X S THEN "pending" ELSE result[p]]
  /\ verdict' = [verdict EXCEPT ![e] = "open"]
  /\ UNCHANGED asked

Resolve(p, outcome) ==
  /\ result[p] = "pending"
  /\ outcome \in IF p[1] \in asked THEN {"success", "cancelled"}
                                   ELSE {"success", "failed", "interrupted"}
  /\ result' = [result EXCEPT ![p] = outcome]
  /\ UNCHANGED asked
  /\ verdict' = [verdict EXCEPT ![p[1]] = Judgement(p[1], result')]

\* The pairs of N will never start; the other pending ones are being stopped.
Ask(e, N) ==
  /\ verdict[e] = "open"
  /\ \A p \in N : result[p] = "pending"
  /\ asked' = asked \cup {e}
  /\ result' = [p \in DOMAIN result |-> IF p \in N THEN "not_started" ELSE result[p]]
  /\ verdict' = [verdict EXCEPT ![e] = Judgement(e, result')]

Next ==
  \/ \E e \in Executions, S \in SUBSET Selections : Submit(e, S)
  \/ \E p \in Executions \X Selections :
       \E outcome \in {"success", "failed", "interrupted", "cancelled"} : Resolve(p, outcome)
  \/ \E e \in Executions : \E N \in SUBSET PairsIn(e) : Ask(e, N)

Spec == Init /\ [][Next]_contractVars
=============================================================================
