------------------------------- MODULE MCAlerts -------------------------------
(***************************************************************************)
(* The two ends of an alert, for TLC: the outbox that delivers notices and *)
(* the protection policy that decides on incidents.  A behaviour is one of *)
(* the one or of the other: they meet only in the events they exchange,    *)
(* which Outbox takes in any order.                                        *)
(***************************************************************************)
EXTENDS Outbox

CONSTANTS Pairs, Configs, Ages, Grace, Long, MaxTime, MaxRuns, MaxWork, MaxEdits

VARIABLES now, job, runs, work, opened, announced, shifted, edits, side

\* What the policy counts in: the clock, which MaxTime bounds, and thresholds.
ASSUME PolicyAssumption ==
  /\ {MaxTime, MaxRuns, MaxWork, MaxEdits} \subseteq Nat
  /\ {Grace, Long} \cup Ages \subseteq Nat

Policy == INSTANCE Protection

protection == <<now, job, runs, work, opened, announced, shifted, edits>>

Init ==
  /\ OutboxInit /\ Policy!ProtectionInit /\ side \in {"outbox", "protection"}
  /\ side = "outbox" => <<job.config, job.age>> = CHOOSE first \in Configs \X Ages : TRUE

Next ==
  /\ UNCHANGED side
  /\ \/ side = "outbox" /\ OutboxNext /\ UNCHANGED protection
     \/ side = "protection" /\ Policy!ProtectionNext /\ UNCHANGED outboxVars

Spec ==
  /\ Init /\ [][Next]_<<outboxVars, protection, side>>
  /\ OutboxFairness

\* Rows, events, incidents and evidence are of their types.
TypesOK == OutboxTypeOK /\ Policy!ProtectionTypeOK

\* What protection.service.ts announces as fresh again is so by evidence that came
\* after the incident, while the age is not raised and the clock not set back; work
\* that ran too long has ended, and where a start was missed nothing waits.
ResolvedByEvidence == Policy!ResolvedByEvidence

\* test/protection-policy.spec.ts:82: a recovery has a new verified artifact.
RecoveredIsVerified == Policy!RecoveredIsVerified
===============================================================================
