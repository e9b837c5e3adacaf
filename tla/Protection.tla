----------------------------- MODULE Protection -----------------------------
(***************************************************************************)
(* The protection policy of one schedule (backup/protection.service.ts):   *)
(* what evidence says of each source and destination pair, and the         *)
(* incidents that evaluateIncidents() opens and ends every minute.         *)
(*                                                                         *)
(* The schedule is created at time 0.  A configuration stands for the      *)
(* fingerprint of a selection; thresholds count in the clock's unit.       *)
(***************************************************************************)
EXTENDS Integers, FiniteSets

CONSTANTS
  Pairs,        \* pairs of a source and a destination
  Configs,      \* configurations of the schedule
  Ages,         \* values of max_verified_age_hours
  Grace,        \* missed_start_grace_minutes
  Long,         \* long_running_warning_minutes
  MaxTime,      \* bound: the clock
  MaxRuns,      \* bound: backup runs on record
  MaxWork,      \* bound: pairs of executions on record
  MaxEdits      \* bound: edits of the schedule and of the clock

VARIABLES
  now,          \* the clock, which may be set back
  job,          \* the schedule's row, with the pairs whose destination is required
  runs,         \* backup_runs, none of which is ever deleted
  work,         \* pairs of executions
  opened,       \* opened_at of the open incident of a condition, Never without one
  announced,    \* the events that the last evaluation wrote
  shifted,      \* history: open incidents since which the age was raised or the clock set back
  edits

protectionVars == <<now, job, runs, work, opened, announced, shifted, edits>>

Times == 0..MaxTime
Never == -1
Unrecorded == "unrecorded"
Kinds == {"freshness", "missed_start", "long_running"}
Incident == [pair : Pairs, config : Configs, kind : Kinds]

\* A run has failed when it ended in any way without a verified artifact.  One
\* that ends before the dump begins has not recorded its configuration.
Run == [pair : Pairs, config : Configs \cup {Unrecorded}, started : Times, at : Times \cup {Never},
        outcome : {"running", "verified", "failed", "expired"}]
Work == [pair : Pairs, config : Configs, scheduled : Times \cup {Never}, queued : Times,
         status : {"queued", "running", "waiting", "ended"}, since : Times \cup {Never}]

Open == {i \in Incident : opened[i] # Never}

ProtectionTypeOK ==
  /\ now \in Times
  /\ job \in [enabled : BOOLEAN, config : Configs, age : Ages, required : SUBSET Pairs, next : Times \cup {Never}]
  /\ runs \subseteq Run /\ work \subseteq Work
  /\ opened \in [Incident -> Times \cup {Never}] /\ shifted \subseteq Open /\ edits \in 0..MaxEdits
  /\ announced \subseteq [what : {"opened", "resolved", "closed"}, incident : Incident]

ProtectionInit ==
  /\ now = 0
  /\ job \in [enabled : {TRUE}, config : Configs, age : Ages, required : {Pairs}, next : {0}]
  /\ runs = {} /\ work = {} /\ announced = {} /\ shifted = {} /\ edits = 0
  /\ opened = [i \in Incident |-> Never]

-----------------------------------------------------------------------------
\* assess().

Latest(times) == CHOOSE t \in times : \A u \in times : u <= t

RunsOf(p) == {r \in runs : r.pair = p /\ r.config = job.config}
WorkOf(p) == {w \in work : w.pair = p /\ w.config = job.config}

\* With a bug: an artifact that was uploaded counts, verified or not.
VerifiedOrNot(p) == {r.at : r \in {r \in RunsOf(p) : r.outcome # "running" /\ r.at <= now}}

Verified(p) == {r.at : r \in {r \in RunsOf(p) : r.outcome = "verified" /\ r.at <= now}}

\* Every run of the pair counts, whatever its configuration and however it ended.
HasHistory(p) == WorkOf(p) # {} \/ \E r \in runs : r.pair = p
SameConfig(p) == WorkOf(p) # {} \/ RunsOf(p) # {}

\* Evidence from the future: the clock was set back.
Future(p) ==
  \/ \E r \in RunsOf(p) : r.at > now \/ r.started > now
  \/ \E w \in WorkOf(p) : w.queued > now \/ (w.status = "running" /\ w.since > now)

\* A new schedule has one age of grace; another configuration inherits nothing.
Freshness(p) ==
  IF Verified(p) # {} THEN IF now - Latest(Verified(p)) >= job.age THEN "bad" ELSE "good"
  ELSE IF (~HasHistory(p) \/ SameConfig(p)) /\ now < job.age THEN "good"
  ELSE IF HasHistory(p) /\ ~SameConfig(p) THEN "unknown"
  ELSE "bad"

\* The newest occurrence waits too long, or one is due and was not enqueued.
MissedStart(p) ==
  LET occurrences == {w \in WorkOf(p) : w.scheduled # Never}
      newest == {w \in occurrences : w.scheduled = Latest({v.scheduled : v \in occurrences})}
  IN IF \/ \E w \in newest : w.status = "queued" /\ now - w.scheduled >= Grace
        \/ job.next # Never /\ now - job.next >= Grace
     THEN "bad" ELSE "good"

LongRunning(p) ==
  IF \E w \in WorkOf(p) : w.status = "running" /\ now - w.since >= Long THEN "bad" ELSE "good"

Assess(p, kind) ==
  IF ~job.enabled \/ Future(p) THEN "unknown"
  ELSE CASE kind = "freshness" -> Freshness(p)
         [] kind = "missed_start" -> MissedStart(p)
         [] kind = "long_running" -> LongRunning(p)

-----------------------------------------------------------------------------
\* evaluateIncidents(): incidents of this configuration and of required
\* destinations stay open while their condition holds or is not known.

Current(i) == i.config = job.config /\ i.pair \in job.required
Bad == {i \in Incident : Current(i) /\ Assess(i.pair, i.kind) = "bad"}
Unknown == {i \in Incident : Current(i) /\ Assess(i.pair, i.kind) = "unknown"}

Evaluate ==
  LET ending == Open \ (Bad \cup Unknown)
      fresh == Bad \ Open
      event(i) == [incident |-> i, what |-> IF i \in fresh THEN "opened" ELSE IF Current(i) THEN "resolved" ELSE "closed"]
  IN /\ opened' = [i \in Incident |-> IF i \in ending THEN Never ELSE IF i \in fresh THEN now ELSE opened[i]]
     /\ announced' = {event(i) : i \in ending \cup fresh}
     /\ shifted' = shifted \ ending
     /\ UNCHANGED <<now, job, runs, work, edits>>

-----------------------------------------------------------------------------
\* What evidence comes from.

Tick ==
  /\ now < MaxTime /\ now' = now + 1 /\ announced' = {}
  /\ UNCHANGED <<job, runs, work, opened, shifted, edits>>

\* The clock is set back, at most to the time at which the schedule was created.
SetBack ==
  /\ now > 0 /\ now' = now - 1 /\ edits < MaxEdits /\ edits' = edits + 1
  /\ announced' = {} /\ shifted' = Open
  /\ UNCHANGED <<job, runs, work, opened>>

Added(scheduled) ==
  {[pair |-> p, config |-> job.config, scheduled |-> scheduled, queued |-> now,
    status |-> "queued", since |-> Never] : p \in Pairs}

\* The occurrence that is due is enqueued, unless it was before or it is skipped
\* while work is active; the next one is a unit later.
RunDue ==
  /\ job.enabled /\ job.next # Never /\ job.next <= now
  /\ \/ /\ \A w \in work : w.scheduled # job.next
        /\ Cardinality(work) + Cardinality(Pairs) <= MaxWork
        /\ work' = work \cup Added(job.next)
     \/ /\ \E w \in work : w.scheduled = job.next \/ w.status # "ended"
        /\ UNCHANGED work
  /\ job' = [job EXCEPT !.next = IF now < MaxTime THEN now + 1 ELSE Never]
  /\ announced' = {} /\ UNCHANGED <<now, runs, opened, shifted, edits>>

\* A pair that ended is run again, with the configuration recorded for it.
Again(w) == [w EXCEPT !.scheduled = Never, !.queued = now, !.status = "queued", !.since = Never]

\* Run now, and the retry of a pair.
Manual ==
  /\ \E added \in {Added(Never)} \cup {{Again(w)} : w \in {w \in work : w.status = "ended"}} :
       /\ Cardinality(work) + Cardinality(added) <= MaxWork
       /\ work' = work \cup added
  /\ announced' = {} /\ UNCHANGED <<now, job, runs, opened, shifted, edits>>

\* An attempt starts: its run is inserted, and gets as far as to record its
\* configuration or ends before.
Start(w) ==
  /\ w.status \in {"queued", "waiting"} /\ Cardinality(runs) < MaxRuns
  /\ work' = (work \ {w}) \cup {[w EXCEPT !.status = "running", !.since = now]}
  /\ \E c \in {w.config, Unrecorded} :
       runs' = runs \cup {[pair |-> w.pair, config |-> c, started |-> now, at |-> Never, outcome |-> "running"]}
  /\ announced' = {} /\ UNCHANGED <<now, job, opened, shifted, edits>>

\* The attempt ends with a verified artifact or without one, is retried later,
\* or is cut off by a crash that leaves its run as it is.
End(w) ==
  /\ w.status = "running"
  /\ \E s \in {"ended", "waiting"} :
       /\ work' = (work \ {w}) \cup {[w EXCEPT !.status = s, !.since = Never]}
       /\ \/ s = "ended" /\ UNCHANGED runs
          \/ \E r \in runs, o \in {"verified", "failed"} :
               /\ r.pair = w.pair /\ r.started = w.since /\ r.outcome = "running"
               /\ r.config = w.config \/ (r.config = Unrecorded /\ o = "failed")
               /\ s = "waiting" => o = "failed"
               /\ runs' = (runs \ {r}) \cup {[r EXCEPT !.at = now, !.outcome = o]}
  /\ announced' = {} /\ UNCHANGED <<now, job, opened, shifted, edits>>

\* A pair is cancelled before an attempt starts.
Cancel(w) ==
  /\ w.status \in {"queued", "waiting"}
  /\ work' = (work \ {w}) \cup {[w EXCEPT !.status = "ended"]}
  /\ announced' = {} /\ UNCHANGED <<now, job, runs, opened, shifted, edits>>

\* Retention or reconciliation: the artifact has gone, its row stays.
Expire(r) ==
  /\ r.outcome = "verified"
  /\ runs' = (runs \ {r}) \cup {[r EXCEPT !.outcome = "expired"]}
  /\ announced' = {} /\ UNCHANGED <<now, job, work, opened, shifted, edits>>

\* saveJobV2(): the schedule is edited, paused or resumed.
SaveJob ==
  /\ edits < MaxEdits /\ edits' = edits + 1
  /\ \E c \in Configs, a \in Ages, e \in BOOLEAN, required \in SUBSET Pairs :
       /\ job' = [enabled |-> e, config |-> c, age |-> a, required |-> required,
                  next |-> IF e /\ now < MaxTime THEN now + 1 ELSE Never]
       /\ shifted' = IF a > job.age THEN Open ELSE shifted
  /\ announced' = {} /\ UNCHANGED <<now, runs, work, opened>>

ProtectionNext ==
  \/ Evaluate \/ Tick \/ SetBack \/ RunDue \/ Manual \/ SaveJob
  \/ \E w \in work : Start(w) \/ End(w) \/ Cancel(w)
  \/ \E r \in runs : Expire(r)

-----------------------------------------------------------------------------
\* What must be there when an incident is announced as resolved.
FreshSince(i) ==
  \E r \in runs : /\ r.pair = i.pair /\ r.config = i.config /\ r.outcome = "verified"
                  /\ opened[i] <= r.at /\ r.at <= now /\ now - r.at < job.age

NothingWaits(i) ==
  \A w \in work : w.pair = i.pair /\ w.config = i.config /\ w.status = "queued" /\ w.scheduled # Never
    => \/ now - w.scheduled < Grace
       \/ \E v \in work : v.pair = i.pair /\ v.config = i.config /\ v.scheduled > w.scheduled

\* While the maximum age is not raised and the clock is not set back, only new
\* evidence resolves an incident: a verified artifact of the configuration that
\* was unprotected, which finished since the incident was opened and has not
\* expired; or that the work which ran too long has ended.  Pauses, changed
\* selections, destinations made optional, a lowered age, artifacts that expire
\* or fail verification, retries and crashes do not.  A missed start is resolved
\* when no occurrence waits but one that a newer has followed: when the work has
\* started, and also when it was cancelled or the schedule was saved again.
ResolvedByEvidence ==
  [][\A i \in Open :
       [what |-> "resolved", incident |-> i] \in announced' =>
         /\ job.enabled /\ i.pair \in job.required /\ i.config = job.config
         /\ i.kind = "freshness" /\ i \notin shifted => FreshSince(i)
         /\ i.kind = "missed_start" => NothingWaits(i)
         /\ i.kind = "long_running" /\ i \notin shifted =>
              \A w \in work : w.pair = i.pair /\ w.config = i.config /\ w.status = "running" => opened[i] - w.since < Long
    ]_protectionVars

\* test/protection-policy.spec.ts:82, "never labels changed policy as recovered
\* protection": whatever was changed since, a freshness incident that is
\* announced as resolved has a verified artifact that finished since it was
\* opened.  The code does not keep it.
RecoveredIsVerified ==
  [][\A i \in Open :
       [what |-> "resolved", incident |-> i] \in announced' /\ i.kind = "freshness" => FreshSince(i)]_protectionVars
=============================================================================
