------------------------------ MODULE BackupRuns -----------------------------
(***************************************************************************)
(* The runs of one schedule from one source to one destination             *)
(* (BackupService.run, src/src/backup/backup.service.ts), the folder they  *)
(* upload to, and what the retention at the end of each run removes from   *)
(* it (rotate* of src/src/storage/storage.service.ts).                     *)
(*                                                                         *)
(* A row of backup_runs and its artifact go by the run that made them.     *)
(* Everything at the destination happens at one moment and is answered at  *)
(* a later one.  Rows that failed, were cancelled or were interrupted      *)
(* differ in their wording only and are all "failed" here.                 *)
(***************************************************************************)
EXTENDS Naturals, FiniteSets

CONSTANTS
  Runs,
  Prefixes,   \* filename prefixes of the schedule: each extends the smaller ones
  Keeps,      \* values of its retention count
  Together,   \* runs the source group admits at once
  MaxCrashes, MaxFaults,   \* bounds
  None

ASSUME BackupRunsAssumption ==
  /\ IsFiniteSet(Runs) /\ None \notin Runs
  /\ Prefixes \subseteq Nat /\ Keeps \subseteq Nat
  /\ Together \in Nat \ {0} /\ MaxCrashes \in Nat /\ MaxFaults \in Nat

VARIABLES
  row,       \* status in backup_runs
  prefix,    \* prefix of the snapshot the run works from
  keep,      \* retention count of that snapshot
  at,        \* time in the filename
  stage,     \* where run() is
  aborted,   \* its signal has fired
  listed,    \* files its retention has still to remove
  gone,      \* the file it has removed and not yet heard about
  removed,   \* removedBackups
  files,     \* artifacts at the destination
  lost,      \* removals nobody was told about
  clock, crashes, faults

run == <<row, prefix, keep, at, stage, aborted, listed, gone, removed>>
vars == <<run, files, lost, clock, crashes, faults>>

Confirming == {"listing", "deleting", "finishing"}  \* artifactConfirmed
Stages == {"new", "dumping", "verifying", "uploading", "stored", "done"} \cup Confirming

Active == {r \in Runs : stage[r] \notin {"new", "done"}}

\* Mutant of Newer: the listing is not reversed.
NewerReversed(f, g) == prefix[f] < prefix[g] \/ (prefix[f] = prefix[g] /\ at[f] < at[g])

\* The order of the filenames: prefix first, then time.
Newer(f, g) == prefix[f] > prefix[g] \/ (prefix[f] = prefix[g] /\ at[f] > at[g])

\* The files of the folder whose names start with the prefix of the run.
Matching(r) == {f \in files : prefix[f] >= prefix[r]}

\* Those beyond the retention count, which keeps everything when it is 0.
Excess(r) ==
  {f \in Matching(r) : keep[r] > 0 /\ Cardinality({g \in Matching(r) : Newer(g, f)}) >= keep[r]}

\* expireRotatedRuns: only rows that say success.
Expired(rows, fs) == [f \in Runs |-> IF f \in fs /\ rows[f] = "success" THEN "expired" ELSE rows[f]]

Goto(r, s) == stage' = [stage EXCEPT ![r] = s]

Init ==
  /\ row = [r \in Runs |-> "none"]
  /\ prefix \in [Runs -> Prefixes]
  /\ keep \in [Runs -> Keeps]
  /\ at = [r \in Runs |-> 0]
  /\ stage = [r \in Runs |-> "new"]
  /\ aborted = [r \in Runs |-> FALSE]
  /\ listed = [r \in Runs |-> {}]
  /\ gone = [r \in Runs |-> None]
  /\ removed = [r \in Runs |-> {}]
  /\ files = {} /\ lost = {} /\ clock = 0 /\ crashes = 0 /\ faults = 0

-----------------------------------------------------------------------------
Begin(r) ==
  /\ stage[r] = "new"
  /\ Cardinality(Active) < Together
  /\ row' = [row EXCEPT ![r] = "running"]
  /\ Goto(r, "dumping")
  /\ UNCHANGED <<prefix, keep, at, aborted, listed, gone, removed, files, lost, clock, crashes, faults>>

\* The dump is there and the artifact gets its name; its verification begins.
Name(r) ==
  /\ stage[r] = "dumping"
  /\ clock' = clock + 1
  /\ at' = [at EXCEPT ![r] = clock + 1]
  /\ Goto(r, "verifying")
  /\ UNCHANGED <<row, prefix, keep, aborted, listed, gone, removed, files, lost, crashes, faults>>

Upload(r) ==
  /\ stage[r] = "verifying"
  /\ ~aborted[r]
  /\ Goto(r, "uploading")
  /\ UNCHANGED <<row, prefix, keep, at, aborted, listed, gone, removed, files, lost, clock, crashes, faults>>

\* The artifact arrives at the destination.
Arrive(r) ==
  /\ stage[r] = "uploading"
  /\ files' = files \cup {r}
  /\ Goto(r, "stored")
  /\ UNCHANGED <<row, prefix, keep, at, aborted, listed, gone, removed, lost, clock, crashes, faults>>

\* The run throws before its artifact is confirmed, whatever has arrived.
Fail(r) ==
  /\ stage[r] \in {"dumping", "verifying", "uploading", "stored"}
  /\ row' = [row EXCEPT ![r] = "failed"]
  /\ Goto(r, "done")
  /\ UNCHANGED <<prefix, keep, at, aborted, listed, gone, removed, files, lost, clock, crashes, faults>>

\* The upload is acknowledged: the artifact is confirmed before anything else
\* can fail.
Confirm(r) ==
  /\ stage[r] = "stored"
  /\ row' = [row EXCEPT ![r] = "success"]
  /\ Goto(r, IF aborted[r] THEN "finishing" ELSE "listing")
  /\ UNCHANGED <<prefix, keep, at, aborted, listed, gone, removed, files, lost, clock, crashes, faults>>

-----------------------------------------------------------------------------
List(r) ==
  /\ stage[r] = "listing"
  /\ listed' = [listed EXCEPT ![r] = Excess(r)]
  /\ Goto(r, "deleting")
  /\ UNCHANGED <<row, prefix, keep, at, aborted, gone, removed, files, lost, clock, crashes, faults>>

\* The files go one by one, the newest first.  One that is missing is passed
\* over without a word, or acknowledged like the others (S3, local).
Delete(r) ==
  /\ stage[r] = "deleting" /\ gone[r] = None
  /\ ~aborted[r]
  /\ \E f \in listed[r] :
       /\ \A g \in listed[r] \ {f} : Newer(f, g)
       /\ files' = files \ {f}
       /\ \/ gone' = [gone EXCEPT ![r] = f]
          \/ f \notin files /\ UNCHANGED gone
       /\ listed' = [listed EXCEPT ![r] = @ \ {f}]
  /\ UNCHANGED <<row, prefix, keep, at, stage, aborted, removed, lost, clock, crashes, faults>>

\* The destination acknowledges, and onRemoved expires the row.  When the
\* database fails there, the rotation ends.
Acknowledge(r) ==
  /\ gone[r] # None
  /\ removed' = [removed EXCEPT ![r] = @ \cup {gone[r]}]
  /\ gone' = [gone EXCEPT ![r] = None]
  /\ \/ row' = Expired(row, {gone[r]}) /\ UNCHANGED <<stage, faults>>
     \/ /\ faults < MaxFaults /\ faults' = faults + 1
        /\ Goto(r, "finishing")
        /\ UNCHANGED row
  /\ UNCHANGED <<prefix, keep, at, aborted, listed, files, lost, clock, crashes>>

\* Mutant of StopRotation: the file is noted as removed before the answer.
StopRotationCounting(r) ==
  /\ stage[r] \in {"listing", "deleting"}
  /\ removed' = [removed EXCEPT ![r] = @ \cup {f \in listed[r] : \A g \in listed[r] \ {f} : Newer(f, g)}]
  /\ gone' = [gone EXCEPT ![r] = None]
  /\ lost' = lost \cup ({gone[r]} \ {None})
  /\ Goto(r, "finishing")
  /\ UNCHANGED <<row, prefix, keep, at, aborted, listed, files, clock, crashes, faults>>

\* Listing or deletion fails, or is aborted, before or after its effect:
\* 'Retention incomplete; any unacknowledged deletion requires destination
\* inspection'.
StopRotation(r) ==
  /\ stage[r] \in {"listing", "deleting"}
  /\ lost' = lost \cup ({gone[r]} \ {None})
  /\ gone' = [gone EXCEPT ![r] = None]
  /\ Goto(r, "finishing")
  /\ UNCHANGED <<row, prefix, keep, at, aborted, listed, removed, files, clock, crashes, faults>>

RotationEnds(r) ==
  \/ stage[r] = "finishing"
  \/ stage[r] = "deleting" /\ listed[r] = {} /\ gone[r] = None

\* Mutant of Finish: what onRemoved could not store is not stored again.
FinishOnce(r) ==
  /\ RotationEnds(r)
  /\ row' = [row EXCEPT ![r] = "success"]
  /\ Goto(r, "done")
  /\ UNCHANGED <<prefix, keep, at, aborted, listed, gone, removed, files, lost, clock, crashes, faults>>

\* The rows of all that was removed are expired once more, and that of the
\* run itself is set to success.
Finish(r) ==
  /\ RotationEnds(r)
  /\ row' = [Expired(row, removed[r]) EXCEPT ![r] = "success"]
  /\ Goto(r, "done")
  /\ UNCHANGED <<prefix, keep, at, aborted, listed, gone, removed, files, lost, clock, crashes, faults>>

\* The database fails there: the run stays confirmed, the removals are known
\* from its warnings only.
FinishFault(r) ==
  /\ RotationEnds(r)
  /\ faults < MaxFaults /\ faults' = faults + 1
  /\ lost' = lost \cup removed[r]
  /\ Goto(r, "done")
  /\ UNCHANGED <<row, prefix, keep, at, aborted, listed, gone, removed, files, clock, crashes>>

-----------------------------------------------------------------------------
\* Cancellation or shutdown.
Abort(r) ==
  /\ r \in Active
  /\ ~aborted[r]
  /\ aborted' = [aborted EXCEPT ![r] = TRUE]
  /\ UNCHANGED <<row, prefix, keep, at, stage, listed, gone, removed, files, lost, clock, crashes, faults>>

\* The process dies.  What a run had removed and not yet expired is lost, and
\* its row stays as it was.
Crash ==
  /\ Active # {}
  /\ crashes < MaxCrashes /\ crashes' = crashes + 1
  /\ stage' = [r \in Runs |-> IF r \in Active THEN "done" ELSE stage[r]]
  /\ lost' = lost \cup UNION {({gone[r]} \ {None}) \cup removed[r] : r \in Active}
  /\ gone' = [r \in Runs |-> None]
  /\ UNCHANGED <<row, prefix, keep, at, aborted, listed, removed, files, clock, faults>>

\* reconcileMissingArtifacts asks for the file of each row that says success.
Reconcile(f) ==
  /\ row[f] = "success"
  /\ f \notin files
  /\ row' = [row EXCEPT ![f] = "expired"]
  /\ UNCHANGED <<prefix, keep, at, stage, aborted, listed, gone, removed, files, lost, clock, crashes, faults>>

Step(r) ==
  \/ Begin(r) \/ Name(r) \/ Upload(r) \/ Arrive(r) \/ Fail(r) \/ Confirm(r)
  \/ List(r) \/ Delete(r) \/ Acknowledge(r) \/ StopRotation(r)
  \/ Finish(r) \/ FinishFault(r) \/ Abort(r) \/ Reconcile(r)

\* When every run is over nothing more happens.
Over == (\A r \in Runs : stage[r] = "done") /\ UNCHANGED vars

Next == (\E r \in Runs : Step(r)) \/ Crash \/ Over

Spec == Init /\ [][Next]_vars

-----------------------------------------------------------------------------
(* Properties. *)

TypeOK ==
  /\ row \in [Runs -> {"none", "running", "success", "expired", "failed"}]
  /\ prefix \in [Runs -> Prefixes] /\ keep \in [Runs -> Keeps] /\ at \in [Runs -> Nat]
  /\ stage \in [Runs -> Stages] /\ aborted \in [Runs -> BOOLEAN]
  /\ listed \in [Runs -> SUBSET Runs] /\ removed \in [Runs -> SUBSET Runs]
  /\ gone \in [Runs -> Runs \cup {None}]
  /\ files \subseteq Runs /\ lost \subseteq Runs
  /\ clock \in Nat /\ crashes \in Nat /\ faults \in Nat

\* A row expires only when its artifact has really gone: no restore point is
\* written off that still exists, whatever fails and whoever overlaps.
ExpiredIsGone == \A f \in Runs : row[f] = "expired" => f \notin files

\* A row that says success has its artifact, unless a removal was never
\* acknowledged or could not be recorded; then the run that removed it said so.
SuccessIsStored ==
  \A f \in Runs :
    row[f] = "success" /\ f \notin files =>
      f \in lost \/ \E r \in Active : gone[r] = f \/ f \in removed[r]

Confirmed == {r \in Runs : row[r] \in {"success", "expired"}}

\* The newest confirmed artifact is never removed, also when later uploads
\* failed and left something behind, and when the retention count changes.
NewestConfirmedKept ==
  \A f \in Confirmed : (\A g \in Confirmed \ {f} : at[f] > at[g]) => f \in files

\* 'Removed n older backups': a run removes only what is older than its own.
OnlyOlderRemoved == \A r \in Runs : \A f \in removed[r] : at[f] < at[r]
=============================================================================
