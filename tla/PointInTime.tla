----------------------------- MODULE PointInTime -----------------------------
(***************************************************************************)
(* Point-in-time recovery of one source (backup.service.ts, capturePitr):  *)
(* scheduled captures of its binary logs, baselines, and what the recorded *)
(* coverage lets a rehearsal replay.                                       *)
(*                                                                         *)
(* A log is its number and how many events it holds.  A capture claims     *)
(* what the server had when it listed its logs.                            *)
(***************************************************************************)
EXTENDS Naturals, FiniteSets

CONSTANTS
  Targets,      \* storage targets
  MaxLogs,      \* bound: logs of the server, ever
  MaxEvents,    \* bound: events of a log
  MaxCaptures,  \* bound: captures, and baselines and edits together
  NoBaseline

VARIABLES
  first, last,  \* the logs that the server still has
  size,         \* events of each log
  baselines,    \* baseline runs with their coordinates, by number
  dumping,      \* coordinates of a baseline that is being made
  source,       \* the row of pitr_sources
  artifacts,    \* pitr_artifacts of scheduled captures
  capture,      \* the capture under way
  batch,        \* captures begun
  edits

pitrVars == <<first, last, size, baselines, dumping, source, artifacts, capture, batch, edits>>

Logs == 1..MaxLogs
Coordinate == [log : Logs, pos : 0..MaxEvents]
Baselines == 1..MaxCaptures
Idle == [stage |-> "none"]

PitrTypeOK ==
  /\ first \in Logs /\ last \in first..MaxLogs /\ size \in [Logs -> 0..MaxEvents]
  /\ \E b \in 0..MaxCaptures : baselines \in [1..b -> Coordinate]
  /\ dumping = NoBaseline \/ dumping \in Coordinate
  /\ source \in [target : Targets, gap : {"unknown", "gap", "continuous"}, base : Baselines \cup {NoBaseline}, upto : Coordinate]
  /\ artifacts \subseteq [log : Logs, events : 0..MaxEvents, target : Targets, batch : Nat, status : {"pending", "captured", "failed"}]
  /\ batch \in 0..MaxCaptures /\ edits \in 0..MaxCaptures

PitrInit ==
  /\ first = 1 /\ last = 1 /\ size = [l \in Logs |-> 0]
  /\ baselines = <<>> /\ dumping = NoBaseline
  /\ source \in [target : Targets, gap : {"unknown"}, base : {NoBaseline}, upto : {[log |-> 1, pos |-> 0]}]
  /\ artifacts = {} /\ capture = Idle /\ batch = 0 /\ edits = 0

Newest == Cardinality(DOMAIN baselines)

-----------------------------------------------------------------------------
\* The server writes events, begins another log, and removes its oldest.

Write ==
  /\ size[last] < MaxEvents /\ size' = [size EXCEPT ![last] = @ + 1]
  /\ UNCHANGED <<first, last, baselines, dumping, source, artifacts, capture, batch, edits>>

Rotate ==
  /\ last < MaxLogs /\ last' = last + 1
  /\ UNCHANGED <<first, size, baselines, dumping, source, artifacts, capture, batch, edits>>

Purge ==
  /\ first < last /\ first' = first + 1
  /\ UNCHANGED <<last, size, baselines, dumping, source, artifacts, capture, batch, edits>>

\* run(): a dump of the configured schedule records its coordinates, and resets
\* the coverage when it succeeds.
Dump ==
  /\ dumping = NoBaseline /\ Newest + edits < MaxCaptures
  /\ dumping' = [log |-> last, pos |-> size[last]]
  /\ UNCHANGED <<first, last, size, baselines, source, artifacts, capture, batch, edits>>

Baseline ==
  /\ dumping # NoBaseline /\ dumping' = NoBaseline
  /\ baselines' = [n \in 1..Newest + 1 |-> IF n = Newest + 1 THEN dumping ELSE baselines[n]]
  /\ source' = [source EXCEPT !.gap = "unknown", !.base = NoBaseline]
  /\ UNCHANGED <<first, last, size, artifacts, capture, batch, edits>>

\* savePitrConfiguration(): another target; nothing is proven for it.
Configure(t) ==
  /\ Newest + edits < MaxCaptures /\ edits' = edits + 1
  /\ source' = [source EXCEPT !.target = t, !.gap = "unknown"]
  /\ UNCHANGED <<first, last, size, baselines, dumping, artifacts, capture, batch>>

-----------------------------------------------------------------------------
\* capturePitr().

StoredOf(rows, t) == {a \in rows : a.target = t /\ a.status = "captured"}
Stored(t) == StoredOf(artifacts, t)
Has(t, l) == \E a \in Stored(t) : a.log = l

\* With a bug: no log is captured twice.
RequestedOnce(t, from, to) == {l \in from..to : ~Has(t, l)}

\* The logs that have no artifact yet, and the newest one again.
Requested(t, from, to) == {l \in from..to : l = to \/ ~Has(t, l)}

Recorded(gap) == [source EXCEPT !.target = capture.target, !.gap = gap]

\* The baseline is read before the server is asked for its logs.
Begin ==
  /\ capture.stage = "none" /\ batch < MaxCaptures /\ batch' = batch + 1
  /\ capture' = [stage |-> "listing", target |-> source.target, base |-> Newest]
  /\ UNCHANGED <<first, last, size, baselines, dumping, source, artifacts, edits>>

\* Without a baseline nothing is claimed; without its log there is a gap.
List ==
  /\ capture.stage = "listing"
  /\ IF capture.base = 0 \/ baselines[capture.base].log < first
     THEN capture' = Idle /\ source' = Recorded(IF capture.base = 0 THEN "unknown" ELSE "gap")
     ELSE /\ capture' = [stage |-> "dumping", target |-> capture.target, base |-> capture.base,
                         upto |-> [log |-> last, pos |-> size[last]],
                         logs |-> Requested(capture.target, baselines[capture.base].log, last)]
          /\ UNCHANGED source
  /\ UNCHANGED <<first, last, size, baselines, dumping, artifacts, batch, edits>>

\* The binlog client copies what the requested logs hold now.
CopyLogs ==
  /\ capture.stage = "dumping" /\ \A l \in capture.logs : l >= first
  /\ capture' = [stage |-> "uploading", target |-> capture.target, base |-> capture.base,
                 upto |-> capture.upto, logs |-> capture.logs, copied |-> size]
  /\ UNCHANGED <<first, last, size, baselines, dumping, source, artifacts, batch, edits>>

Upload(l) ==
  /\ capture.stage = "uploading" /\ l \in capture.logs
  /\ artifacts' = artifacts \cup {[log |-> l, events |-> capture.copied[l], target |-> capture.target,
                                   batch |-> batch, status |-> "pending"]}
  /\ capture' = [capture EXCEPT !.logs = @ \ {l}]
  /\ UNCHANGED <<first, last, size, baselines, dumping, source, batch, edits>>

Settled(status) ==
  {IF a.batch = batch /\ a.status = "pending" THEN [a EXCEPT !.status = status] ELSE a : a \in artifacts}

\* All files are stored: the coverage from the baseline's log on is judged.
Complete ==
  /\ capture.stage = "uploading" /\ capture.logs = {}
  /\ artifacts' = Settled("captured")
  /\ source' = [target |-> capture.target, base |-> capture.base, upto |-> capture.upto,
                gap |-> IF baselines[capture.base].log..capture.upto.log
                             \subseteq {a.log : a \in StoredOf(Settled("captured"), capture.target)}
                        THEN "continuous" ELSE "gap"]
  /\ capture' = Idle
  /\ UNCHANGED <<first, last, size, baselines, dumping, batch, edits>>

\* A client or an upload fails.
Fail ==
  /\ capture.stage # "none"
  /\ artifacts' = Settled("failed") /\ source' = Recorded("gap") /\ capture' = Idle
  /\ UNCHANGED <<first, last, size, baselines, dumping, batch, edits>>

Crash ==
  /\ capture.stage # "none" \/ dumping # NoBaseline
  /\ capture' = Idle /\ dumping' = NoBaseline
  /\ UNCHANGED <<first, last, size, baselines, source, artifacts, batch, edits>>

PitrNext ==
  \/ Write \/ Rotate \/ Purge \/ Dump \/ Baseline
  \/ \E t \in Targets : Configure(t)
  \/ Begin \/ List \/ CopyLogs \/ Complete \/ Fail \/ Crash
  \/ \E l \in Logs : Upload(l)

PitrSpec == PitrInit /\ [][PitrNext]_pitrVars

-----------------------------------------------------------------------------
\* What a rehearsal of the recorded baseline replays: the latest artifact of
\* every log from the baseline's on.

Rehearsable == source.gap = "continuous" /\ source.base # NoBaseline
Covered == baselines[source.base].log..source.upto.log
LatestOf(l) == CHOOSE a \in Stored(source.target) : a.log = l /\ \A b \in Stored(source.target) : b.log = l => b.batch <= a.batch

\* Coverage that is called continuous has an artifact of every log since the
\* baseline on the configured target, and the newest one up to the claimed time:
\* through purged logs, failed batches, crashes, changed targets and baselines
\* that appear during a capture.
ContinuousHasEveryLog ==
  Rehearsable =>
    /\ \A l \in Covered : Has(source.target, l)
    /\ LatestOf(source.upto.log).events >= source.upto.pos

\* docs/RECOVERY_ASSURANCE.md:34, "A continuous capture status is evidence that
\* the baseline coordinate and visible log sequence have been captured": every
\* event up to the claimed time is in the artifacts that a rehearsal replays.
ContinuousIsCaptured ==
  Rehearsable =>
    \A l \in Covered : LatestOf(l).events >= IF l = source.upto.log THEN source.upto.pos ELSE size[l]
=============================================================================
