------------------------------ MODULE MCArtifacts ----------------------------
(***************************************************************************)
(* What a destination holds, what the rows tell of it, and what people are *)
(* given of both, for TLC: the runs of a schedule with their retention,    *)
(* the captures of a source's binary logs, a dump on its way to scratch    *)
(* databases, downloads, restores, the page a browser shows, a table of it *)
(* that is told in two ways, the sessions that entitle to it.  A behaviour *)
(* is of one of these (side).                                              *)
(***************************************************************************)
EXTENDS BackupRuns, TLC

CONSTANTS
  Targets, MaxLogs, MaxEvents, MaxCaptures, NoBaseline, Downloads, Slots,
  Requests, Items, MaxChanges, MaxBreaks, MaxMoves, Connected, Failed, Nobody, Nothing,
  Users, MaxSessions, UserStreams, AddressStreams, MaxLogins, MaxAwaiting, MaxDeaths,
  Restores, Sources, Chosen, MaxOthers,
  Addresses, MaxAddresses, MaxRecorded, MaxMinutes, MaxTurns,
  Alphabets, MaxText, MaxChunk, MaxStatement

VARIABLES
  first, last, size, baselines, dumping, source, artifacts, capture, batch, edits,
  download, remote, prepared, direct, temps, timers, active, waiters, closing,
  version, newest, linked, sent, stream, seen, view, page, list, queue, selected, detail, fetch,
  waiting, breaks, moves,
  accounts, setups, setupClaim, awaiting, sessions, logins, streams, written, deaths,
  artifact, restore, databases, others,
  usage, minute, made, dropped, trailing, link, wanted, asked, shown, recorded, turns,
  alphabet, text, carry, rewritten, found, scan,
  side

\* What is counted is finite, limits are numbers, and a restore is nothing else that a
\* name may hold at a destination.
ASSUME ArtifactsAssumption ==
  /\ IsFiniteSet(Downloads) /\ Slots \in Nat
  /\ MaxLogs \in Nat \ {0} /\ MaxEvents \in Nat /\ MaxCaptures \in Nat
  /\ {MaxSessions, UserStreams, AddressStreams} \subseteq Nat \ {0}
  /\ IsFiniteSet(Sources) /\ Restores \cap {"absent", "theirs", "empty"} = {}

\* A browser makes a request, what marks an event is no number of a change, and there are
\* as many addresses as are kept.
ASSUME ViewAssumption ==
  /\ IsFiniteSet(Requests) /\ Requests # {} /\ Nothing # Connected /\ {Connected, Nothing} \cap Nat = {}
  /\ IsFiniteSet(Addresses) /\ MaxAddresses \in 1..Cardinality(Addresses)

Pitr == INSTANCE PointInTime
Download == INSTANCE Downloads
Live == INSTANCE LiveView
Access == INSTANCE Sessions
Restoring == INSTANCE Restore
Panel == INSTANCE Panels
Dumped == INSTANCE SqlStream WITH written <- rewritten, stage <- scan

live == <<version, newest, linked, sent, stream, seen, view, page, list, queue, selected, detail, fetch,
          waiting, breaks, moves>>
panels == <<usage, minute, made, dropped, trailing, link, wanted, asked, shown, recorded, turns>>
restores == <<artifact, restore, databases, others>>
access == <<accounts, setups, setupClaim, awaiting, sessions, logins, streams, written, deaths>>
downloads == <<download, remote, prepared, direct, temps, timers, active, waiters, closing>>
dump == <<alphabet, text, carry, rewritten, found, scan>>
people == <<live, access, panels>>
pitr == <<first, last, size, baselines, dumping, source, artifacts, capture, batch, edits>>

\* What is not a matter of people.
rest == <<vars, pitr, downloads, restores, dump>>

SymmetryMC == Permutations(Targets)

AlphabetsMC == {{"'", "-", "blank", "newline", ";", "ref"}, {"/", "*", "!", "'", ";", "ref"},
                {"'", "double", "backslash", ";", "ref"}, {"backtick", "'", "hash", "newline", ";", "ref"}}

ArtifactsInit ==
  /\ Init /\ Pitr!PitrInit /\ Download!DownloadsInit
  /\ Live!LiveInit /\ Access!SessionsInit /\ Restoring!RestoreInit /\ Panel!PanelsInit
  /\ Dumped!StreamInit
  /\ side \in {"runs", "pitr", "downloads", "live", "access", "restore", "panels", "stream"}
  /\ side # "runs" => \A r \in Runs : prefix[r] = 1 /\ keep[r] = 1
  /\ side # "downloads" => remote = {} /\ direct = {}
  /\ side # "restore" => /\ artifact = CHOOSE a \in Restoring!Artifacts : a.damage = "none"
                         /\ \A n \in Restoring!Names : databases[n] = "absent"
  /\ side # "stream" => alphabet = CHOOSE a \in Alphabets : TRUE

ArtifactsNext ==
  /\ UNCHANGED side
  /\ \/ side = "runs" /\ Next /\ UNCHANGED <<pitr, downloads, restores, people, dump>>
     \/ side = "pitr" /\ Pitr!PitrNext /\ UNCHANGED <<vars, downloads, restores, people, dump>>
     \/ side = "downloads" /\ Download!DownloadsNext /\ UNCHANGED <<vars, pitr, restores, people, dump>>
     \/ side = "restore" /\ Restoring!RestoreNext /\ UNCHANGED <<vars, pitr, downloads, people, dump>>
     \/ side = "stream" /\ Dumped!StreamNext /\ UNCHANGED <<vars, pitr, downloads, restores, people>>
     \/ side = "live" /\ Live!LiveNext /\ UNCHANGED <<rest, access, panels>>
     \/ side = "access" /\ Access!SessionsNext /\ UNCHANGED <<rest, live, panels>>
     \/ side = "panels" /\ Panel!PanelsNext /\ UNCHANGED <<rest, live, access>>

ArtifactsSpec == ArtifactsInit /\ [][ArtifactsNext]_<<rest, people, side>>

\* Continuous coverage has an artifact of every log (PointInTime).
ContinuousHasEveryLog == Pitr!ContinuousHasEveryLog

\* Copies, timers, transfers and those who wait agree (Downloads).
DownloadsAgree == Download!DownloadsAgree

\* A browser at rest shows the newest page, and the detail that is selected (LiveView),
\* and the page of requests by address that it was opened for, truly counted (Panels).
ViewAgrees == Live!ViewAgrees /\ Panel!PanelAgrees

\* One set-up, the limits of sessions and streams, and nothing is written for a
\* session that is revoked (Sessions).
SessionsAgree == Access!SessionsAgree

\* A restore writes to nothing but what it has created, unless confirmed (Restore).
RestoreIsolated == Restoring!RestoreIsolated
\* Rewriting and validating a dump does not depend on how it is cut into chunks
\* (SqlStream).
CutsDoNotMatter == Dumped!CutsDoNotMatter
=============================================================================
