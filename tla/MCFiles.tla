------------------------------- MODULE MCFiles -------------------------------
(***************************************************************************)
(* What a process that dies leaves behind, for TLC: the database file and  *)
(* the lock of its directory, an import staged beside it, the claim of a   *)
(* capture, scratch databases on a recovery server, a release that is half *)
(* installed.  A behaviour is one of one of these (side): they meet at the *)
(* end of a process, which each takes at any time.                         *)
(***************************************************************************)
EXTENDS DatabaseFile, DataOwner

CONSTANTS
  Packages, Own, Nothing, MaxImportCrashes, Updaters, Installers, Paths, Package, MaxKills, MaxChecks,
  Captures, Instances, Numbers, Tests, Artifacts, Pitrs, Parts, MaxForeign, MaxStops

VARIABLES
  database, key, pendingDatabase, pendingKey, step, staging, cut, importCrashes,
  files, modules, app, running, offered, status, script, next, saved, manages, stopped, latest, mixed, kills, checks,
  claim, token, number, others, over,
  row, worker, server, service, stops,
  side

\* What the processes have in common with nothing else: files that are absent, and
\* a package.json among the managed paths.
ASSUME FilesAssumption ==
  /\ Nothing \notin Packages \cup {Own} \cup Captures \cup Numbers \cup [by : Captures, process : Numbers]
  /\ Nothing # [by |-> Nothing, process |-> Nothing]
  /\ Paths \in Nat /\ Package \in 1 .. Paths
  /\ Parts \in Nat \ {0} /\ {MaxImportCrashes, MaxKills, MaxChecks, MaxStops} \subseteq Nat

Import == INSTANCE ConfigImport WITH crashes <- importCrashes, MaxCrashes <- MaxImportCrashes
Updates == INSTANCE Update
Claim == INSTANCE WorkClaim WITH done <- over
Recovery == INSTANCE Rehearsals

import == <<database, key, pendingDatabase, pendingKey, step, staging, cut, importCrashes>>
update == <<files, modules, app, running, offered, status, script, next, saved, manages, stopped, latest, mixed, kills, checks>>
claims == <<claim, token, number, others, over>>
rehearsals == <<row, worker, server, service, stops>>
sides == <<vars, ownerVars, import, update, claims, rehearsals>>

FilesInit ==
  /\ Init /\ OwnerInit /\ Import!ImportInit /\ Updates!UpdateInit /\ Claim!ClaimInit /\ Recovery!RehearsalInit
  /\ side \in {"database", "owner", "import", "update", "claim", "recovery"}
  /\ side # "claim" => number = CHOOSE first \in Numbers : TRUE
  /\ side # "owner" => pid = CHOOSE first \in [Starts -> Pids] : TRUE

FilesNext ==
  /\ UNCHANGED side
  /\ \/ side = "database" /\ Next /\ UNCHANGED <<ownerVars, import, update, claims, rehearsals>>
     \/ side = "owner" /\ OwnerNext /\ UNCHANGED <<vars, import, update, claims, rehearsals>>
     \/ side = "import" /\ Import!ImportNext /\ UNCHANGED <<vars, ownerVars, update, claims, rehearsals>>
     \/ side = "update" /\ Updates!UpdateNext /\ UNCHANGED <<vars, ownerVars, import, claims, rehearsals>>
     \/ side = "claim" /\ Claim!ClaimNext /\ UNCHANGED <<vars, ownerVars, import, update, rehearsals>>
     \/ side = "recovery" /\ Recovery!RehearsalNext /\ UNCHANGED <<vars, ownerVars, import, update, claims>>

FilesSpec == FilesInit /\ [][FilesNext]_<<sides, side>> /\ Recovery!RehearsalFairness

\* The imported database is opened with its own key (ConfigImport).
KeyFits == Import!KeyFits

\* What is said at the end of an update or installation is so (Update).
VerdictTrue == Updates!VerdictTrue

\* One capture of a source at a time (WorkClaim).
OneHolder == Claim!OneHolder

\* Rows tell of every scratch database that is left (Rehearsals).
EvidenceTrue == Recovery!EvidenceTrue

\* Rehearsals come to an end, across crashes (Rehearsals).
RehearsalsEnd == side = "recovery" => Recovery!RehearsalsEnd
==============================================================================
