----------------------------- MODULE MCSchedule -----------------------------
(***************************************************************************)
(* Schedules whose occurrences become executions, the destinations whose   *)
(* files they rotate, look for and check, the records that refer to each   *)
(* other, the programs that are installed and the page that is served, for *)
(* TLC.  A behaviour is of one of the five (side), and the other four stay *)
(* as they are.                                                            *)
(* One schedule skips overlaps, the policy of the other changes; a cron    *)
(* expression is every tick, or every other tick.                          *)
(***************************************************************************)
EXTENDS Schedule

CONSTANTS j1, j2, Files, Foreign, Places, Nowhere, Keeps, MaxTroubles,
  Connections, Plans, Runs, Gone, Hosts, Loopback, MaxSaves, MaxTests, MaxStops,
  Installs, NoInstall, MaxCrashes,
  Scripts, Releases, Absent, Tabs, MaxChanges

VARIABLES
  kind, keep, locked, place, required, stored, home, row, rotation, task, health, resolving, edits, outages, others,
  conn, schedules, plan, active, run, waiting, tests, restored, rehearsal, saves, stops,
  file, install, activeJob, before, trouble, completed, crashes,
  disk, memory, whole, enabled, cache, tab, changes,
  side

\* Markers are none of what they stand in for; files and runs are numbered in the order
\* of time, and releases from 1.
ASSUME TimersAssumption ==
  /\ NoInstall \notin Installs
  /\ Absent \notin Releases /\ 1 \in Releases
  /\ IsFiniteSet(Files) /\ Files = 1 .. Cardinality(Files)
  /\ IsFiniteSet(Runs) /\ Runs = 1 .. Cardinality(Runs)
  /\ Nowhere \notin Places /\ Keeps \subseteq Nat
  /\ Gone \notin [purpose : {"backup", "recovery"}, host : Hosts]

Placed == INSTANCE Destinations
Listed == INSTANCE Catalog WITH job <- schedules, Jobs <- {j1}
Installed == INSTANCE Tools
Shown == INSTANCE WebAssets

destinations ==
  <<kind, keep, locked, place, required, stored, home, row, rotation, task, health, resolving, edits, outages, others>>
catalog == <<conn, schedules, plan, active, run, waiting, tests, restored, rehearsal, saves, stops>>
tools == <<file, install, activeJob, before, trouble, completed, crashes>>
assets == <<disk, memory, whole, enabled, cache, tab, changes>>

PoliciesMC == [j \in Jobs |-> IF j = j1 THEN {"skip"} ELSE {"queue", "skip"}]

CronsMC == {1 .. Horizon + 2, {t \in 1 .. Horizon + 2 : t % 2 = 0}}

TimersInit ==
  /\ ScheduleInit /\ Placed!DestinationsInit /\ Listed!CatalogInit
  /\ Installed!ToolsInit /\ Shown!AssetsInit
  /\ side \in {"schedule", "destinations", "catalog", "tools", "assets"}
  /\ place = CHOOSE p \in Places : TRUE
  \* The first schedule is due at every tick, the second may be less often.
  /\ job[j1].cron = 1 .. Horizon + 2
  /\ side # "schedule" => \A j \in Jobs : job[j].policy = "skip" /\ job[j].cron = job[j1].cron
  /\ side # "destinations" => kind = "local" /\ ~required /\ keep = 1 /\ locked = {}
  /\ side # "catalog" => \A r \in Runs : run[r] = Gone
  \* Nothing tells the connections apart yet.
  /\ \A r \in Runs : run[r] # Gone => run[r].source = CHOOSE c \in Connections : TRUE
  /\ side # "tools" => \A e \in DOMAIN file : \A k \in DOMAIN file[e] : file[e][k] = "none"

TimersNext ==
  /\ UNCHANGED side
  /\ \/ side = "schedule" /\ ScheduleNext /\ UNCHANGED <<destinations, catalog, tools, assets>>
     \/ side = "destinations" /\ Placed!DestinationsNext /\ UNCHANGED <<scheduleVars, catalog, tools, assets>>
     \/ side = "catalog" /\ Listed!CatalogNext /\ UNCHANGED <<scheduleVars, destinations, tools, assets>>
     \/ side = "tools" /\ Installed!ToolsNext /\ UNCHANGED <<scheduleVars, destinations, catalog, assets>>
     \/ side = "assets" /\ Shown!AssetsNext /\ UNCHANGED <<scheduleVars, destinations, catalog, tools>>

\* At the start nothing is due, and fairness asks nothing of the other sides.
TimersSpec == TimersInit /\ [][TimersNext]_<<scheduleVars, destinations, catalog, tools, assets, side>> /\ ScheduleFairness

\* Retention, what is written off and a lock that is claimed are right, for every
\* kind of destination (Destinations).
DestinationsAgree == Placed!DestinationsAgree

\* What plans, rehearsals and schedules refer to stays what they need, and what is
\* called proven was restored (Catalog).
CatalogAgrees == Listed!CatalogAgrees

\* Programs come from verified archives, by one installation at a time that leaves
\* them usable (Tools).
ToolsAgree == Installed!ToolsAgree

\* A page has scripts of its own release, and caches keep what the path says
\* (WebAssets).
AssetsAgree == Shown!AssetsAgree
=============================================================================
