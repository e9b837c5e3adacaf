------------------------------- MODULE Update -------------------------------
(***************************************************************************)
(* A software update.  startUpdate() of system.service.ts launches         *)
(* scripts/update.mjs (an updater) as a process of its own; an operator     *)
(* starts scripts/install-release.mjs (an installer) from a shell.  Either *)
(* stops the application, replaces the managed paths in their order, runs  *)
(* npm and starts it again, or puts back what it had copied before.  The   *)
(* application and updaters share update-status.json.                      *)
(***************************************************************************)
EXTENDS Naturals, FiniteSets

CONSTANTS
  Updaters, Installers,   \* runs of the two scripts
  Paths,                  \* number of managed paths
  Package,                \* the place of package.json among them
  MaxKills,               \* bound: scripts that are killed
  MaxChecks               \* bound: checks for a release

VARIABLES
  files,      \* managed paths of the application
  modules,    \* the release whose dependencies node_modules holds
  app,        \* up, down, or stopped through PM2
  running,    \* what the running application was started from
  offered,    \* latestVersion and artifact of update-status.json
  status,     \* its state
  script,     \* per run: where its main() is
  next,       \* per run: path that the copy under way does next
  saved,      \* per run: its rollback copy
  manages,    \* per run: it is told of a PM2 application
  stopped,    \* per run: PM2 was told to stop it
  latest,     \* the run that began last
  mixed,      \* two runs were at work at the same time
  kills, checks

updateVars == <<files, modules, app, running, offered, status, script, next, saved, manages, stopped, latest, mixed, kills, checks>>

Scripts == Updaters \cup Installers
Contents == {"old", "new", "none"}
Of(release) == [i \in 1..Paths |-> release]
Ends == {"installed", "restored", "failed", "current", "killed"}

UpdateTypeOK ==
  /\ files \in [1..Paths -> Contents] /\ modules \in Contents
  /\ app \in {"up", "down", "stopped"} /\ running \in Contents
  /\ offered \in BOOLEAN
  /\ status \in {"available", "current", "queued", "busy", "rolling_back", "installed", "restored", "failed"}
  /\ script \in [Scripts -> Ends \cup {"none", "downloading", "verifying", "saving", "stopping", "copying", "depending", "starting",
                                       "finishing", "restoring", "reviving"}]
  /\ next \in [Scripts -> 1..Paths + 1] /\ saved \in [Scripts -> [1..Paths -> Contents]]
  /\ manages \in [Scripts -> BOOLEAN] /\ stopped \in [Scripts -> BOOLEAN]
  /\ latest \subseteq Scripts /\ mixed \in BOOLEAN /\ kills \in 0..MaxKills /\ checks \in 0..MaxChecks

UpdateInit ==
  /\ files = Of("old") /\ modules = "old"
  /\ app = "up" /\ running = "old" /\ offered = FALSE /\ status = "current"
  /\ script = [u \in Scripts |-> "none"] /\ next = [u \in Scripts |-> 1]
  /\ saved = [u \in Scripts |-> Of("none")]
  /\ manages = [u \in Scripts |-> TRUE] /\ stopped = [u \in Scripts |-> FALSE]
  /\ latest = {} /\ mixed = FALSE /\ kills = 0 /\ checks = 0

At(u, stage) == script[u] = stage
AtWork(u) == script[u] \notin Ends \cup {"none"}
Goes(u, stage) == script' = [script EXCEPT ![u] = stage] /\ next' = [next EXCEPT ![u] = 1]
Steps(u) == next' = [next EXCEPT ![u] = @ + 1] /\ UNCHANGED script

\* writeStatus(): an installer tells only its console.
Tells(u, state) == status' = IF u \in Updaters THEN state ELSE status

\* The outer catch: its own status may not be written either.
Fails(u) == Goes(u, "failed") /\ (Tells(u, "failed") \/ UNCHANGED status)

\* The inner catch: everything is put back, unless its status cannot be
\* written, or another process has just renamed the file of the same name.
Throw(u) ==
  \/ Tells(u, "rolling_back") /\ Goes(u, "restoring")
  \/ u \in Updaters /\ Fails(u)

Whole(release) == files = Of(release) /\ modules = release
Started == IF \E release \in {"old", "new"} : Whole(release)
           THEN app' = "up" /\ running' = modules
           ELSE app' = "down" /\ UNCHANGED running

\* appVersion() and compareVersions(): the package.json that is on the disk.
Newer == files[Package] # "new"

Begins(u, stage) ==
  /\ At(u, "none") /\ Goes(u, stage) /\ latest' = {u}
  /\ mixed' = (mixed \/ \E v \in Scripts : AtWork(v))

-----------------------------------------------------------------------------
\* checkForUpdate(): the manifest is fetched, and the status is written over
\* whatever an updater has written there.
CheckForUpdate ==
  /\ app = "up" /\ checks < MaxChecks /\ checks' = checks + 1
  /\ \/ offered' = TRUE /\ status' = IF Newer THEN "available" ELSE "current"
     \/ status' = "failed" /\ UNCHANGED offered
  /\ UNCHANGED <<files, modules, app, running, script, next, saved, manages, stopped, latest, mixed, kills>>

\* startUpdate(): a newer release is known; nothing tells of another updater.
\* The process may not start.  SIGTERM follows after 900 ms (Terminate).
StartUpdate(u) ==
  /\ app = "up" /\ offered /\ Newer
  /\ \/ status' = "queued" /\ Begins(u, "downloading")
     \/ status' = "failed" /\ Begins(u, "failed")
  /\ UNCHANGED <<files, modules, app, running, offered, saved, manages, stopped, kills, checks>>

Terminate ==
  /\ app = "up" /\ app' = "down"
  /\ \E u \in Updaters : ~At(u, "none")
  /\ UNCHANGED <<files, modules, running, offered, status, script, next, saved, manages, stopped, latest, mixed, kills, checks>>

\* PM2 starts an application again that ended and was not stopped.
Supervise ==
  /\ app = "down" /\ Started /\ app' = "up"
  /\ UNCHANGED <<files, modules, offered, status, script, next, saved, manages, stopped, latest, mixed, kills, checks>>

\* An installer reads the manifest and compares versions; --install-only leaves
\* the application alone.
StartInstall(u) ==
  /\ \/ Newer /\ \E pm2 \in BOOLEAN : manages' = [manages EXCEPT ![u] = pm2] /\ Begins(u, "downloading")
     \/ ~Newer /\ Begins(u, "current") /\ UNCHANGED manages
     \/ Begins(u, "failed") /\ UNCHANGED manages
  /\ UNCHANGED <<files, modules, app, running, offered, status, saved, stopped, kills, checks>>

\* The archive arrives, over HTTPS and within its limit; or it does not.
Download(u) ==
  /\ At(u, "downloading")
  /\ \/ status' = "busy" /\ Goes(u, "verifying")
     \/ Fails(u)
  /\ UNCHANGED <<files, modules, app, running, offered, saved, manages, stopped, latest, mixed, kills, checks>>

\* Checksum, entries, unpacking, required files and version; or one of them fails.
Verify(u) ==
  /\ At(u, "verifying")
  /\ \/ status' = "busy" /\ Goes(u, "saving")
     \/ Fails(u)
  /\ UNCHANGED <<files, modules, app, running, offered, saved, manages, stopped, latest, mixed, kills, checks>>

\* The same in an installer.
Fetch(u) ==
  /\ At(u, "downloading") /\ (Goes(u, "saving") \/ Goes(u, "failed"))
  /\ UNCHANGED <<files, modules, app, running, offered, status, saved, manages, stopped, latest, mixed, kills, checks>>

\* copyManaged(appRoot, rollback): a path that is not there is left out.
Save(u) ==
  /\ At(u, "saving")
  /\ \/ /\ next[u] > Paths /\ UNCHANGED saved
        /\ \/ Tells(u, "busy") /\ Goes(u, "stopping")
           \/ u \in Updaters /\ Throw(u)
     \/ /\ next[u] <= Paths /\ Steps(u)
        /\ saved' = [saved EXCEPT ![u][next[u]] = files[next[u]]] /\ UNCHANGED status
     \/ Fails(u) /\ UNCHANGED saved
  /\ UNCHANGED <<files, modules, app, running, offered, manages, stopped, latest, mixed, kills, checks>>

\* pm2 describe and stop; the port may still answer after 30 s.
Stop(u) ==
  /\ At(u, "stopping")
  /\ \/ Throw(u) /\ UNCHANGED <<app, stopped>>
     \/ /\ app' = "stopped" /\ stopped' = [stopped EXCEPT ![u] = TRUE]
        /\ Throw(u) \/ (status' = "busy" /\ Goes(u, "copying"))
  /\ UNCHANGED <<files, modules, running, offered, saved, manages, latest, mixed, kills, checks>>

\* An installer that does not find the application leaves it up, and one that
\* cannot stop it ends; that the port still answers does not hold it up.
StopFound(u) ==
  /\ At(u, "stopping")
  /\ \/ (Goes(u, "failed") \/ Goes(u, "copying")) /\ UNCHANGED <<app, stopped>>
     \/ /\ manages[u] /\ app' = "stopped" /\ stopped' = [stopped EXCEPT ![u] = TRUE]
        /\ Goes(u, "copying")
  /\ UNCHANGED <<files, modules, running, offered, status, saved, manages, latest, mixed, kills, checks>>

\* copyManaged(releaseRoot, appRoot, true): a path is removed, then copied.
Copy(u) ==
  /\ At(u, "copying")
  /\ IF next[u] > Paths THEN Goes(u, "depending") /\ UNCHANGED <<files, status>>
     ELSE \/ files' = [files EXCEPT ![next[u]] = "new"] /\ Steps(u) /\ UNCHANGED status
          \/ files' = [files EXCEPT ![next[u]] = "none"] /\ Throw(u)
  /\ UNCHANGED <<modules, app, running, offered, saved, manages, stopped, latest, mixed, kills, checks>>

\* npm ci, of what package-lock.json says; it removes node_modules first.
Locked == IF \E release \in {"old", "new"} : files = Of(release) THEN CHOOSE r \in Contents : files = Of(r) ELSE "none"

Depend(u) ==
  /\ At(u, "depending")
  /\ \/ /\ Locked # "none" /\ modules' = Locked
        /\ \/ manages[u] /\ Tells(u, "busy") /\ Goes(u, "starting")
           \/ ~manages[u] /\ Goes(u, "installed") /\ UNCHANGED status
           \/ u \in Updaters /\ Throw(u)
     \/ modules' = "none" /\ Throw(u)
  /\ UNCHANGED <<files, app, running, offered, saved, manages, stopped, latest, mixed, kills, checks>>

\* pm2 restart, and the health check, which a slow start fails as well.
Restart(u) ==
  /\ At(u, "starting")
  /\ \/ UNCHANGED <<app, running>> /\ Throw(u)
     \/ Started /\ Throw(u)
     \/ Started /\ app' = "up" /\ UNCHANGED status /\ Goes(u, "finishing")
  /\ UNCHANGED <<files, modules, offered, saved, manages, stopped, latest, mixed, kills, checks>>

\* pm2 restart, or start where it was not found; the health check is the last step.
Start(u) ==
  /\ At(u, "starting")
  /\ \/ UNCHANGED <<app, running>> /\ Goes(u, "restoring")
     \/ Started /\ Goes(u, "restoring")
     \/ Started /\ app' = "up" /\ Goes(u, "installed")
  /\ UNCHANGED <<files, modules, offered, status, saved, manages, stopped, latest, mixed, kills, checks>>

\* The last status; where it cannot be written main() ends in its catch.
Finish(u) ==
  /\ At(u, "finishing")
  /\ (status' = "installed" /\ Goes(u, "installed")) \/ Fails(u)
  /\ UNCHANGED <<files, modules, app, running, offered, saved, manages, stopped, latest, mixed, kills, checks>>

\* With a bug: a path of the release that is there is left.
RestoreMissing(u) ==
  /\ At(u, "restoring")
  /\ IF next[u] > Paths THEN Goes(u, "reviving") /\ UNCHANGED <<files, status>>
     ELSE /\ files' = [files EXCEPT ![next[u]] = IF @ = "none" THEN saved[u][next[u]] ELSE @]
          /\ Steps(u) /\ UNCHANGED status
  /\ UNCHANGED <<modules, app, running, offered, saved, manages, stopped, latest, mixed, kills, checks>>

\* copyManaged(rollback, appRoot, true); an error of its own ends main().
Restore(u) ==
  /\ At(u, "restoring")
  /\ IF next[u] > Paths THEN Goes(u, "reviving") /\ UNCHANGED <<files, status>>
     ELSE \/ files' = [files EXCEPT ![next[u]] = saved[u][next[u]]] /\ Steps(u) /\ UNCHANGED status
          \/ files' = [files EXCEPT ![next[u]] = "none"] /\ Fails(u)
  /\ UNCHANGED <<modules, app, running, offered, saved, manages, stopped, latest, mixed, kills, checks>>

\* npm ci and pm2 restart again, whose errors are swallowed: "Update failed and
\* the previous release was restored".
Revive(u) ==
  /\ At(u, "reviving")
  /\ modules' \in {Locked, "none"}
  /\ \/ stopped[u] /\ files = Of(modules') /\ app' = "up" /\ running' = modules'
     \/ UNCHANGED <<app, running>>
  /\ Tells(u, "restored") /\ Goes(u, "restored")
  /\ UNCHANGED <<files, offered, saved, manages, stopped, latest, mixed, kills, checks>>

\* The machine goes down, or somebody kills the script; the application does not.
Kill(u) ==
  /\ kills < MaxKills /\ kills' = kills + 1
  /\ AtWork(u) /\ Goes(u, "killed")
  /\ UNCHANGED <<files, modules, app, running, offered, status, saved, manages, stopped, latest, mixed, checks>>

UpdateNext ==
  \/ CheckForUpdate \/ Terminate \/ Supervise
  \/ \E u \in Updaters : \/ StartUpdate(u) \/ Download(u) \/ Verify(u) \/ Stop(u) \/ Restart(u) \/ Finish(u)
  \/ \E u \in Installers : StartInstall(u) \/ Fetch(u) \/ StopFound(u) \/ Start(u)
  \/ \E u \in Scripts : Save(u) \/ Copy(u) \/ Depend(u) \/ Restore(u) \/ Revive(u) \/ Kill(u)

UpdateSpec == UpdateInit /\ [][UpdateNext]_updateVars

-----------------------------------------------------------------------------
\* README.md:263, "A failed install is rolled back to the previous application
\* files", and an installed release has its files, its dependencies and runs.
\* What a script says at its end, in update-status.json or on its console, is what
\* the application directory holds, also after scripts that were killed before it,
\* as long as no two of them work at the same time.
VerdictTrue ==
  ~mixed => \A u \in Scripts :
    /\ At(u, "installed") => Whole("new") /\ (manages[u] => running = "new")
    /\ At(u, "restored") /\ u \in latest => files = saved[u]

\* docs/RELEASES.md:116, the updater "makes a rollback copy of managed application
\* files" and from it "restores the previous release": nothing in the copy is of
\* the release that it is about to install.
CopyIsPrevious == \A u \in Scripts, i \in 1..Paths : stopped[u] => saved[u][i] # "new"
=============================================================================
