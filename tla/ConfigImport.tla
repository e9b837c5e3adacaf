---------------------------- MODULE ConfigImport ----------------------------
(***************************************************************************)
(* Import of a complete configuration (database.service.ts,                *)
(* stageImportedDatabase and applyPendingImport): a database and the key   *)
(* its secrets are encrypted with are staged in two files, and the next    *)
(* start copies them over the ones in use.                                 *)
(***************************************************************************)
EXTENDS Naturals

CONSTANTS
  Packages,   \* export packages
  Own,        \* what the installation began with
  Nothing,    \* no such file
  MaxCrashes

VARIABLES
  database, key,            \* vaultback.sqlite and .encryption-key: where they are from
  pendingDatabase, pendingKey,
  step,                     \* up, down, or what applyPendingImport() does next
  staging,                  \* package whose key is not written yet
  cut,                      \* history: a staging ended between its two files
  crashes

importVars == <<database, key, pendingDatabase, pendingKey, step, staging, cut, crashes>>

Origins == Packages \cup {Own}

ImportTypeOK ==
  /\ database \in Origins /\ key \in Origins
  /\ pendingDatabase \in Packages \cup {Nothing} /\ pendingKey \in Packages \cup {Nothing}
  /\ step \in {"up", "down", "key", "drop database", "drop key"}
  /\ staging \in Packages \cup {Nothing} /\ cut \in BOOLEAN /\ crashes \in 0..MaxCrashes

ImportInit ==
  /\ database = Own /\ key = Own /\ pendingDatabase = Nothing /\ pendingKey = Nothing
  /\ step = "down" /\ staging = Nothing /\ cut = FALSE /\ crashes = 0

\* importFull() has decrypted and checked the package: first file, second file.
StageDatabase(p) ==
  /\ step = "up" /\ staging = Nothing
  /\ pendingDatabase' = p /\ staging' = p
  /\ UNCHANGED <<database, key, pendingKey, step, cut, crashes>>

StageKey ==
  /\ step = "up" /\ staging # Nothing
  /\ pendingKey' = staging /\ staging' = Nothing
  /\ UNCHANGED <<database, key, pendingDatabase, step, cut, crashes>>

\* The second file cannot be written: the caller is told of an error.
StageFails ==
  /\ staging # Nothing /\ staging' = Nothing /\ cut' = TRUE
  /\ UNCHANGED <<database, key, pendingDatabase, pendingKey, step, crashes>>

\* requestRestart(), or any other orderly stop.
Stop ==
  /\ step = "up" /\ staging = Nothing /\ step' = "down"
  /\ UNCHANGED <<database, key, pendingDatabase, pendingKey, staging, cut, crashes>>

Crash ==
  /\ crashes < MaxCrashes /\ crashes' = crashes + 1 /\ step # "down" /\ step' = "down"
  /\ staging' = Nothing /\ cut' = (cut \/ staging # Nothing)
  /\ UNCHANGED <<database, key, pendingDatabase, pendingKey>>

-----------------------------------------------------------------------------
\* applyPendingImport(), a system call at a time.

\* Both files are there or nothing is done.
Boot ==
  /\ step = "down"
  /\ IF pendingDatabase = Nothing \/ pendingKey = Nothing
     THEN step' = "up" /\ UNCHANGED database
     ELSE database' = pendingDatabase /\ step' = "key"
  /\ UNCHANGED <<key, pendingDatabase, pendingKey, staging, cut, crashes>>

\* With a bug: the staged database goes as soon as it has been copied.
CopyKeyLast ==
  /\ step = "key" /\ step' = "drop key"
  /\ IF pendingDatabase = Nothing THEN key' = pendingKey /\ UNCHANGED pendingDatabase
     ELSE pendingDatabase' = Nothing /\ UNCHANGED key
  /\ UNCHANGED <<database, pendingKey, staging, cut, crashes>>

CopyKey ==
  /\ step = "key" /\ step' = "drop database"
  /\ key' = pendingKey
  /\ UNCHANGED <<database, pendingDatabase, pendingKey, staging, cut, crashes>>

DropDatabase ==
  /\ step = "drop database" /\ step' = "drop key"
  /\ pendingDatabase' = Nothing
  /\ UNCHANGED <<database, key, pendingKey, staging, cut, crashes>>

DropKey ==
  /\ step = "drop key" /\ step' = "up"
  /\ pendingKey' = Nothing
  /\ UNCHANGED <<database, key, pendingDatabase, staging, cut, crashes>>

ImportNext ==
  \/ \E p \in Packages : StageDatabase(p)
  \/ StageKey \/ StageFails \/ Stop \/ Crash \/ Boot \/ CopyKey \/ DropDatabase \/ DropKey

-----------------------------------------------------------------------------
\* The service opens a database with the key it was exported with, wherever the
\* process died while it copied, removed or staged once more; unless a staging
\* was cut between its two files, after which the key may be an earlier one's.
KeyFits == step = "up" /\ ~cut => key = database
=============================================================================
