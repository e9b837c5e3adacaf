------------------------------- MODULE Restore -------------------------------
(***************************************************************************)
(* Restoring an artifact: restoreRun(), restoreRunForRecoveryTest() and    *)
(* restoreArtifactForRehearsal() of backup/backup.service.ts.  What counts *)
(* is which databases of the destination a member of the artifact writes   *)
(* to: a dump of one or more databases names them itself, a dump of a      *)
(* table goes to the database of the connection, and the view definitions  *)
(* of the table layout are qualified with the name of their database.      *)
(* Several restores of one artifact run at once, and other people create   *)
(* databases meanwhile.                                                    *)
(***************************************************************************)
EXTENDS Naturals, FiniteSets

CONSTANTS
  Restores,    \* restores that are asked for
  Sources,     \* the databases of the source
  Chosen,      \* a database name that somebody types
  MaxOthers    \* bound on the databases that others create

VARIABLES
  artifact,  \* [layout, zip, dbs, damage]
  restore,   \* per restore: [kind, confirmed, target, stage, left, made, touched]
  databases, \* what each name holds at the destination: "absent", "theirs", "empty", or a restore
  others

restoreVars == <<artifact, restore, databases, others>>

Names == Sources \cup {Chosen} \cup (Restores \X Sources)
OnServer(n) == databases[n] # "absent"

\* What run() can have stored, of a source whose databases have views: only the
\* single layout can be without zip.  Then bytes may have changed, or the members
\* be other than the manifest says.
Artifacts ==
  {a \in [layout : {"single", "database", "table"}, zip : BOOLEAN, dbs : SUBSET Sources \ {{}},
          damage : {"none", "bytes", "members"}] :
     (a.layout # "single" => a.zip) /\ (a.damage = "members" => a.zip)}

\* The members: databases, and whether it is the file of definitions.
Members ==
  IF artifact.layout = "single" THEN {[dbs |-> artifact.dbs, objects |-> FALSE]}
  ELSE {[dbs |-> {d}, objects |-> o] : d \in artifact.dbs, o \in IF artifact.layout = "table" THEN BOOLEAN ELSE {FALSE}}

RestoreInit ==
  /\ artifact \in Artifacts
  /\ restore = [r \in Restores |-> [kind |-> "none", stage |-> "none"]]
  /\ databases \in {[n \in Names |-> IF n \in present THEN "theirs" ELSE "absent"] : present \in SUBSET (Sources \cup {Chosen})}
  /\ others = 0

\* Somebody else creates a database.
Appear(n) ==
  /\ others < MaxOthers /\ others' = others + 1
  /\ ~OnServer(n) /\ databases' = [databases EXCEPT ![n] = "theirs"]
  /\ UNCHANGED <<artifact, restore>>

-----------------------------------------------------------------------------
(* A restore, up to its first change at the destination *)

Change(r, record) == restore' = [restore EXCEPT ![r] = record]
Go(r, stage) == Change(r, [restore[r] EXCEPT !.stage = stage])
Ask(r, kind, confirmed, target) ==
  Change(r, [kind |-> kind, confirmed |-> confirmed, target |-> target, stage |-> "fetching",
             left |-> Members, made |-> {}, touched |-> {}])

\* The checks before the download.  Under a new name one database is restored;
\* a name that is in use has to be confirmed, and a recovery test never confirms.
Begin(r) ==
  /\ restore[r].stage = "none"
  /\ \/ Ask(r, "overwrite", TRUE, [d \in Sources |-> d])
     \/ Ask(r, "rehearsal", FALSE, [d \in Sources |-> <<r, d>>])
     \/ /\ Cardinality(artifact.dbs) = 1
        /\ \/ \E n \in Sources \cup {Chosen}, confirmed \in BOOLEAN :
                (OnServer(n) => confirmed) /\ Ask(r, "new", confirmed, [d \in Sources |-> n])
           \/ \E d \in artifact.dbs : ~OnServer(<<r, d>>) /\ Ask(r, "test", FALSE, [e \in Sources |-> <<r, d>>])
  /\ UNCHANGED <<artifact, databases, others>>

\* The exits by an error pass through the cleanup of the finally block.
Fail(r) == Go(r, "cleanup") /\ UNCHANGED <<artifact, databases, others>>

Scratch(r) == {restore[r].target[d] : d \in artifact.dbs}
Renames(r) == restore[r].kind # "overwrite"
Rehearses(r) == restore[r].kind = "rehearsal"

\* Mutant of HashAgrees: a hash that differs is a warning.
HashAgreesAnyway == TRUE

\* verifyDownloadedHash()
HashAgrees == artifact.damage # "bytes"

\* Download, staging, hash, decryption and decompression.  restoreRun() creates
\* the new database before it looks at the members.
Fetch(r) ==
  /\ restore[r].stage = "fetching"
  /\ Go(r, IF ~HashAgrees THEN "cleanup" ELSE IF Renames(r) /\ ~Rehearses(r) THEN "creating" ELSE "archive")
  /\ UNCHANGED <<artifact, databases, others>>

\* validatedZipSqlEntries(): the members are those of the manifest.
CheckArchive(r) ==
  /\ restore[r].stage = "archive"
  /\ Go(r, IF artifact.damage = "members" THEN "cleanup" ELSE IF Rehearses(r) THEN "names" ELSE "restoring")
  /\ UNCHANGED <<artifact, databases, others>>

\* A rehearsal has rewritten every member; then it looks for its names on the server.
CheckNames(r) ==
  /\ restore[r].stage = "names"
  /\ Go(r, IF \E n \in Scratch(r) : OnServer(n) THEN "cleanup" ELSE "creating")
  /\ UNCHANGED <<artifact, databases, others>>

-----------------------------------------------------------------------------
(* At the destination *)

\* Mutant of MayCreate: CREATE DATABASE IF NOT EXISTS for everybody.
MayCreateAnyway(r, n) == TRUE

\* CREATE DATABASE refuses a name that exists; after a confirmation it is
\* CREATE DATABASE IF NOT EXISTS.
MayCreate(r, n) == restore[r].confirmed \/ ~OnServer(n)

Create(r, n) ==
  /\ restore[r].stage = "creating" /\ n \in Scratch(r) \ restore[r].made
  /\ MayCreate(r, n)
  /\ databases' = [databases EXCEPT ![n] = IF OnServer(n) THEN @ ELSE "empty"]
  /\ LET made == IF restore[r].confirmed THEN {} ELSE restore[r].made \cup {n}
     IN Change(r, [restore[r] EXCEPT !.made = made,
                   !.stage = IF Rehearses(r) THEN IF made = Scratch(r) THEN "restoring" ELSE "creating" ELSE "archive"])
  /\ UNCHANGED <<artifact, others>>

\* rewriteDatabaseName(): restoreRun() calls it for an artifact that is no zip
\* and for the database layout.
Rewritten(r) == Rehearses(r) \/ (Renames(r) /\ (~artifact.zip \/ artifact.layout = "database"))

\* The member says itself which database it is for.
Named(member) == artifact.layout # "table" \/ member.objects

Written(r, member) ==
  IF Named(member) /\ ~Rewritten(r) THEN member.dbs ELSE {restore[r].target[d] : d \in member.dbs}

\* restoreSql(): dumps of databases create them where they are missing.  An error
\* of the client, after some of the statements, ends the restore.
Load(r, member) ==
  /\ restore[r].stage = "restoring" /\ member \in restore[r].left
  /\ artifact.layout = "table" => \A n \in Written(r, member) : OnServer(n)
  /\ databases' = [n \in Names |-> IF n \in Written(r, member) THEN r ELSE databases[n]]
  /\ \E stage \in {"cleanup", IF restore[r].left = {member} THEN "verifying" ELSE "restoring"} :
       Change(r, [restore[r] EXCEPT !.left = @ \ {member}, !.stage = stage,
                  !.touched = @ \cup {n \in Written(r, member) : n \notin restore[r].made \/ databases[n] = "theirs"}])
  /\ UNCHANGED <<artifact, others>>

\* verifyRestore() looks for names; those of a database of others may be the same.
Verify(r) ==
  /\ restore[r].stage = "verifying"
  /\ Go(r, "cleanup")
  /\ UNCHANGED <<artifact, databases, others>>

\* The finally block of a test or a rehearsal drops what it has created; a DROP
\* that fails is a warning.
Clean(r) ==
  /\ restore[r].stage = "cleanup"
  /\ \/ UNCHANGED databases
     \/ /\ restore[r].kind \in {"test", "rehearsal"}
        /\ databases' = [n \in Names |-> IF n \in restore[r].made THEN "absent" ELSE databases[n]]
  /\ Go(r, "done")
  /\ UNCHANGED <<artifact, others>>

RestoreNext ==
  \/ \E n \in Names : Appear(n)
  \/ \E r \in Restores :
       \/ Begin(r) \/ Fetch(r) \/ CheckArchive(r) \/ CheckNames(r) \/ Verify(r) \/ Clean(r)
       \/ restore[r].stage \notin {"none", "cleanup", "done"} /\ Fail(r)
       \/ \E n \in Names : Create(r, n)
       \/ \E m \in Members : Load(r, m)

RestoreSpec == RestoreInit /\ [][RestoreNext]_restoreVars

-----------------------------------------------------------------------------
(* Properties *)

Begun == {r \in Restores : restore[r].kind # "none"}

\* Without a confirmation nothing is written to a database that the restore has not
\* created, whatever others create meanwhile; the members that name their database
\* and that restoreRun() does not rewrite are the subject of NewNameOnly.
Isolated ==
  \A r \in Begun : ~restore[r].confirmed /\ Rewritten(r) => restore[r].touched = {}

\* test/pitr-workflows.spec.ts:150: an artifact that has changed reaches no database
\* at all; and a rehearsal creates none before every member has been found in order.
DamagedNeverRestored ==
  \A r \in Begun : artifact.damage = "bytes" \/ (artifact.damage = "members" /\ Rehearses(r)) =>
    restore[r].made = {} /\ restore[r].touched = {}

RestoreIsolated == Isolated /\ DamagedNeverRestored

\* docs/RECOVERY_ASSURANCE.md:12: a recovery test restores under a generated name and
\* never overwrites; README.md:319: so does any restore under a new name that is
\* not confirmed.
NewNameOnly == \A r \in Begun : ~restore[r].confirmed => restore[r].touched = {}
==============================================================================
