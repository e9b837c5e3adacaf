-------------------------------- MODULE Tools --------------------------------
(***************************************************************************)
(* The database tools of backup/tool-installer.service.ts: a client and a  *)
(* dump program that people put under tools/, or that an installation      *)
(* downloads, verifies and copies there, and those that                    *)
(* backup/backup.service.ts then runs.  Work folders and limits of size    *)
(* are left out: a download that breaks one of them fails.                 *)
(***************************************************************************)
EXTENDS Naturals, FiniteSets

CONSTANTS
  Installs,   \* identities of installations, used once
  NoInstall,
  MaxCrashes

VARIABLES
  file,       \* by folder of an engine and kind of program: what is there
  install,    \* the jobs of the process
  activeJob,
  before,     \* history: what was there at first
  trouble,    \* history: repairs and broken copies since the last completion
  completed,  \* history: an installation has completed, and the process goes on
  crashes

toolsVars == <<file, install, activeJob, before, trouble, completed, crashes>>

Engines == {"mysql", "mariadb"}
Kinds == {"client", "dump"}

\* 'other' works, and is of whoever put it there.  An archive is the published one or
\* another, and so is what comes out of it.
Unused == [state |-> "unused", archive |-> "none"]

ToolsInit ==
  /\ file \in [Engines -> [Kinds -> {"none", "other"}]]
  /\ install = [i \in Installs |-> Unused] /\ activeJob = NoInstall
  /\ before = file /\ trouble = FALSE /\ completed = FALSE /\ crashes = 0

Unfinished == {"downloading", "verifying", "verified"}
Busy == activeJob # NoInstall /\ install[activeJob].state \in Unfinished

-----------------------------------------------------------------------------
(* The process *)

\* Nothing handles a rejected promise: the process ends.
Dies ==
  /\ crashes < MaxCrashes /\ crashes' = crashes + 1
  /\ install' = [i \in Installs |-> IF install[i] = Unused THEN Unused ELSE [install[i] EXCEPT !.state = "lost"]]
  /\ activeJob' = NoInstall

Crash == Dies /\ completed' = FALSE /\ UNCHANGED <<file, before, trouble>>

\* startInstall(), up to the first wait of run(); making the folder of the job comes
\* before the errors of run() are caught.
Begin(i) ==
  /\ install[i] = Unused
  /\ \/ install' = [install EXCEPT ![i].state = "downloading"] /\ activeJob' = i /\ UNCHANGED crashes
     \/ Dies

StartInstall(i) ==
  /\ ~Busy /\ Begin(i)
  /\ completed' = (completed /\ crashes' = crashes)
  /\ UNCHANGED <<file, before, trouble>>

\* repair() takes the managed folder away, then starts an installation.
Repair(i) ==
  /\ ~Busy /\ Begin(i)
  /\ file' = [file EXCEPT !["mariadb"] = [k \in Kinds |-> "none"]]
  /\ trouble' = TRUE /\ completed' = FALSE
  /\ UNCHANGED before

-----------------------------------------------------------------------------
(* run() *)

Ends(i, state) ==
  /\ install' = [install EXCEPT ![i].state = state]
  /\ activeJob' = IF activeJob = i THEN NoInstall ELSE activeJob

Download(i) ==
  /\ install[i].state = "downloading"
  /\ \E archive \in {"published", "damaged"} : install' = [install EXCEPT ![i] = [state |-> "verifying", archive |-> archive]]
  /\ UNCHANGED <<file, activeJob, before, trouble, completed, crashes>>

\* With a bug: any archive will do.
VerifyNothing(i) ==
  /\ install[i].state = "verifying"
  /\ install' = [install EXCEPT ![i].state = "verified"]
  /\ UNCHANGED <<file, activeJob, before, trouble, completed, crashes>>

\* verifyChecksum(), against the published list.
Verify(i) ==
  /\ install[i].state = "verifying" /\ install[i].archive = "published"
  /\ install' = [install EXCEPT ![i].state = "verified"]
  /\ UNCHANGED <<file, activeJob, before, trouble, completed, crashes>>

\* officialFetch() has no good answer, or the digest is another one.
Fail(i) ==
  /\ install[i].state \in {"downloading", "verifying"} /\ Ends(i, "failed")
  /\ UNCHANGED <<file, before, trouble, completed, crashes>>

\* An archive with entries that are not taken, or without both programs in one folder:
\* nothing has been copied.
ExtractFails(i) ==
  /\ install[i].state = "verified" /\ Ends(i, "failed")
  /\ UNCHANGED <<file, before, trouble, completed, crashes>>

\* cpSync() over what is there, one file after the other.
Copied(i, whole, cut) ==
  file' = [file EXCEPT !["mariadb"] = [k \in Kinds |-> IF k \in whole THEN install[i].archive ELSE IF k \in cut THEN "cut" ELSE @[k]]]

\* Extraction and copy wait for nothing: no request is served in between.
Copy(i) ==
  /\ install[i].state = "verified"
  /\ Copied(i, Kinds, {}) /\ Ends(i, "completed")
  /\ trouble' = FALSE /\ completed' = TRUE
  /\ UNCHANGED <<before, crashes>>

\* An error, or the end of the process, in the middle.
CopyBreaks(i) ==
  /\ install[i].state = "verified"
  /\ \E whole \in SUBSET Kinds, cut \in SUBSET Kinds :
       /\ whole # Kinds /\ whole \cap cut = {} /\ Cardinality(cut) <= 1
       /\ Copied(i, whole, cut)
  /\ \/ Ends(i, "failed") /\ UNCHANGED crashes
     \/ Dies
  /\ trouble' = TRUE /\ completed' = FALSE
  /\ UNCHANGED before

ToolsNext ==
  \/ Crash
  \/ \E i \in Installs : StartInstall(i) \/ Repair(i) \/ Download(i) \/ Verify(i) \/ Fail(i) \/ ExtractFails(i) \/ Copy(i) \/ CopyBreaks(i)

ToolsSpec == ToolsInit /\ [][ToolsNext]_toolsVars

-----------------------------------------------------------------------------
(* What is run *)

\* resolveClientBinary(): the folder of the engine, then the managed one for both.
Resolved(engine, kind) ==
  IF file[engine][kind] # "none" THEN file[engine][kind] ELSE file["mariadb"][kind]

\* probeDependency(), and dependencyDiagnostics() of an engine.
Probe(engine, kind) ==
  CASE Resolved(engine, kind) = "none" -> "missing"
    [] Resolved(engine, kind) = "cut" -> "corrupt"
    [] OTHER -> "working"
Diagnosis(engine) ==
  LET found == {Probe(engine, k) : k \in Kinds} IN
  IF "corrupt" \in found THEN "corrupt" ELSE IF "missing" \in found THEN "missing" ELSE "working"

-----------------------------------------------------------------------------
(* Properties *)

\* What is run never comes from an archive that is not the published one.
OnlyVerified == \A e \in Engines, k \in Kinds : Resolved(e, k) # "damaged"

\* One installation at a time, whoever asks for one or for a repair.
OneInstall == Cardinality({i \in Installs : install[i].state \in Unfinished}) <= 1

\* 'Database tools installed and ready.': both engines have both programs, as long as
\* nobody asks for a repair and no later copy breaks.
CompletedIsReady ==
  completed => /\ \A e \in Engines : Diagnosis(e) = "working"
               /\ file["mariadb"]["client"] = file["mariadb"]["dump"]

\* An installation that fails before it copies leaves the tools as they were, and so
\* does all that is asked while one is on its way.
KeptUntilReplaced ==
  ~trouble => \A e \in Engines, k \in Kinds :
    file[e][k] = before[e][k] \/ (e = "mariadb" /\ file[e][k] = "published")

ToolsAgree == OnlyVerified /\ OneInstall /\ CompletedIsReady /\ KeptUntilReplaced
==============================================================================
