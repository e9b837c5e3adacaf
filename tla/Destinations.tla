----------------------------- MODULE Destinations -----------------------------
(***************************************************************************)
(* The destinations of storage/storage.service.ts: how each kind of target *)
(* stores, lists, deletes and looks for the artifacts of a schedule's      *)
(* folder, what its health check says, and the settings all of it goes by. *)
(*                                                                         *)
(* BackupRuns follows one run through its upload and its retention, at a   *)
(* destination that lists at once and says what is true.  Here it lists by *)
(* pages, other people upload and delete, names stop to resolve, and the   *)
(* settings change between two operations or in the middle of one.         *)
(* A place is what the settings point to: a path, a bucket, a folder.      *)
(***************************************************************************)
EXTENDS Naturals, FiniteSets, FiniteSetsExt

CONSTANTS
  Files,      \* names in the order of time, 1 .. n
  Foreign,    \* those that do not start with the prefix of the schedule
  Places,
  Nowhere,
  Keeps,      \* values of the retention count
  MaxTroubles   \* bound on changes of settings, outages, and what others remove

VARIABLES
  kind, keep,
  locked,     \* the places with an object lock
  place, required,       \* the stored settings: where, and objectLockRequired
  stored, home,          \* where a file is, where it was uploaded to
  row,
  rotation,              \* the retention of a run
  task,                  \* beside it: a question of reconcileMissingArtifacts, a health
                         \* check, or the renewal of a token, with the settings it has read
  health,                \* what the last check says of a lock, if there was one
  resolving,             \* names of hosts resolve
  edits, outages, others

settings == <<place, required>>
fixed == <<kind, keep, locked>>
counts == <<edits, outages, others>>
destinationsVars == <<fixed, settings, stored, home, row, rotation, task, health, resolving, counts>>

Kinds == {"local", "ftp", "webdav", "google-drive", "onedrive", "s3"}
Drives == {"google-drive", "onedrive"}
Paged == Drives \cup {"s3"}
Idle == [stage |-> "idle"]
Trouble == edits + outages + others < MaxTroubles

DestinationsInit ==
  /\ kind \in Kinds /\ keep \in Keeps
  /\ locked \in IF kind = "s3" THEN SUBSET Places ELSE {{}}
  /\ place \in Places /\ required \in {FALSE, kind = "s3"}
  /\ stored = [f \in Files |-> Nowhere] /\ home = stored
  /\ row = [f \in Files |-> "none"]
  /\ rotation = Idle /\ task = Idle
  /\ health = "no lock"
  /\ resolving = TRUE
  /\ edits = 0 /\ outages = 0 /\ others = 0

-----------------------------------------------------------------------------
(* The surroundings *)

\* The folder belongs to the schedule, the place to whoever can reach it.
Lose(f) ==
  /\ Trouble /\ others' = others + 1
  /\ stored[f] # Nowhere /\ ~(required /\ stored[f] \in locked)
  /\ stored' = [stored EXCEPT ![f] = Nowhere]
  /\ UNCHANGED <<fixed, settings, home, row, rotation, task, health, resolving, edits, outages>>

Resolve ==
  /\ resolving => Trouble
  /\ resolving' = ~resolving
  /\ outages' = IF resolving THEN outages + 1 ELSE outages
  /\ UNCHANGED <<fixed, settings, stored, home, row, rotation, task, health, edits, others>>

\* Local files need no host.
Unresolved == ~resolving /\ kind # "local"

-----------------------------------------------------------------------------
(* Settings *)

\* save() replaces them, whatever is under way; the last health stays.
SaveTarget(p, lock) ==
  /\ Trouble /\ edits' = edits + 1
  /\ <<p, lock>> # settings /\ (lock => kind = "s3")
  /\ place' = p /\ required' = lock
  /\ UNCHANGED <<fixed, stored, home, row, rotation, task, health, resolving, outages, others>>

\* accessToken() keeps the settings it was given across the answer of the
\* provider, and stores all of them with the new token.
BeginRefresh ==
  /\ kind \in Drives /\ task = Idle
  /\ task' = [stage |-> "renewing", place |-> place]
  /\ UNCHANGED <<fixed, settings, stored, home, row, rotation, health, resolving, counts>>

EndRefresh ==
  /\ task.stage = "renewing" /\ task' = Idle
  /\ \/ ~Unresolved /\ place' = task.place
     \/ UNCHANGED place
  /\ UNCHANGED <<fixed, required, stored, home, row, rotation, health, resolving, counts>>

-----------------------------------------------------------------------------
(* Uploads *)

\* Names have the time in front, so a new file is the newest.  A bucket takes a
\* lock only if it was made for locks.  The answer may be lost.
Upload(f) ==
  /\ row[f] = "none" /\ \A g \in Files : g < f => row[g] # "none"
  /\ \/ /\ ~Unresolved /\ (required => place \in locked)
        /\ stored' = [stored EXCEPT ![f] = place] /\ home' = [home EXCEPT ![f] = place]
        /\ row' = [row EXCEPT ![f] = IF f \in Foreign THEN "failed" ELSE "success"]
     \/ /\ ~Unresolved /\ (required => place \in locked)
        /\ stored' = [stored EXCEPT ![f] = place] /\ home' = [home EXCEPT ![f] = place]
        /\ row' = [row EXCEPT ![f] = "failed"]
     \/ row' = [row EXCEPT ![f] = "failed"] /\ UNCHANGED <<stored, home>>
  /\ UNCHANGED <<fixed, settings, rotation, task, health, resolving, counts>>

-----------------------------------------------------------------------------
(* Retention *)

\* rotationFiles(): what is in the folder and starts with the prefix.
Listing(p) == {f \in Files \ Foreign : stored[f] = p}

\* With a bug: the names in rising order.
ExcessRising(seen) == {f \in seen : Cardinality({g \in seen : g < f}) >= keep}

\* The newest names first, and all behind the first few.
Excess(seen) == {f \in seen : Cardinality({g \in seen : g > f}) >= keep}

\* A retention of 0 keeps everything, and so does a bucket with a lock.
StartRotation ==
  /\ rotation = Idle /\ keep > 0 /\ ~(kind = "s3" /\ required)
  /\ rotation' = [stage |-> "listing", place |-> place, due |-> Listing(place), seen |-> {}, left |-> {}]
  /\ UNCHANGED <<fixed, settings, stored, home, row, task, health, resolving, counts>>

\* Pages are read until there is no next one: whatever was there all the time has
\* been on one of them.  Nothing is sorted before, and nothing deleted.
ReadPage ==
  /\ rotation.stage = "listing" /\ ~Unresolved
  /\ LET p == rotation.place IN \E page \in SUBSET (Listing(p) \ rotation.seen) :
       /\ kind \notin Paged => page = Listing(p)
       /\ LET seen == rotation.seen \cup page
              last == rotation.due \cap Listing(p) \subseteq seen
          IN /\ page # {} \/ last
             /\ rotation' = [rotation EXCEPT !.seen = seen, !.stage = IF last THEN "deleting" ELSE "listing",
                                             !.left = IF last THEN Excess(seen) ELSE {}]
  /\ UNCHANGED <<fixed, settings, stored, home, row, task, health, resolving, counts>>

\* isMissingRemote() takes a host that does not resolve for a file that is not
\* there; of the kinds that ask it, FTP and S3 resolve at that moment.
TakenForMissing == Unresolved /\ kind \in {"ftp", "s3"}

Expire(f) == row' = [row EXCEPT ![f] = IF @ = "success" THEN "expired" ELSE @]
Passed(f) == rotation' = [rotation EXCEPT !.left = @ \ {f}]

\* One by one.  Local files and S3 acknowledge the removal of what is not there,
\* the others say so and it is passed over.
Delete ==
  /\ rotation.stage = "deleting" /\ rotation.left # {}
  /\ LET f == Max(rotation.left) IN
     \/ /\ ~Unresolved /\ stored[f] = rotation.place
        /\ stored' = [stored EXCEPT ![f] = Nowhere] /\ Expire(f) /\ Passed(f)
     \/ /\ ~Unresolved /\ stored[f] # rotation.place /\ UNCHANGED stored /\ Passed(f)
        /\ IF kind \in {"local", "s3"} THEN Expire(f) ELSE UNCHANGED row
     \/ TakenForMissing /\ kind = "s3" /\ Passed(f) /\ UNCHANGED <<stored, row>>
  /\ UNCHANGED <<fixed, settings, home, task, health, resolving, counts>>

\* An error of a listing or a deletion, whose effect may have taken place.
RotationFails ==
  /\ rotation # Idle /\ rotation' = Idle
  /\ \/ UNCHANGED stored
     \/ /\ rotation.stage = "deleting" /\ rotation.left # {} /\ ~Unresolved
        /\ stored' = [stored EXCEPT ![Max(rotation.left)] = IF @ = rotation.place THEN Nowhere ELSE @]
  /\ UNCHANGED <<fixed, settings, home, row, task, health, resolving, counts>>

RotationEnds ==
  /\ rotation.stage = "deleting" /\ rotation.left = {}
  /\ rotation' = Idle
  /\ UNCHANGED <<fixed, settings, stored, home, row, task, health, resolving, counts>>

-----------------------------------------------------------------------------
(* isAvailable(), as reconcileMissingArtifacts() asks it for every success *)

AskFor(f) ==
  /\ task = Idle /\ row[f] = "success"
  /\ task' = [stage |-> "asked", file |-> f, place |-> place]
  /\ UNCHANGED <<fixed, settings, stored, home, row, rotation, health, resolving, counts>>

\* The drives know a file by its identity, the others by the place of the settings.
Missing(f, p) ==
  \/ TakenForMissing
  \/ ~Unresolved /\ IF kind \in Drives THEN stored[f] = Nowhere ELSE stored[f] # p

\* Any other error leaves the row as it is.
Reply ==
  /\ task.stage = "asked" /\ task' = Idle
  /\ \/ Missing(task.file, task.place) /\ Expire(task.file)
     \/ UNCHANGED row
  /\ UNCHANGED <<fixed, settings, stored, home, rotation, health, resolving, counts>>

-----------------------------------------------------------------------------
(* health() *)

BeginHealth ==
  /\ task = Idle /\ task' = [stage |-> "testing", place |-> place, required |-> required]
  /\ UNCHANGED <<fixed, settings, stored, home, row, rotation, health, resolving, counts>>

\* test() of the kind.  Only an S3 target whose lock is required and found says so;
\* that any target is unavailable (a drive without credentials, a host that does not
\* answer) and that one is healthy without a lock are not told apart.
Tested ==
  {"no lock"} \cup IF task.required /\ ~Unresolved /\ task.place \in locked THEN {"object lock"} ELSE {}

EndHealth ==
  /\ task.stage = "testing" /\ task' = Idle
  /\ health' \in Tested
  /\ UNCHANGED <<fixed, settings, stored, home, row, rotation, resolving, counts>>

\* immutabilityStatus()
ProviderEnforced == kind = "s3" /\ required /\ health = "object lock"

DestinationsNext ==
  \/ Resolve \/ BeginRefresh \/ EndRefresh
  \/ \E p \in Places, lock \in BOOLEAN : SaveTarget(p, lock)
  \/ \E f \in Files : Lose(f) \/ Upload(f) \/ AskFor(f)
  \/ StartRotation \/ ReadPage \/ Delete \/ RotationFails \/ RotationEnds
  \/ Reply \/ BeginHealth \/ EndHealth

DestinationsSpec == DestinationsInit /\ [][DestinationsNext]_destinationsVars

-----------------------------------------------------------------------------
(* Properties *)

Newer(f) == {g \in Files \ Foreign : home[g] = home[f] /\ g > f}

\* Retention removes a file only if newer ones, as many as are kept, have been
\* stored at its place, and never a file of others; whatever is uploaded between two
\* pages, fails, or is removed by retention itself.
RetentionIsRight ==
  others = 0 => \A f \in Files : stored[f] # home[f] => f \notin Foreign /\ keep > 0 /\ Cardinality(Newer(f)) >= keep

\* docs/THREAT_MODEL.md:29: a success is written off when its file is not there.  The
\* code keeps this only while names resolve, where a failure to is taken for a missing
\* file, and, but for the drives, only while the settings do not change.
WrittenOffIsGone ==
  (edits = 0 \/ kind \in Drives) /\ (outages = 0 \/ kind \notin {"ftp", "s3"}) =>
    \A f \in Files : row[f] = "expired" => stored[f] = Nowhere

\* 'Object Lock is enabled and was verified by the last health check.'  This, too, only
\* while the settings do not change: the result of a check outlives them.
EnforcedIsLocked == edits = 0 /\ ProviderEnforced => place \in locked

DestinationsAgree == RetentionIsRight /\ WrittenOffIsGone /\ EnforcedIsLocked
==============================================================================
