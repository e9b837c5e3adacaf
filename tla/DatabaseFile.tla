---------------------------- MODULE DatabaseFile ----------------------------
(***************************************************************************)
(* SqliteFile of src/src/database/database.service.ts: a database in       *)
(* memory, nested transactions that roll back to an exported snapshot, and *)
(* a file that the outermost transaction replaces by renaming.             *)
(*                                                                         *)
(* A content of the database is the set of writes in it.  Transactions are *)
(* synchronous: no other handler runs inside one, but its work may fail,   *)
(* and be caught, at every level, and the process may crash anywhere.      *)
(***************************************************************************)
EXTENDS Naturals, Sequences

CONSTANTS Writes,     \* identities of statements that change something, used once
          MaxDepth,   \* bound on the nesting of transactions
          MaxCrashes  \* bound on crashes

ASSUME DatabaseFileAssumption == MaxDepth \in Nat \ {0} /\ MaxCrashes \in Nat

VARIABLES memory,   \* this.native
          file,     \* the database file
          frames,   \* the snapshot of each transaction that has begun, outermost first
          saving,   \* step of persist()
          opened,
          done,     \* history: writes of transactions that returned to their caller
          undone,   \* history: writes of transactions that threw
          crashes

vars == <<memory, file, frames, saving, opened, done, undone, crashes>>

Steps == {"no", "writing", "renamed"}

Depth == Len(frames)
Front(s) == [i \in 1..(Len(s) - 1) |-> s[i]]

Init ==
  /\ memory = {} /\ file = {}
  /\ frames = <<>>
  /\ saving = "no"
  /\ opened = TRUE
  /\ done = {} /\ undone = {}
  /\ crashes = 0

\* The work of a transaction, or a handler outside of one, is running.
Working == opened /\ saving = "no"

\* The snapshot of the innermost transaction is restored and it throws.
Rollback ==
  /\ undone' = undone \cup (memory \ frames[Depth])
  /\ memory' = frames[Depth]
  /\ frames' = Front(frames)
  /\ UNCHANGED <<file, opened, done, crashes>>

\* Mutant of Throw: without snapshots of its own an inner failure leaves its writes.
ThrowInner ==
  /\ Working
  /\ Depth > 0
  /\ IF Depth = 1 THEN Rollback
     ELSE /\ undone' = undone \cup (memory \ frames[Depth])
          /\ frames' = Front(frames)
          /\ UNCHANGED <<memory, file, opened, done, crashes>>
  /\ UNCHANGED saving

-----------------------------------------------------------------------------
\* transaction() is entered.
Begin ==
  /\ Working
  /\ Depth < MaxDepth
  /\ frames' = Append(frames, memory)
  /\ UNCHANGED <<memory, file, saving, opened, done, undone, crashes>>

\* A statement runs: execute() and exec() open a transaction for it.
Write(w) ==
  /\ Working
  /\ Depth > 0
  /\ w \notin memory \cup undone
  /\ memory' = memory \cup {w}
  /\ UNCHANGED <<file, frames, saving, opened, done, undone, crashes>>

\* The work throws, or returns a promise.  Its caller may catch the error.
Throw ==
  /\ Working
  /\ Depth > 0
  /\ Rollback
  /\ UNCHANGED saving

\* An inner transaction returns.
Return ==
  /\ Working
  /\ Depth > 1
  /\ frames' = Front(frames)
  /\ UNCHANGED <<memory, file, saving, opened, done, undone, crashes>>

\* Mutant of Save: the file is written in place.
SaveInPlace ==
  /\ Working
  /\ Depth = 1
  /\ saving' = "writing"
  /\ file' = {}
  /\ UNCHANGED <<memory, frames, opened, done, undone, crashes>>

\* The outermost transaction has done its work: persist() writes a temporary file.
Save ==
  /\ Working
  /\ Depth = 1
  /\ saving' = "writing"
  /\ UNCHANGED <<memory, file, frames, opened, done, undone, crashes>>

\* Opening, writing, syncing or renaming the temporary file fails.
SaveFails ==
  /\ opened /\ saving = "writing"
  /\ saving' = "no"
  /\ Rollback

\* The rename commits; what fails after it is ignored.
Rename ==
  /\ opened /\ saving = "writing"
  /\ file' = memory
  /\ saving' = "renamed"
  /\ UNCHANGED <<memory, frames, opened, done, undone, crashes>>

\* Mutant of Saved: a failing directory sync counts as a failure.
SavedOrRolledBack ==
  /\ opened /\ saving = "renamed"
  /\ saving' = "no"
  /\ \/ Rollback
     \/ /\ done' = done \cup (memory \ frames[1])
        /\ frames' = Front(frames)
        /\ UNCHANGED <<memory, file, opened, undone, crashes>>

\* transaction() returns to its caller.
Saved ==
  /\ opened /\ saving = "renamed"
  /\ saving' = "no"
  /\ done' = done \cup (memory \ frames[1])
  /\ frames' = Front(frames)
  /\ UNCHANGED <<memory, file, opened, undone, crashes>>

\* The process stops between two system calls.  Statements that were not
\* saved never happened.
Crash ==
  /\ opened
  /\ crashes < MaxCrashes
  /\ opened' = FALSE
  /\ memory' = {} /\ frames' = <<>> /\ saving' = "no"
  /\ crashes' = crashes + 1
  /\ undone' = undone \cup (memory \ file)
  /\ UNCHANGED <<file, done>>

\* close() saves once more, outside of every transaction.
Close ==
  /\ Working
  /\ Depth = 0
  /\ file' = memory
  /\ opened' = FALSE
  /\ memory' = {}
  /\ UNCHANGED <<frames, saving, done, undone, crashes>>

\* The service reads the file when it starts.
Open ==
  /\ ~opened
  /\ opened' = TRUE
  /\ memory' = file
  /\ UNCHANGED <<file, frames, saving, done, undone, crashes>>

Next ==
  \/ Begin \/ Throw \/ Return \/ Save \/ SaveFails \/ Rename \/ Saved
  \/ Crash \/ Close \/ Open
  \/ \E w \in Writes : Write(w)

Spec == Init /\ [][Next]_vars

-----------------------------------------------------------------------------
(* Properties. *)

\* The types of the two copies and of the transactions in progress.
TypeOK ==
  /\ memory \subseteq Writes /\ file \subseteq Writes
  /\ frames \in Seq(SUBSET Writes) /\ Depth <= MaxDepth
  /\ saving \in Steps
  /\ opened \in BOOLEAN
  /\ done \subseteq Writes /\ undone \subseteq Writes
  /\ crashes \in 0..MaxCrashes

\* A transaction that threw leaves nothing behind, neither in memory nor on
\* disk nor in a snapshot that may be restored later, at whatever level its
\* error was caught.
FailureLeavesNoTrace ==
  /\ undone \cap (memory \cup file) = {}
  /\ \A i \in 1..Depth : undone \cap frames[i] = {}

\* What a transaction that returned has written is on disk, whatever fails
\* or crashes later.
ReturnedIsDurable == done \subseteq file

\* Outside of transactions a handler reads in memory exactly what a restart
\* would read from disk.
MemoryIsFile == opened /\ Depth = 0 => memory = file
=============================================================================
