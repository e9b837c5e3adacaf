------------------------------ MODULE DataOwner ------------------------------
(***************************************************************************)
(* DataOwner.acquire and its release function, src/src/database/           *)
(* data-owner.ts: one writer for a data directory, by a lock file that     *)
(* names its owner and a gate file around every examination of the lock.   *)
(*                                                                         *)
(* Every start of the application is a process of its own; each system     *)
(* call on the two files is an action, and a process may die before any of *)
(* them.  The token of an owner is the identity of its start; its process  *)
(* number may be in use again after its death.                             *)
(***************************************************************************)
EXTENDS Naturals, FiniteSets

CONSTANTS Starts,  \* starts of the application on this directory
          Pids,    \* process numbers
          NoLock

ASSUME DataOwnerAssumption == Pids # {} /\ NoLock \notin [by : Starts, written : BOOLEAN]

VARIABLES pc,    \* where a process is
          pid,   \* its number
          seen,  \* the owner it has read from the lock
          lock,  \* the file .vaultback-owner
          gate   \* the file .vaultback-owner.gate exists

ownerVars == <<pc, pid, seen, lock, gate>>

\* The states in which a process holds the gate.
Inside == {"check", "read", "probe", "unlink", "create", "write", "ungate", "refuse"}
\* Those in which it has the directory.
Owning == {"ungate", "owner", "unlock"}
States == {"new", "gate", "gone"} \cup Inside \cup Owning

\* The lock with its owner in it, and before that.
Held(a) == [by |-> a, written |-> TRUE]
Blank(a) == [by |-> a, written |-> FALSE]

Alive(a) == pc[a] \notin {"new", "gone"}

Goto(a, s) == pc' = [pc EXCEPT ![a] = s]

OwnerInit ==
  /\ pc = [a \in Starts |-> "new"]
  /\ pid \in [Starts -> Pids]
  /\ seen = [a \in Starts |-> a]
  /\ lock = NoLock
  /\ gate = FALSE

-----------------------------------------------------------------------------
\* A process starts; its number is not in use.
Start(a) ==
  /\ pc[a] = "new"
  /\ \E n \in Pids :
       /\ \A b \in Starts : Alive(b) => pid[b] # n
       /\ pid' = [pid EXCEPT ![a] = n]
  /\ Goto(a, "gate")
  /\ UNCHANGED <<seen, lock, gate>>

\* Mutant of OpenGate: the gate is not opened exclusively.
OpenGateShared(a) ==
  /\ pc[a] = "gate"
  /\ gate' = TRUE
  /\ Goto(a, "check")
  /\ UNCHANGED <<pid, seen, lock>>

\* openSync(gate, 'wx'): a gate that exists, abandoned or not, ends the start.
OpenGate(a) ==
  /\ pc[a] = "gate"
  /\ gate' = TRUE
  /\ Goto(a, IF gate THEN "gone" ELSE "check")
  /\ UNCHANGED <<pid, seen, lock>>

\* existsSync(lock)
Check(a) ==
  /\ pc[a] = "check"
  /\ Goto(a, IF lock = NoLock THEN "create" ELSE "read")
  /\ UNCHANGED <<pid, seen, lock, gate>>

\* A lock that has gone, or that says nothing, is ambiguous.
Read(a) ==
  /\ pc[a] = "read"
  /\ IF lock # NoLock /\ lock.written
       THEN seen' = [seen EXCEPT ![a] = lock.by] /\ Goto(a, "probe")
       ELSE Goto(a, "refuse") /\ UNCHANGED seen
  /\ UNCHANGED <<pid, lock, gate>>

\* Mutant of Probe: an owner that cannot be verified counts as dead.
ProbeTrustingErrors(a) ==
  /\ pc[a] = "probe"
  /\ \E s \in {"unlink", "refuse"} : Goto(a, s)
  /\ UNCHANGED <<pid, seen, lock, gate>>

\* process.kill(owner.pid, 0): 'DATA_DIR already has a live writer'
Probe(a) ==
  /\ pc[a] = "probe"
  /\ Goto(a, IF \E b \in Starts : Alive(b) /\ pid[b] = pid[seen[a]] THEN "refuse" ELSE "unlink")
  /\ UNCHANGED <<pid, seen, lock, gate>>

\* The lock of a dead owner is removed; unlinkSync throws without one.
Unlink(a) ==
  /\ pc[a] = "unlink"
  /\ lock' = NoLock
  /\ Goto(a, IF lock = NoLock THEN "refuse" ELSE "create")
  /\ UNCHANGED <<pid, seen, gate>>

\* openSync(lock, 'wx')
Create(a) ==
  /\ pc[a] = "create"
  /\ IF lock = NoLock THEN lock' = Blank(a) /\ Goto(a, "write")
                      ELSE Goto(a, "refuse") /\ UNCHANGED lock
  /\ UNCHANGED <<pid, seen, gate>>

\* Owner and token are written to the file that was created, or the write fails.
WriteOwner(a) ==
  /\ pc[a] = "write"
  /\ \/ /\ lock' = IF lock = Blank(a) THEN Held(a) ELSE lock
        /\ Goto(a, "ungate")
     \/ Goto(a, "refuse") /\ UNCHANGED lock
  /\ UNCHANGED <<pid, seen, gate>>

\* The gate is removed, and the directory acquired or refused.
Ungate(a) ==
  /\ pc[a] \in {"ungate", "refuse"}
  /\ gate' = FALSE
  /\ Goto(a, IF pc[a] = "ungate" THEN "owner" ELSE "gone")
  /\ UNCHANGED <<pid, seen, lock>>

\* The release function reads the lock; another owner in it is an error.
Release(a) ==
  /\ pc[a] = "owner"
  /\ lock = Held(a)
  /\ Goto(a, "unlock")
  /\ UNCHANGED <<pid, seen, lock, gate>>

\* It removes the lock and the process exits.
Unlock(a) ==
  /\ pc[a] = "unlock"
  /\ lock' = NoLock
  /\ Goto(a, "gone")
  /\ UNCHANGED <<pid, seen, gate>>

\* The process dies and leaves both files as they are.
Die(a) ==
  /\ Alive(a)
  /\ Goto(a, "gone")
  /\ UNCHANGED <<pid, seen, lock, gate>>

Step(a) ==
  \/ Start(a) \/ OpenGate(a) \/ Check(a) \/ Read(a) \/ Probe(a) \/ Unlink(a)
  \/ Create(a) \/ WriteOwner(a) \/ Ungate(a) \/ Release(a) \/ Unlock(a) \/ Die(a)

OwnerNext == \E a \in Starts : Step(a)

OwnerSpec == OwnerInit /\ [][OwnerNext]_ownerVars

-----------------------------------------------------------------------------
(* Properties. *)

\* The types of the files and of what a process remembers.
OwnerTypeOK ==
  /\ pc \in [Starts -> States]
  /\ pid \in [Starts -> Pids]
  /\ seen \in [Starts -> Starts]
  /\ lock \in [by : Starts, written : BOOLEAN] \cup {NoLock}
  /\ gate \in BOOLEAN

\* Two processes never write the same data directory, whenever they start,
\* die, and come back under a number that was used before.
OneWriter == \A a, b \in Starts : pc[a] \in Owning /\ pc[b] \in Owning => a = b

\* The lock names the process that has the directory for as long as it has
\* it: nobody takes the lock of a live owner away, and its release never
\* finds that 'ownership changed unexpectedly'.
OwnerHasLock == \A a \in Starts : pc[a] \in Owning => lock = Held(a)

\* 'DATA_DIR already has a live writer': a start is refused with these words
\* only while another process has the directory.
RefusedForLiveWriter ==
  [][\A a \in Starts :
       pc[a] = "probe" /\ pc'[a] = "refuse" => \E b \in Starts \ {a} : pc[b] \in Owning]_ownerVars
=============================================================================
