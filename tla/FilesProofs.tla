----------------------------- MODULE FilesProofs -----------------------------
(***************************************************************************)
(* A data directory has one writer, for any number of starts and process   *)
(* numbers: the gate serialises the processes that examine the lock, and   *)
(* none of them removes the lock of a process that is alive.  The          *)
(* transactions of its database file are atomic and durable for any number *)
(* of statements, levels and crashes.                                      *)
(*                                                                         *)
(* What a process that dies leaves behind, for any number of packages,     *)
(* captures, scripts, managed paths, rehearsals, kills and crashes.  Each  *)
(* part has an inductive invariant of its own, which says what a process   *)
(* that dies at any step leaves for the next one.  The parts share no      *)
(* variable, so that a step of another part leaves it as it is.            *)
(***************************************************************************)
EXTENDS MCFiles, WellFoundedInduction, TLAPS

-----------------------------------------------------------------------------
(* The lock *)

\* At most one process is inside the gate, and the gate says so.
GateInv == \A a, b \in Starts : pc[a] \in Inside => gate /\ (pc[b] \in Inside => a = b)

\* What the process inside the gate has found out stays true.
InsideInv ==
  \A a \in Starts :
    /\ pc[a] = "unlink" => ~Alive(seen[a]) /\ lock \in {NoLock, Held(seen[a])}
    /\ pc[a] = "create" => lock = NoLock
    /\ pc[a] = "write" => lock = Blank(a)
    /\ pc[a] = "probe" => lock \in {NoLock, Held(seen[a])}

\* A process that never ran has written nothing.
NewInv ==
  \A a \in Starts : pc[a] = "new" => seen[a] = a /\ lock # Held(a) /\ lock # Blank(a)

\* Neither is a process remembered that never ran.
SeenInv == \A a \in Starts : pc[a] \in {"probe", "unlink"} => pc[seen[a]] # "new"

OwnerIInv == OwnerTypeOK /\ GateInv /\ InsideInv /\ NewInv /\ SeenInv /\ OwnerHasLock

\* What the lock file may be.
Locks == [by : Starts, written : BOOLEAN] \cup {NoLock}

\* The lock of one process is not that of another one, nor no lock; and what
\* is in the file is the lock of somebody.
LEMMA LockFacts ==
  /\ \A a \in Starts :
       /\ Held(a) \in Locks /\ Blank(a) \in Locks
       /\ Held(a) # NoLock /\ Blank(a) # NoLock
       /\ Held(a).by = a /\ Blank(a).by = a
  /\ \A a, b \in Starts :
       /\ Held(a) # Blank(b)
       /\ Held(a) = Held(b) => a = b
       /\ Blank(a) = Blank(b) => a = b
  /\ \A l \in Locks :
       l # NoLock /\ l.written => l.by \in Starts /\ l = Held(l.by)
<1>1. ASSUME NEW a \in Starts
      PROVE  /\ Held(a) \in Locks /\ Blank(a) \in Locks
             /\ Held(a) # NoLock /\ Blank(a) # NoLock
             /\ Held(a).by = a /\ Blank(a).by = a
  <2>1. /\ Held(a) \in [by : Starts, written : BOOLEAN]
        /\ Blank(a) \in [by : Starts, written : BOOLEAN]
    BY DEF Held, Blank
  <2>2. Held(a).by = a /\ Blank(a).by = a
    BY DEF Held, Blank
  <2> QED
    BY <2>1, <2>2, DataOwnerAssumption DEF Locks
<1>2. ASSUME NEW a \in Starts, NEW b \in Starts
      PROVE  /\ Held(a) # Blank(b)
             /\ Held(a) = Held(b) => a = b
             /\ Blank(a) = Blank(b) => a = b
  BY DEF Held, Blank
<1>3. ASSUME NEW l \in Locks, l # NoLock, l.written
      PROVE  l.by \in Starts /\ l = Held(l.by)
  BY <1>3 DEF Held, Blank, Locks
<1> QED
  BY <1>1, <1>2, <1>3

\* A process moves and the others stay where they are.
LEMMA GotoFacts ==
  ASSUME OwnerTypeOK, NEW a \in Starts, NEW s \in States, Goto(a, s)
  PROVE  /\ pc' \in [Starts -> States]
         /\ pc'[a] = s
         /\ \A b \in Starts : b # a => pc'[b] = pc[b]
BY DEF Goto, OwnerTypeOK

\* A new process is not the one in the lock, and nobody remembers it.
LEMMA StartIInv == ASSUME OwnerIInv, NEW a \in Starts, Start(a) PROVE OwnerIInv'
<1> USE DEF OwnerIInv
<1>1. OwnerTypeOK'
  <2>1. pc' \in [Starts -> States]
    BY GotoFacts DEF Start, Inside, Owning, States
  <2>2. pid' \in [Starts -> Pids] /\ seen' \in [Starts -> Starts] /\ gate' \in BOOLEAN
    BY LockFacts DEF Start, OwnerTypeOK, Locks
  <2>3. lock' \in Locks
    BY LockFacts DEF Start, OwnerTypeOK, Locks
  <2> QED
    BY <2>1, <2>2, <2>3 DEF OwnerTypeOK, Locks
<1>2. \A b \in Starts : b # a => pc'[b] = pc[b] /\ seen'[b] = seen[b]
  BY DEF Start, OwnerTypeOK, Goto
<1>3. GateInv'
  BY <1>1, <1>2 DEF Start, GateInv, Goto, Inside, OwnerTypeOK
<1>4. InsideInv'
  BY <1>1, <1>2, LockFacts DEF Start, GateInv, InsideInv, Goto, Inside, Alive, OwnerTypeOK,
     NewInv, SeenInv, Locks
<1>5. NewInv'
  BY <1>1, <1>2, LockFacts DEF Start, NewInv, Goto, OwnerTypeOK
<1>6. SeenInv'
  BY <1>1, <1>2, LockFacts DEF Start, SeenInv, NewInv, Goto, OwnerTypeOK, Locks
<1>7. OwnerHasLock'
  BY <1>1, <1>2, LockFacts DEF Start, GateInv, InsideInv, OwnerHasLock, Owning, Inside,
     Alive, Goto, OwnerTypeOK
<1> QED
  BY <1>1, <1>3, <1>4, <1>5, <1>6, <1>7

\* The gate is opened by one process at a time.
LEMMA OpenGateIInv == ASSUME OwnerIInv, NEW a \in Starts, OpenGate(a) PROVE OwnerIInv'
<1> USE DEF OwnerIInv
<1>1. OwnerTypeOK'
  <2>1. pc' \in [Starts -> States]
    BY GotoFacts DEF OpenGate, Inside, Owning, States
  <2>2. pid' \in [Starts -> Pids] /\ seen' \in [Starts -> Starts] /\ gate' \in BOOLEAN
    BY LockFacts DEF OpenGate, OwnerTypeOK, Locks
  <2>3. lock' \in Locks
    BY LockFacts DEF OpenGate, OwnerTypeOK, Locks
  <2> QED
    BY <2>1, <2>2, <2>3 DEF OwnerTypeOK, Locks
<1>2. \A b \in Starts : b # a => pc'[b] = pc[b] /\ seen'[b] = seen[b]
  BY DEF OpenGate, OwnerTypeOK, Goto
<1>3. GateInv'
  BY <1>1, <1>2 DEF OpenGate, GateInv, Goto, Inside, OwnerTypeOK
<1>4. InsideInv'
  BY <1>1, <1>2, LockFacts DEF OpenGate, GateInv, InsideInv, Goto, Inside, Alive, OwnerTypeOK,
     NewInv, SeenInv, Locks
<1>5. NewInv'
  BY <1>1, <1>2, LockFacts DEF OpenGate, NewInv, Goto, OwnerTypeOK
<1>6. SeenInv'
  BY <1>1, <1>2, LockFacts DEF OpenGate, SeenInv, NewInv, Goto, OwnerTypeOK, Locks
<1>7. OwnerHasLock'
  BY <1>1, <1>2, LockFacts DEF OpenGate, GateInv, InsideInv, OwnerHasLock, Owning,
     Inside, Alive, Goto, OwnerTypeOK
<1> QED
  BY <1>1, <1>3, <1>4, <1>5, <1>6, <1>7

\* Without a lock there is no owner.
LEMMA CheckIInv == ASSUME OwnerIInv, NEW a \in Starts, Check(a) PROVE OwnerIInv'
<1> USE DEF OwnerIInv
<1>1. OwnerTypeOK'
  <2>1. pc' \in [Starts -> States]
    BY GotoFacts DEF Check, Inside, Owning, States
  <2>2. pid' \in [Starts -> Pids] /\ seen' \in [Starts -> Starts] /\ gate' \in BOOLEAN
    BY LockFacts DEF Check, OwnerTypeOK, Locks
  <2>3. lock' \in Locks
    BY LockFacts DEF Check, OwnerTypeOK, Locks
  <2> QED
    BY <2>1, <2>2, <2>3 DEF OwnerTypeOK, Locks
<1>2. \A b \in Starts : b # a => pc'[b] = pc[b] /\ seen'[b] = seen[b]
  BY DEF Check, OwnerTypeOK, Goto
<1>3. GateInv'
  BY <1>1, <1>2 DEF Check, GateInv, Goto, Inside, OwnerTypeOK
<1>4. InsideInv'
  BY <1>1, <1>2, LockFacts DEF Check, GateInv, InsideInv, Goto, Inside, Alive, OwnerTypeOK,
     NewInv, SeenInv, Locks
<1>5. NewInv'
  BY <1>1, <1>2, LockFacts DEF Check, NewInv, Goto, OwnerTypeOK
<1>6. SeenInv'
  BY <1>1, <1>2, LockFacts DEF Check, SeenInv, NewInv, Goto, OwnerTypeOK, Locks
<1>7. OwnerHasLock'
  BY <1>1, <1>2, LockFacts DEF Check, GateInv, InsideInv, OwnerHasLock, Owning, Inside,
     Alive, Goto, OwnerTypeOK
<1> QED
  BY <1>1, <1>3, <1>4, <1>5, <1>6, <1>7

\* The owner that is read is the one in the lock.
LEMMA ReadIInv == ASSUME OwnerIInv, NEW a \in Starts, Read(a) PROVE OwnerIInv'
<1> USE DEF OwnerIInv
<1>1. OwnerTypeOK'
  <2>1. pc' \in [Starts -> States]
    BY GotoFacts DEF Read, Inside, Owning, States
  <2>2. pid' \in [Starts -> Pids] /\ seen' \in [Starts -> Starts] /\ gate' \in BOOLEAN
    BY LockFacts DEF Read, OwnerTypeOK, Locks
  <2>3. lock' \in Locks
    BY LockFacts DEF Read, OwnerTypeOK, Locks
  <2> QED
    BY <2>1, <2>2, <2>3 DEF OwnerTypeOK, Locks
<1>2. \A b \in Starts : b # a => pc'[b] = pc[b] /\ seen'[b] = seen[b]
  BY DEF Read, OwnerTypeOK, Goto
<1>3. GateInv'
  BY <1>1, <1>2 DEF Read, GateInv, Goto, Inside, OwnerTypeOK
<1>4. InsideInv'
  BY <1>1, <1>2, LockFacts DEF Read, GateInv, InsideInv, Goto, Inside, Alive, OwnerTypeOK,
     NewInv, SeenInv, Locks
<1>5. NewInv'
  BY <1>1, <1>2, LockFacts DEF Read, NewInv, Goto, OwnerTypeOK
<1>6. SeenInv'
  BY <1>1, <1>2, LockFacts DEF Read, SeenInv, NewInv, Goto, OwnerTypeOK, Locks
<1>7. OwnerHasLock'
  BY <1>1, <1>2, LockFacts DEF Read, GateInv, InsideInv, OwnerHasLock, Owning, Inside,
     Alive, Goto, OwnerTypeOK
<1> QED
  BY <1>1, <1>3, <1>4, <1>5, <1>6, <1>7

\* Only an owner that is dead loses its lock.
LEMMA ProbeIInv == ASSUME OwnerIInv, NEW a \in Starts, Probe(a) PROVE OwnerIInv'
<1> USE DEF OwnerIInv
<1>1. OwnerTypeOK'
  <2>1. pc' \in [Starts -> States]
    BY GotoFacts DEF Probe, Inside, Owning, States
  <2>2. pid' \in [Starts -> Pids] /\ seen' \in [Starts -> Starts] /\ gate' \in BOOLEAN
    BY LockFacts DEF Probe, OwnerTypeOK, Locks
  <2>3. lock' \in Locks
    BY LockFacts DEF Probe, OwnerTypeOK, Locks
  <2> QED
    BY <2>1, <2>2, <2>3 DEF OwnerTypeOK, Locks
<1>2. \A b \in Starts : b # a => pc'[b] = pc[b] /\ seen'[b] = seen[b]
  BY DEF Probe, OwnerTypeOK, Goto
<1>3. GateInv'
  BY <1>1, <1>2 DEF Probe, GateInv, Goto, Inside, OwnerTypeOK
<1>4. InsideInv'
  BY <1>1, <1>2, LockFacts DEF Probe, GateInv, InsideInv, Goto, Inside, Alive, OwnerTypeOK,
     NewInv, SeenInv, Locks
<1>5. NewInv'
  BY <1>1, <1>2, LockFacts DEF Probe, NewInv, Goto, OwnerTypeOK
<1>6. SeenInv'
  BY <1>1, <1>2, LockFacts DEF Probe, SeenInv, NewInv, Goto, OwnerTypeOK, Locks
<1>7. OwnerHasLock'
  BY <1>1, <1>2, LockFacts DEF Probe, GateInv, InsideInv, OwnerHasLock, Owning, Inside,
     Alive, Goto, OwnerTypeOK
<1> QED
  BY <1>1, <1>3, <1>4, <1>5, <1>6, <1>7

\* The lock of a dead owner is nobody's.
LEMMA UnlinkIInv == ASSUME OwnerIInv, NEW a \in Starts, Unlink(a) PROVE OwnerIInv'
<1> USE DEF OwnerIInv
<1>1. OwnerTypeOK'
  <2>1. pc' \in [Starts -> States]
    BY GotoFacts DEF Unlink, Inside, Owning, States
  <2>2. pid' \in [Starts -> Pids] /\ seen' \in [Starts -> Starts] /\ gate' \in BOOLEAN
    BY LockFacts DEF Unlink, OwnerTypeOK, Locks
  <2>3. lock' \in Locks
    BY LockFacts DEF Unlink, OwnerTypeOK, Locks
  <2> QED
    BY <2>1, <2>2, <2>3 DEF OwnerTypeOK, Locks
<1>2. \A b \in Starts : b # a => pc'[b] = pc[b] /\ seen'[b] = seen[b]
  BY DEF Unlink, OwnerTypeOK, Goto
<1>3. GateInv'
  BY <1>1, <1>2 DEF Unlink, GateInv, Goto, Inside, OwnerTypeOK
<1>4. InsideInv'
  BY <1>1, <1>2, LockFacts DEF Unlink, GateInv, InsideInv, Goto, Inside, Alive, OwnerTypeOK,
     NewInv, SeenInv, Locks
<1>5. NewInv'
  BY <1>1, <1>2, LockFacts DEF Unlink, NewInv, Goto, OwnerTypeOK
<1>6. SeenInv'
  BY <1>1, <1>2, LockFacts DEF Unlink, SeenInv, NewInv, Goto, OwnerTypeOK, Locks
<1>7. OwnerHasLock'
  BY <1>1, <1>2, LockFacts DEF Unlink, GateInv, InsideInv, OwnerHasLock, Owning, Inside,
     Alive, Goto, OwnerTypeOK
<1> QED
  BY <1>1, <1>3, <1>4, <1>5, <1>6, <1>7

\* A lock is created only where there is none.
LEMMA CreateIInv == ASSUME OwnerIInv, NEW a \in Starts, Create(a) PROVE OwnerIInv'
<1> USE DEF OwnerIInv
<1>1. OwnerTypeOK'
  <2>1. pc' \in [Starts -> States]
    BY GotoFacts DEF Create, Inside, Owning, States
  <2>2. pid' \in [Starts -> Pids] /\ seen' \in [Starts -> Starts] /\ gate' \in BOOLEAN
    BY LockFacts DEF Create, OwnerTypeOK, Locks
  <2>3. lock' \in Locks
    BY LockFacts DEF Create, OwnerTypeOK, Locks
  <2> QED
    BY <2>1, <2>2, <2>3 DEF OwnerTypeOK, Locks
<1>2. \A b \in Starts : b # a => pc'[b] = pc[b] /\ seen'[b] = seen[b]
  BY DEF Create, OwnerTypeOK, Goto
<1>3. GateInv'
  BY <1>1, <1>2 DEF Create, GateInv, Goto, Inside, OwnerTypeOK
<1>4. InsideInv'
  BY <1>1, <1>2, LockFacts DEF Create, GateInv, InsideInv, Goto, Inside, Alive, OwnerTypeOK,
     NewInv, SeenInv, Locks
<1>5. NewInv'
  BY <1>1, <1>2, LockFacts DEF Create, NewInv, Goto, OwnerTypeOK
<1>6. SeenInv'
  BY <1>1, <1>2, LockFacts DEF Create, SeenInv, NewInv, Goto, OwnerTypeOK, Locks
<1>7. OwnerHasLock'
  BY <1>1, <1>2, LockFacts DEF Create, GateInv, InsideInv, OwnerHasLock, Owning, Inside,
     Alive, Goto, OwnerTypeOK
<1> QED
  BY <1>1, <1>3, <1>4, <1>5, <1>6, <1>7

\* The lock is still the one that was created.
LEMMA WriteOwnerIInv == ASSUME OwnerIInv, NEW a \in Starts, WriteOwner(a) PROVE OwnerIInv'
<1> USE DEF OwnerIInv
<1>1. OwnerTypeOK'
  <2>1. pc' \in [Starts -> States]
    BY GotoFacts DEF WriteOwner, Inside, Owning, States
  <2>2. pid' \in [Starts -> Pids] /\ seen' \in [Starts -> Starts] /\ gate' \in BOOLEAN
    BY LockFacts DEF WriteOwner, OwnerTypeOK, Locks
  <2>3. lock' \in Locks
    BY LockFacts DEF WriteOwner, OwnerTypeOK, Locks
  <2> QED
    BY <2>1, <2>2, <2>3 DEF OwnerTypeOK, Locks
<1>2. \A b \in Starts : b # a => pc'[b] = pc[b] /\ seen'[b] = seen[b]
  BY DEF WriteOwner, OwnerTypeOK, Goto
<1>3. GateInv'
  BY <1>1, <1>2 DEF WriteOwner, GateInv, Goto, Inside, OwnerTypeOK
<1>4. InsideInv'
  BY <1>1, <1>2, LockFacts DEF WriteOwner, GateInv, InsideInv, Goto, Inside, Alive, OwnerTypeOK,
     NewInv, SeenInv, Locks
<1>5. NewInv'
  BY <1>1, <1>2, LockFacts DEF WriteOwner, NewInv, Goto, OwnerTypeOK
<1>6. SeenInv'
  BY <1>1, <1>2, LockFacts DEF WriteOwner, SeenInv, NewInv, Goto, OwnerTypeOK, Locks
<1>7. OwnerHasLock'
  BY <1>1, <1>2, LockFacts DEF WriteOwner, GateInv, InsideInv, OwnerHasLock, Owning, Inside,
     Alive, Goto, OwnerTypeOK
<1> QED
  BY <1>1, <1>3, <1>4, <1>5, <1>6, <1>7

\* The gate opens for the next process.
LEMMA UngateIInv == ASSUME OwnerIInv, NEW a \in Starts, Ungate(a) PROVE OwnerIInv'
<1> USE DEF OwnerIInv
<1>1. OwnerTypeOK'
  <2>1. pc' \in [Starts -> States]
    BY GotoFacts DEF Ungate, Inside, Owning, States
  <2>2. pid' \in [Starts -> Pids] /\ seen' \in [Starts -> Starts] /\ gate' \in BOOLEAN
    BY LockFacts DEF Ungate, OwnerTypeOK, Locks
  <2>3. lock' \in Locks
    BY LockFacts DEF Ungate, OwnerTypeOK, Locks
  <2> QED
    BY <2>1, <2>2, <2>3 DEF OwnerTypeOK, Locks
<1>2. \A b \in Starts : b # a => pc'[b] = pc[b] /\ seen'[b] = seen[b]
  BY DEF Ungate, OwnerTypeOK, Goto
<1>3. GateInv'
  BY <1>1, <1>2 DEF Ungate, GateInv, Goto, Inside, OwnerTypeOK
<1>4. InsideInv'
  BY <1>1, <1>2, LockFacts DEF Ungate, GateInv, InsideInv, Goto, Inside, Alive, OwnerTypeOK,
     NewInv, SeenInv, Locks
<1>5. NewInv'
  BY <1>1, <1>2, LockFacts DEF Ungate, NewInv, Goto, OwnerTypeOK
<1>6. SeenInv'
  BY <1>1, <1>2, LockFacts DEF Ungate, SeenInv, NewInv, Goto, OwnerTypeOK, Locks
<1>7. OwnerHasLock'
  BY <1>1, <1>2, LockFacts DEF Ungate, GateInv, InsideInv, OwnerHasLock, Owning, Inside,
     Alive, Goto, OwnerTypeOK
<1> QED
  BY <1>1, <1>3, <1>4, <1>5, <1>6, <1>7

\* The owner finds itself in the lock.
LEMMA ReleaseIInv == ASSUME OwnerIInv, NEW a \in Starts, Release(a) PROVE OwnerIInv'
<1> USE DEF OwnerIInv
<1>1. OwnerTypeOK'
  <2>1. pc' \in [Starts -> States]
    BY GotoFacts DEF Release, Inside, Owning, States
  <2>2. pid' \in [Starts -> Pids] /\ seen' \in [Starts -> Starts] /\ gate' \in BOOLEAN
    BY LockFacts DEF Release, OwnerTypeOK, Locks
  <2>3. lock' \in Locks
    BY LockFacts DEF Release, OwnerTypeOK, Locks
  <2> QED
    BY <2>1, <2>2, <2>3 DEF OwnerTypeOK, Locks
<1>2. \A b \in Starts : b # a => pc'[b] = pc[b] /\ seen'[b] = seen[b]
  BY DEF Release, OwnerTypeOK, Goto
<1>3. GateInv'
  BY <1>1, <1>2 DEF Release, GateInv, Goto, Inside, OwnerTypeOK
<1>4. InsideInv'
  BY <1>1, <1>2, LockFacts DEF Release, GateInv, InsideInv, Goto, Inside, Alive, OwnerTypeOK,
     NewInv, SeenInv, Locks
<1>5. NewInv'
  BY <1>1, <1>2, LockFacts DEF Release, NewInv, Goto, OwnerTypeOK
<1>6. SeenInv'
  BY <1>1, <1>2, LockFacts DEF Release, SeenInv, NewInv, Goto, OwnerTypeOK, Locks
<1>7. OwnerHasLock'
  BY <1>1, <1>2, LockFacts DEF Release, GateInv, InsideInv, OwnerHasLock, Owning, Inside,
     Alive, Goto, OwnerTypeOK
<1> QED
  BY <1>1, <1>3, <1>4, <1>5, <1>6, <1>7

\* The owner removes its own lock.
LEMMA UnlockIInv == ASSUME OwnerIInv, NEW a \in Starts, Unlock(a) PROVE OwnerIInv'
<1> USE DEF OwnerIInv
<1>1. OwnerTypeOK'
  <2>1. pc' \in [Starts -> States]
    BY GotoFacts DEF Unlock, Inside, Owning, States
  <2>2. pid' \in [Starts -> Pids] /\ seen' \in [Starts -> Starts] /\ gate' \in BOOLEAN
    BY LockFacts DEF Unlock, OwnerTypeOK, Locks
  <2>3. lock' \in Locks
    BY LockFacts DEF Unlock, OwnerTypeOK, Locks
  <2> QED
    BY <2>1, <2>2, <2>3 DEF OwnerTypeOK, Locks
<1>2. \A b \in Starts : b # a => pc'[b] = pc[b] /\ seen'[b] = seen[b]
  BY DEF Unlock, OwnerTypeOK, Goto
<1>3. GateInv'
  BY <1>1, <1>2 DEF Unlock, GateInv, Goto, Inside, OwnerTypeOK
<1>4. InsideInv'
  BY <1>1, <1>2, LockFacts DEF Unlock, InsideInv, OwnerHasLock, Owning, Goto, Alive,
     OwnerTypeOK
<1>5. NewInv'
  BY <1>1, <1>2, LockFacts DEF Unlock, NewInv, Goto, OwnerTypeOK
<1>6. SeenInv'
  BY <1>1, <1>2, LockFacts DEF Unlock, SeenInv, NewInv, Goto, OwnerTypeOK, Locks
<1>7. OwnerHasLock'
  BY <1>1, <1>2, LockFacts DEF Unlock, GateInv, InsideInv, OwnerHasLock, Owning, Inside,
     Alive, Goto, OwnerTypeOK
<1> QED
  BY <1>1, <1>3, <1>4, <1>5, <1>6, <1>7

\* A process that dies keeps nobody from anything but the gate.
LEMMA DieIInv == ASSUME OwnerIInv, NEW a \in Starts, Die(a) PROVE OwnerIInv'
<1> USE DEF OwnerIInv
<1>1. OwnerTypeOK'
  <2>1. pc' \in [Starts -> States]
    BY GotoFacts DEF Die, Inside, Owning, States
  <2>2. pid' \in [Starts -> Pids] /\ seen' \in [Starts -> Starts] /\ gate' \in BOOLEAN
    BY LockFacts DEF Die, OwnerTypeOK, Locks
  <2>3. lock' \in Locks
    BY LockFacts DEF Die, OwnerTypeOK, Locks
  <2> QED
    BY <2>1, <2>2, <2>3 DEF OwnerTypeOK, Locks
<1>2. \A b \in Starts : b # a => pc'[b] = pc[b] /\ seen'[b] = seen[b]
  BY DEF Die, OwnerTypeOK, Goto
<1>3. GateInv'
  BY <1>1, <1>2 DEF Die, GateInv, Goto, Inside, OwnerTypeOK
<1>4. InsideInv'
  BY <1>1, <1>2, LockFacts DEF Die, GateInv, InsideInv, Goto, Inside, Alive, OwnerTypeOK,
     NewInv, SeenInv, Locks
<1>5. NewInv'
  BY <1>1, <1>2, LockFacts DEF Die, NewInv, Goto, OwnerTypeOK
<1>6. SeenInv'
  BY <1>1, <1>2, LockFacts DEF Die, SeenInv, NewInv, Goto, OwnerTypeOK, Locks
<1>7. OwnerHasLock'
  BY <1>1, <1>2, LockFacts DEF Die, GateInv, InsideInv, OwnerHasLock, Owning, Inside,
     Alive, Goto, OwnerTypeOK
<1> QED
  BY <1>1, <1>3, <1>4, <1>5, <1>6, <1>7

\* Every step of a process keeps the invariant.
LEMMA StepIInv == ASSUME OwnerIInv, NEW a \in Starts, Step(a) PROVE OwnerIInv'
BY StartIInv, OpenGateIInv, CheckIInv, ReadIInv, ProbeIInv, UnlinkIInv,
   CreateIInv, WriteOwnerIInv, UngateIInv, ReleaseIInv, UnlockIInv, DieIInv DEF Step

\* The invariant holds in every reachable state.
THEOREM OwnerHolds == OwnerSpec => []OwnerIInv
<1>1. OwnerInit => OwnerIInv
  <2> SUFFICES ASSUME OwnerInit PROVE OwnerIInv
    OBVIOUS
  <2>1. OwnerTypeOK
    BY DEF OwnerInit, OwnerTypeOK, States
  <2>2. \A a \in Starts : pc[a] = "new" /\ seen[a] = a /\ lock = NoLock
    BY DEF OwnerInit
  <2>3. GateInv /\ InsideInv /\ SeenInv /\ OwnerHasLock
    BY <2>2 DEF GateInv, InsideInv, SeenInv, OwnerHasLock, Inside, Owning
  <2>4. NewInv
    BY <2>2, LockFacts DEF NewInv
  <2> QED
    BY <2>1, <2>3, <2>4 DEF OwnerIInv
<1>2. OwnerIInv /\ [OwnerNext]_ownerVars => OwnerIInv'
  <2>1. ASSUME OwnerIInv, OwnerNext PROVE OwnerIInv'
    BY <2>1, StepIInv DEF OwnerNext
  <2>2. ASSUME OwnerIInv, UNCHANGED ownerVars PROVE OwnerIInv'
    BY <2>2 DEF ownerVars, OwnerIInv, OwnerTypeOK, GateInv, InsideInv, NewInv, SeenInv, OwnerHasLock, Alive
  <2> QED
    BY <2>1, <2>2
<1> QED
  BY <1>1, <1>2, PTL DEF OwnerSpec

\* The lock names its owner for as long as it has the directory.
THEOREM OwnerAlwaysHasLock == OwnerSpec => []OwnerHasLock
<1>1. OwnerIInv => OwnerHasLock
  BY DEF OwnerIInv
<1> QED
  BY <1>1, OwnerHolds, PTL

\* Never two writers (DataOwner.acquire).
THEOREM NeverTwoWriters == OwnerSpec => []OneWriter
<1>1. OwnerIInv => OneWriter
  BY LockFacts DEF OwnerIInv, OwnerHasLock, OneWriter
<1> QED
  BY <1>1, OwnerHolds, PTL

-----------------------------------------------------------------------------
(* The database file *)

USE DatabaseFileAssumption

\* The snapshots grow inwards, and the outermost one is what the file holds
\* until the rename.
Nested ==
  /\ \A i, j \in 1..Depth : i <= j => frames[i] \subseteq frames[j]
  /\ \A i \in 1..Depth : frames[i] \subseteq memory
  /\ Depth > 0 /\ saving # "renamed" => file = frames[1]
  /\ saving = "renamed" => file = memory
  /\ saving # "no" => Depth = 1
  /\ ~opened => Depth = 0 /\ saving = "no" /\ memory = {}

FileIInv == TypeOK /\ Nested /\ FailureLeavesNoTrace /\ ReturnedIsDurable /\ MemoryIsFile

\* What is left of the transactions when the innermost one ends.
LEMMA FrontFacts ==
  ASSUME NEW s \in Seq(SUBSET Writes), Len(s) > 0
  PROVE  /\ Front(s) \in Seq(SUBSET Writes)
         /\ Len(Front(s)) = Len(s) - 1
         /\ \A i \in 1..(Len(s) - 1) : Front(s)[i] = s[i]
<1>1. Len(s) - 1 \in Nat /\ \A i \in 1..(Len(s) - 1) : s[i] \in SUBSET Writes
  <2>1. Len(s) \in Nat /\ \A i \in 1..Len(s) : s[i] \in SUBSET Writes
    OBVIOUS
  <2> QED
    BY <2>1
<1> QED
  BY <1>1 DEF Front

\* What Begin adds to the transactions.
LEMMA AppendFacts ==
  ASSUME NEW s \in Seq(SUBSET Writes), NEW x \in SUBSET Writes
  PROVE  /\ Append(s, x) \in Seq(SUBSET Writes)
         /\ Len(Append(s, x)) = Len(s) + 1
         /\ \A i \in 1..Len(s) : Append(s, x)[i] = s[i]
         /\ Append(s, x)[Len(s) + 1] = x
<1> QED
  OBVIOUS

\* Rolling the innermost transaction back keeps the invariant.
LEMMA RollbackKeeps ==
  ASSUME FileIInv, opened, Depth > 0, saving # "renamed", Rollback, saving' = "no"
  PROVE  FileIInv'
<1>1. /\ frames \in Seq(SUBSET Writes) /\ Depth \in Nat
      /\ \A i \in 1..Depth : frames[i] \in SUBSET Writes
  BY DEF FileIInv, TypeOK, Depth
<1>2. /\ frames' \in Seq(SUBSET Writes)
      /\ Depth' = Depth - 1
      /\ \A i \in 1..(Depth - 1) : frames'[i] = frames[i]
  BY <1>1, FrontFacts DEF Rollback, Depth
<1>3. /\ memory' = frames[Depth] /\ file' = file /\ opened' = opened /\ done' = done
      /\ crashes' = crashes /\ undone' = undone \cup (memory \ frames[Depth])
      /\ Depth \in 1..Depth
  BY <1>1 DEF Rollback
<1>4. /\ \A i, j \in 1..Depth : i <= j => frames[i] \subseteq frames[j]
      /\ file = frames[1] /\ 1 \in 1..Depth
      /\ frames[Depth] \subseteq memory
  BY <1>1, <1>3 DEF FileIInv, Nested
<1>5. TypeOK'
  <2>1. memory \in SUBSET Writes /\ undone \in SUBSET Writes
    BY DEF FileIInv, TypeOK
  <2> QED
    BY <1>1, <1>2, <1>3, <2>1 DEF FileIInv, TypeOK, Steps, Depth
<1>6. Nested'
  BY <1>1, <1>2, <1>3, <1>4 DEF Nested
<1>7. FailureLeavesNoTrace'
  <2>1. /\ undone \cap frames[Depth] = {} /\ undone \cap frames[1] = {}
        /\ \A i \in 1..Depth : undone \cap frames[i] = {}
    BY <1>3, <1>4 DEF FileIInv, FailureLeavesNoTrace
  <2>2. \A i \in 1..Depth : frames[i] \subseteq frames[Depth]
    BY <1>1, <1>4, <1>3
  <2>3. \A i \in 1..Depth : undone' \cap frames[i] = {}
    BY <2>1, <2>2, <1>3
  <2> QED
    BY <2>3, <1>1, <1>2, <1>3, <1>4 DEF FailureLeavesNoTrace
<1>8. ReturnedIsDurable' /\ MemoryIsFile'
  BY <1>1, <1>2, <1>3, <1>4 DEF FileIInv, ReturnedIsDurable, MemoryIsFile
<1> QED
  BY <1>5, <1>6, <1>7, <1>8 DEF FileIInv

\* Ending a transaction whose work stands keeps the invariant.
LEMMA ReturnStep == FileIInv /\ Return => FileIInv'
<1> SUFFICES ASSUME FileIInv, Return PROVE FileIInv'
  OBVIOUS
<1>1. frames \in Seq(SUBSET Writes) /\ Depth \in Nat /\ Depth > 1
  BY DEF FileIInv, TypeOK, Depth, Return
<1>2. /\ frames' \in Seq(SUBSET Writes)
      /\ Depth' = Depth - 1
      /\ \A i \in 1..(Depth - 1) : frames'[i] = frames[i]
  BY <1>1, FrontFacts DEF Return, Depth
<1> QED
  BY <1>1, <1>2 DEF FileIInv, TypeOK, Nested, FailureLeavesNoTrace, ReturnedIsDurable,
     MemoryIsFile, Return, Working

\* Saving is over: what was written is on disk.
LEMMA SavedStep == FileIInv /\ Saved => FileIInv'
<1> SUFFICES ASSUME FileIInv, Saved PROVE FileIInv'
  OBVIOUS
<1>1. frames \in Seq(SUBSET Writes) /\ Depth = 1 /\ file = memory
  BY DEF FileIInv, TypeOK, Nested, Saved
<1>2. frames' \in Seq(SUBSET Writes) /\ Depth' = 0
  <2>1. frames' = Front(frames) /\ Depth' = Len(frames')
    BY DEF Saved, Depth
  <2>2. Len(frames) = 1
    BY <1>1 DEF Depth
  <2>3. Front(frames) \in Seq(SUBSET Writes) /\ Len(Front(frames)) = 1 - 1
    BY <1>1, <2>2, FrontFacts
  <2> QED
    BY <2>1, <2>3
<1>3. done' \subseteq file'
  BY <1>1 DEF FileIInv, ReturnedIsDurable, Saved
<1> QED
  BY <1>1, <1>2, <1>3 DEF FileIInv, TypeOK, Nested, FailureLeavesNoTrace, ReturnedIsDurable,
     MemoryIsFile, Saved, Steps

\* Entering a transaction keeps the invariant.
LEMMA BeginStep == FileIInv /\ Begin => FileIInv'
<1> SUFFICES ASSUME FileIInv, Begin PROVE FileIInv'
  OBVIOUS
<1>1. /\ frames \in Seq(SUBSET Writes) /\ Depth \in Nat /\ memory \in SUBSET Writes
      /\ memory' = memory /\ file' = file /\ undone' = undone /\ saving = "no" /\ saving' = saving
      /\ done' = done /\ opened' = opened /\ opened /\ crashes' = crashes /\ Depth < MaxDepth
  BY DEF FileIInv, TypeOK, Depth, Begin, Working
<1>2. /\ frames' \in Seq(SUBSET Writes)
      /\ Depth' = Depth + 1
      /\ \A i \in 1..Depth : frames'[i] = frames[i]
      /\ frames'[Depth + 1] = memory
  BY <1>1, AppendFacts DEF Begin, Depth
<1>3. \A i \in 1..Depth : frames[i] \subseteq memory /\ undone \cap frames[i] = {}
  BY DEF FileIInv, Nested, FailureLeavesNoTrace
<1>4. \A i \in 1..Depth' : i \in 1..Depth \/ i = Depth + 1
  BY <1>1, <1>2
<1>5. TypeOK'
  BY <1>1, <1>2 DEF FileIInv, TypeOK
<1>6. \A i, j \in 1..Depth' : i <= j => frames'[i] \subseteq frames'[j]
  <2> SUFFICES ASSUME NEW i \in 1..Depth', NEW j \in 1..Depth', i <= j
               PROVE  frames'[i] \subseteq frames'[j]
    OBVIOUS
  <2>1. CASE j \in 1..Depth
    BY <2>1, <1>1, <1>2, <1>4 DEF FileIInv, Nested
  <2>2. CASE j = Depth + 1
    BY <2>2, <1>2, <1>3, <1>4
  <2> QED
    BY <2>1, <2>2, <1>4
<1>7. Depth' > 0 => file' = frames'[1]
  <2>1. CASE Depth = 0
    BY <2>1, <1>1, <1>2 DEF FileIInv, MemoryIsFile
  <2>2. CASE Depth > 0
    BY <2>2, <1>1, <1>2 DEF FileIInv, Nested
  <2> QED
    BY <2>1, <2>2, <1>1
<1>8. Nested'
  BY <1>1, <1>2, <1>3, <1>4, <1>6, <1>7 DEF Nested
<1>9. FailureLeavesNoTrace'
  BY <1>1, <1>2, <1>3, <1>4 DEF FileIInv, FailureLeavesNoTrace
<1>10. ReturnedIsDurable' /\ MemoryIsFile'
  BY <1>1, <1>2 DEF FileIInv, ReturnedIsDurable, MemoryIsFile
<1> QED
  BY <1>5, <1>8, <1>9, <1>10 DEF FileIInv

\* The invariant is inductive.
LEMMA NextIInv == FileIInv /\ [Next]_vars => FileIInv'
<1> SUFFICES ASSUME FileIInv, [Next]_vars PROVE FileIInv'
  OBVIOUS
<1> USE DEF FileIInv, TypeOK, Nested, FailureLeavesNoTrace, ReturnedIsDurable, MemoryIsFile, Depth
<1>1. CASE Begin
  BY <1>1, BeginStep
<1>2. CASE Throw
  BY <1>2, RollbackKeeps DEF Throw, Working
<1>3. CASE Return
  BY <1>3, ReturnStep
<1>4. CASE Save
  BY <1>4 DEF Save, Working, Steps
<1>5. CASE SaveFails
  BY <1>5, RollbackKeeps DEF SaveFails
<1>6. CASE Rename
  BY <1>6 DEF Rename, Steps
<1>7. CASE Saved
  BY <1>7, SavedStep
<1>8. CASE Crash
  <2>1. frames' = <<>> /\ Depth' = 0 /\ frames' \in Seq(SUBSET Writes)
    <3> HIDE DEF FileIInv, TypeOK, Nested, FailureLeavesNoTrace, ReturnedIsDurable, MemoryIsFile
    <3> QED
      BY <1>8 DEF Crash
  <2>2. TypeOK'
    <3>1. /\ memory' = {} /\ file' = file /\ saving' = "no" /\ opened' = FALSE /\ done' = done
          /\ undone' = undone \cup (memory \ file) /\ crashes < MaxCrashes /\ crashes' = crashes + 1
      <4> HIDE DEF FileIInv, TypeOK, Nested, FailureLeavesNoTrace, ReturnedIsDurable, MemoryIsFile
      <4> QED
        BY <1>8 DEF Crash
    <3>2. /\ crashes' \in 0..MaxCrashes /\ saving' \in Steps /\ opened' \in BOOLEAN
          /\ memory' \subseteq Writes /\ file' \subseteq Writes /\ undone' \subseteq Writes
          /\ done' \subseteq Writes
      <4>1. crashes \in 0..MaxCrashes /\ MaxCrashes \in Nat
        OBVIOUS
      <4>2. crashes' \in 0..MaxCrashes
        BY ONLY <3>1, <4>1
      <4> QED
        BY <3>1, <4>2 DEF Steps
    <3>3. frames' \in Seq(SUBSET Writes) /\ Depth' <= MaxDepth
      BY <2>1
    <3> QED
      BY <3>2, <3>3
  <2>3. Nested' /\ ReturnedIsDurable' /\ MemoryIsFile'
    BY <1>8, <2>1 DEF Crash, Steps
  <2>4. FailureLeavesNoTrace'
    BY <1>8, <2>1 DEF Crash, Steps
  <2> QED
    BY <2>2, <2>3, <2>4
<1>9. CASE Close
  <2>1. /\ file' = memory /\ memory = file /\ frames' = frames /\ Depth = 0 /\ Depth' = 0
        /\ memory' = {} /\ opened' = FALSE /\ saving = "no" /\ saving' = "no"
        /\ done' = done /\ undone' = undone /\ crashes' = crashes
    BY <1>9 DEF Close, Working
  <2>2. TypeOK'
    BY <2>1
  <2>3. Nested' /\ ReturnedIsDurable' /\ MemoryIsFile'
    BY <2>1
  <2>4. FailureLeavesNoTrace'
    BY <2>1
  <2> QED
    BY <2>2, <2>3, <2>4
<1>10. CASE Open
  BY <1>10 DEF Open
<1>11. ASSUME NEW w \in Writes, Write(w) PROVE FileIInv'
  BY <1>11 DEF Write, Working
<1>12. CASE UNCHANGED vars
  BY <1>12 DEF vars
<1> QED
  BY <1>1, <1>2, <1>3, <1>4, <1>5, <1>6, <1>7, <1>8, <1>9, <1>10, <1>11, <1>12 DEF Next

\* The invariant holds in every reachable state.
THEOREM FileHolds == Spec => []FileIInv
<1>1. Init => FileIInv
  BY DEF Init, FileIInv, TypeOK, Nested, FailureLeavesNoTrace, ReturnedIsDurable, MemoryIsFile, Depth, Steps
<1> QED
  BY <1>1, NextIInv, PTL DEF Spec

\* A failed transaction leaves nothing behind (SqliteFile.transaction).
THEOREM FailuresLeaveNoTrace == Spec => []FailureLeavesNoTrace
<1>1. FileIInv => FailureLeavesNoTrace
  BY DEF FileIInv
<1> QED
  BY <1>1, FileHolds, PTL

\* A transaction that returned survives every failure and crash (persist).
THEOREM ReturnedStaysDurable == Spec => []ReturnedIsDurable
<1>1. FileIInv => ReturnedIsDurable
  BY DEF FileIInv
<1> QED
  BY <1>1, FileHolds, PTL

\* Memory and disk agree whenever no transaction is in progress.
THEOREM MemoryStaysFile == Spec => []MemoryIsFile
<1>1. FileIInv => MemoryIsFile
  BY DEF FileIInv
<1> QED
  BY <1>1, FileHolds, PTL

HIDE DatabaseFileAssumption

USE FilesAssumption

-----------------------------------------------------------------------------
(* Claims of a capture *)

\* A claim whose token some instance holds names this process, and a process
\* that does not run holds none.
ClaimInv ==
  /\ Claim!ClaimTypeOK
  /\ Claim!OneHolder
  /\ number = Nothing => \A s \in Instances : token[s] = Nothing

\* Where an instance holds a token, the claim is not free.
LEMMA HeldIsNotFree ==
  ASSUME ClaimInv, NEW s \in Instances, token[s] # Nothing
  PROVE  ~Claim!Free
<1>1. claim = [by |-> token[s], process |-> number] /\ number # Nothing
  BY DEF ClaimInv, Claim!OneHolder
<1>2. token[s] \in Captures /\ number \in Numbers
  BY <1>1 DEF ClaimInv, Claim!ClaimTypeOK
<1>3. claim # Nothing /\ claim # Claim!Blank
  BY <1>1, <1>2 DEF Claim!Blank
<1>4. claim \notin {c \in Claim!Claims : ~Claim!Alive(c.process)}
  BY <1>1 DEF Claim!Alive
<1> QED
  BY <1>3, <1>4 DEF Claim!Free

\* Nobody else has a capture of the source under way.
LEMMA ClaimSteps ==
  ASSUME ClaimInv, Claim!ClaimNext
  PROVE  ClaimInv'
<1> USE DEF Claim!ClaimTypeOK, Claim!Claims, Claim!Blank
<1>1. ASSUME NEW s \in Instances, NEW c \in Captures, Claim!Acquire(s, c)
      PROVE  ClaimInv'
  <2>1. CASE token[s] = Nothing /\ Claim!Free
    <3>1. \A t \in Instances : token[t] = Nothing
      BY <2>1, HeldIsNotFree
    <3>2. /\ claim' = [by |-> c, process |-> number] /\ number # Nothing
          /\ token' = [token EXCEPT ![s] = c] /\ UNCHANGED <<over, number, others>>
      BY <1>1, <2>1 DEF Claim!Acquire
    <3>3. Claim!ClaimTypeOK'
      BY <3>2 DEF ClaimInv
    <3> QED
      BY <3>1, <3>2, <3>3 DEF ClaimInv, Claim!OneHolder
  <2>2. CASE ~(token[s] = Nothing /\ Claim!Free)
    BY <1>1, <2>2 DEF ClaimInv, Claim!Acquire, Claim!OneHolder
  <2> QED
    BY <2>1, <2>2
<1>2. ASSUME NEW s \in Instances, NEW c \in Captures, Claim!AcquireFails(s, c)
      PROVE  ClaimInv'
  <2>1. \A t \in Instances : token[t] = Nothing
    BY <1>2, HeldIsNotFree DEF Claim!AcquireFails
  <2>2. /\ claim' \in {Nothing, [by |-> c, process |-> number]} /\ number # Nothing
        /\ over' = over \cup {c} /\ UNCHANGED <<token, number, others>>
    BY <1>2 DEF Claim!AcquireFails
  <2>3. Claim!ClaimTypeOK'
    BY <2>2 DEF ClaimInv
  <2> QED
    BY <2>1, <2>2, <2>3 DEF ClaimInv, Claim!OneHolder
<1>3. ASSUME NEW s \in Instances, Claim!Release(s)
      PROVE  ClaimInv'
  <2>1. \A t \in Instances : t # s => token[t] = Nothing
    BY <1>3 DEF ClaimInv, Claim!OneHolder, Claim!Release
  <2>2. token' = [token EXCEPT ![s] = Nothing] /\ UNCHANGED <<number, others>>
    BY <1>3 DEF Claim!Release
  <2>3. \A t \in Instances : token'[t] = Nothing
    BY <2>1, <2>2 DEF ClaimInv
  <2>4. claim' \in {claim, Nothing} /\ over' = over \cup {token[s]} /\ token[s] \in Captures
    BY <1>3 DEF Claim!Release, Claim!Removed, ClaimInv
  <2>5. Claim!ClaimTypeOK'
    BY <2>2, <2>4 DEF ClaimInv
  <2> QED
    BY <2>3, <2>5 DEF ClaimInv, Claim!OneHolder
<1>4. ASSUME Claim!Crash
      PROVE  ClaimInv'
  <2>1. \A t \in Instances : token'[t] = Nothing
    BY <1>4 DEF Claim!Crash
  <2>2. Claim!ClaimTypeOK'
    <3>1. number \in Numbers /\ number' = Nothing /\ token' = [t \in Instances |-> Nothing] /\ others' = others
      BY <1>4 DEF Claim!Crash, ClaimInv
    <3>2. claim' \in {Nothing, Claim!Blank} \cup Claim!Claims /\ over' \subseteq Captures
      BY <1>4, <3>1 DEF Claim!Crash, ClaimInv
    <3> QED
      BY <3>1, <3>2 DEF ClaimInv
  <2> QED
    BY <2>1, <2>2 DEF ClaimInv, Claim!OneHolder
<1>5. CASE Claim!Boot
  <2>1. number = Nothing /\ number' \in Numbers \ others /\ UNCHANGED <<claim, token, others, over>>
    BY <1>5 DEF Claim!Boot
  <2>2. \A t \in Instances : token[t] = Nothing
    BY <2>1 DEF ClaimInv
  <2> QED
    BY <2>1, <2>2 DEF ClaimInv, Claim!OneHolder
<1>6. CASE Claim!Elsewhere
  BY <1>6 DEF ClaimInv, Claim!Elsewhere, Claim!OneHolder
<1> QED
  BY <1>1, <1>2, <1>3, <1>4, <1>5, <1>6 DEF Claim!ClaimNext

\* Only the steps of its own part change a claim.
LEMMA ClaimHolds == FilesSpec => []ClaimInv
<1>1. FilesInit => ClaimInv
  BY DEF FilesInit, Claim!ClaimInit, ClaimInv, Claim!ClaimTypeOK, Claim!OneHolder
<1>2. ClaimInv /\ [FilesNext]_<<sides, side>> => ClaimInv'
  <2>1. ASSUME ClaimInv, UNCHANGED claims
        PROVE  ClaimInv'
    BY <2>1 DEF claims, ClaimInv, Claim!ClaimTypeOK, Claim!OneHolder
  <2>2. [FilesNext]_<<sides, side>> => Claim!ClaimNext \/ UNCHANGED claims
    BY DEF FilesNext, sides
  <2> QED
    BY <2>1, <2>2, ClaimSteps
<1> QED
  BY <1>1, <1>2, PTL DEF FilesSpec

\* One capture of a source at a time, whatever instance of the service it runs
\* in and whatever a dead process has left; and the claim is its own.
THEOREM ClaimCorrect == FilesSpec => []OneHolder
<1>1. ClaimInv => OneHolder
  BY DEF ClaimInv, OneHolder
<1> QED
  BY <1>1, ClaimHolds, PTL

-----------------------------------------------------------------------------
(* Import of a configuration *)

\* At each step of applyPendingImport() a crash leaves either a database that
\* fits its key, or both staged files, which the next start copies.
Recoverable ==
  \/ key = database
  \/ pendingDatabase # Nothing /\ pendingKey = pendingDatabase /\ database = pendingDatabase

ImportInv ==
  /\ Import!ImportTypeOK
  /\ staging # Nothing => step = "up"
  /\ step = "key" => pendingKey # Nothing
  /\ ~cut =>
       /\ staging # Nothing => pendingDatabase = staging
       /\ staging = Nothing /\ pendingDatabase # Nothing => pendingKey = pendingDatabase
       /\ step = "up" => key = database
       /\ step = "down" => Recoverable
       /\ step = "key" => pendingDatabase # Nothing /\ database = pendingDatabase
       /\ step = "drop database" => key = database
       /\ step = "drop key" => key = database /\ pendingDatabase = Nothing

\* Each step leaves what the next one, or the next start, goes on from.
LEMMA ImportSteps ==
  ASSUME ImportInv, Import!ImportNext
  PROVE  ImportInv'
<1> USE DEF Import!ImportTypeOK, Import!Origins, Recoverable
<1>1. ASSUME NEW p \in Packages, Import!StageDatabase(p)
      PROVE  ImportInv'
  BY <1>1 DEF Import!StageDatabase, ImportInv
<1>2. CASE Import!StageKey
  BY <1>2 DEF Import!StageKey, ImportInv
<1>3. CASE Import!StageFails
  BY <1>3 DEF Import!StageFails, ImportInv
<1>4. CASE Import!Stop
  BY <1>4 DEF Import!Stop, ImportInv
<1>5. CASE Import!Crash
  <2>1. importCrashes' \in 0 .. MaxImportCrashes
    <3>1. MaxImportCrashes \in Nat
      OBVIOUS
    <3>2. importCrashes \in 0 .. MaxImportCrashes
      BY DEF ImportInv
    <3>3. importCrashes < MaxImportCrashes /\ importCrashes' = importCrashes + 1
      BY <1>5 DEF Import!Crash
    <3> QED
      BY ONLY <3>1, <3>2, <3>3
  <2>2. Import!ImportTypeOK'
    BY <1>5, <2>1 DEF Import!Crash, ImportInv
  <2>3. CASE cut'
    BY <1>5, <2>2, <2>3 DEF Import!Crash, ImportInv
  <2>4. CASE ~cut'
    <3>1. ~cut /\ staging = Nothing /\ step' = "down" /\ staging' = Nothing
      BY <1>5, <2>2, <2>4 DEF Import!Crash, ImportInv
    <3>2. Recoverable /\ UNCHANGED <<database, key, pendingDatabase, pendingKey>> /\ step # "down"
      BY <1>5, <3>1 DEF Import!Crash, ImportInv
    <3> QED
      BY <2>2, <3>1, <3>2 DEF ImportInv
  <2> QED
    BY <2>3, <2>4
<1>6. CASE Import!Boot
  BY <1>6 DEF Import!Boot, ImportInv
<1>7. CASE Import!CopyKey
  BY <1>7 DEF Import!CopyKey, ImportInv
<1>8. CASE Import!DropDatabase
  BY <1>8 DEF Import!DropDatabase, ImportInv
<1>9. CASE Import!DropKey
  BY <1>9 DEF Import!DropKey, ImportInv
<1> QED
  BY <1>1, <1>2, <1>3, <1>4, <1>5, <1>6, <1>7, <1>8, <1>9 DEF Import!ImportNext

\* The service opens a database with the key it was exported with, wherever the
\* process died while it copied, removed or staged once more.
THEOREM KeyCorrect == FilesSpec => []KeyFits
<1>1. FilesInit => ImportInv
  <2>1. 0 \in 0 .. MaxImportCrashes
    OBVIOUS
  <2> QED
    BY <2>1 DEF FilesInit, Import!ImportInit, ImportInv, Import!ImportTypeOK, Import!Origins, Recoverable
<1>2. ImportInv /\ [FilesNext]_<<sides, side>> => ImportInv'
  <2>1. ASSUME ImportInv, UNCHANGED import
        PROVE  ImportInv'
    BY <2>1 DEF import, ImportInv, Import!ImportTypeOK, Recoverable
  <2>2. [FilesNext]_<<sides, side>> => Import!ImportNext \/ UNCHANGED import
    BY DEF FilesNext, sides
  <2> QED
    BY <2>1, <2>2, ImportSteps
<1>3. ImportInv => KeyFits
  BY DEF ImportInv, KeyFits, Import!KeyFits
<1> QED
  BY <1>1, <1>2, <1>3, PTL DEF FilesSpec

-----------------------------------------------------------------------------
(* Scratch databases of a recovery server *)

\* What rehearsal r has created and not dropped.
Left(r) == {n \in Recovery!NamesOf(r) : <<n, "ours">> \in server}

Active(r) == worker[r].stage \notin {"none", "asking"}

\* A name is in the row before it is created, and a rehearsal that goes well
\* knows what it has created.
Proper(r) ==
  /\ Left(r) \subseteq row[r].told
  /\ row[r].status = "passed" => Left(r) = {}
  /\ worker[r].stage = "asking" => row[r].status = "none"
  /\ Active(r) => row[r].status \in {"running", "failed"} /\ worker[r].made \subseteq Recovery!NamesOf(r)
  /\ Active(r) /\ r \notin Artifacts => row[r].told = Recovery!NamesOf(r)
  /\ worker[r].stage \in {"none", "asking", "preparing"} => worker[r].made = {}
  /\ worker[r].stage \in {"none", "asking", "preparing", "creating"} => ~worker[r].failed /\ ~worker[r].warned
  /\ worker[r].stage = "creating" =>
       /\ worker[r].made # Recovery!NamesOf(r)
       /\ Recovery!FirstOf(Recovery!NamesOf(r) \ worker[r].made) \in row[r].told
  /\ worker[r].stage \in {"creating", "restoring", "cleaning"} /\ ~worker[r].failed /\ ~worker[r].warned =>
       Left(r) \subseteq worker[r].made

RehearsalInv ==
  /\ Recovery!RehearsalTypeOK
  /\ \A r \in Recovery!Rehearsals : Proper(r)
  /\ service = "down" => \A r \in Recovery!Rehearsals : worker[r].stage = "none"

\* A non-empty set of numbers has a least one.
LEMMA LeastNumber ==
  ASSUME NEW T, T \subseteq Nat, T # {}
  PROVE  \E n \in T : \A k \in T : n <= k
<1>1. \E n \in T : \A k \in T : <<k, n>> \notin OpToRel(<, Nat)
  BY ONLY WFMin, NatLessThanWellFounded, T \subseteq Nat, T # {}, Zenon
<1>2. \A k, n \in Nat : k < n => <<k, n>> \in OpToRel(<, Nat)
  BY DEF OpToRel
<1>3. PICK n \in T : \A k \in T : <<k, n>> \notin OpToRel(<, Nat)
  BY <1>1
<1>4. ASSUME NEW k \in T
      PROVE  n <= k
  <2>1. k \in Nat /\ n \in Nat
    OBVIOUS
  <2>2. ~(k < n)
    BY <1>2, <1>3, <2>1
  <2> QED
    BY <2>1, <2>2
<1> QED
  BY <1>4

\* The names of a rehearsal are its own.
LEMMA NamesAreOwn ==
  /\ \A r \in Recovery!Rehearsals : \A n \in Recovery!NamesOf(r) : n[1] = r /\ n[2] \in Nat
  /\ \A r \in Recovery!Rehearsals : Recovery!NamesOf(r) \subseteq Recovery!Names /\ Recovery!NamesOf(r) # {}
<1>1. ASSUME NEW r \in Recovery!Rehearsals
      PROVE  /\ \A n \in Recovery!NamesOf(r) : n[1] = r /\ n[2] \in Nat
             /\ Recovery!NamesOf(r) \subseteq Recovery!Names /\ Recovery!NamesOf(r) # {}
  <2> DEFINE k == IF r \in Tests THEN 1 ELSE Parts
  <2>1. k \in Nat /\ k >= 1
    OBVIOUS
  <2>2. Recovery!NamesOf(r) = {r} \X (1 .. k)
    BY DEF Recovery!NamesOf
  <2> HIDE DEF k
  <2>3. <<r, 1>> \in Recovery!NamesOf(r) /\ \A n \in Recovery!NamesOf(r) : n[1] = r /\ n[2] \in Nat
    BY <2>1, <2>2
  <2>4. Recovery!NamesOf(r) \subseteq Recovery!Names
    BY DEF Recovery!Names
  <2> QED
    BY <2>3, <2>4
<1> QED
  BY <1>1

\* There is a first name.
LEMMA FirstIsMember ==
  ASSUME NEW r \in Recovery!Rehearsals, NEW names, names \subseteq Recovery!NamesOf(r), names # {}
  PROVE  Recovery!FirstOf(names) \in names
<1> DEFINE T == {n[2] : n \in names}
<1>1. T \subseteq Nat /\ T # {}
  BY NamesAreOwn
<1>2. PICK k \in T : \A l \in T : k <= l
  <2> HIDE DEF T
  <2> QED
    BY <1>1, LeastNumber
<1>3. \E n \in names : \A m \in names : n[2] <= m[2]
  BY <1>2
<1> QED
  BY <1>3 DEF Recovery!FirstOf

\* Others do not change what a rehearsal has left.
LEMMA OthersLeft ==
  ASSUME NEW r \in Recovery!Rehearsals, NEW q \in Recovery!Rehearsals, q # r, NEW n \in Recovery!NamesOf(r),
         server' = server \cup {<<n, "ours">>} \/ server' = server \ {<<n, who>> : who \in {"ours", "theirs"}} \/ server' = server
  PROVE  Left(q)' = Left(q)
<1>1. n \notin Recovery!NamesOf(q)
  BY NamesAreOwn
<1>2. \A m \in Recovery!NamesOf(q) : <<m, "ours">> \in server' <=> <<m, "ours">> \in server
  BY <1>1
<1> QED
  BY <1>2 DEF Left

\* A rehearsal whose row, worker and databases stay is as it was.
LEMMA UntouchedProper ==
  ASSUME NEW q, Proper(q), row'[q] = row[q], worker'[q] = worker[q], Left(q)' = Left(q)
  PROVE  Proper(q)'
BY DEF Proper, Active

Rows == [status : {"none", "running", "passed", "warning", "failed", "interrupted"}, told : SUBSET Recovery!Names]

Workers == [stage : {"none", "asking", "preparing", "creating", "restoring", "cleaning"},
            made : SUBSET Recovery!Names, failed : BOOLEAN, warned : BOOLEAN]

\* A step of one rehearsal, which changes its row, its worker and its databases.
LEMMA OneStep ==
  ASSUME RehearsalInv, NEW r \in Recovery!Rehearsals, NEW a \in Rows, NEW b \in Workers,
         row' = [row EXCEPT ![r] = a], worker' = [worker EXCEPT ![r] = b],
         NEW n \in Recovery!NamesOf(r),
         server' = server \cup {<<n, "ours">>} \/ server' = server \ {<<n, who>> : who \in {"ours", "theirs"}} \/ server' = server,
         service' = service, stops' = stops, service # "down",
         row'[r] = a /\ worker'[r] = b => Proper(r)'
  PROVE  RehearsalInv'
<1>1. row \in [Recovery!Rehearsals -> Rows] /\ worker \in [Recovery!Rehearsals -> Workers]
  BY DEF RehearsalInv, Recovery!RehearsalTypeOK, Rows, Workers
<1>2. row' \in [Recovery!Rehearsals -> Rows] /\ worker' \in [Recovery!Rehearsals -> Workers]
  BY <1>1
<1>3. server' \subseteq Recovery!Names \X {"ours", "theirs"}
  <2>1. n \in Recovery!Names
    BY NamesAreOwn
  <2> QED
    BY <2>1 DEF RehearsalInv, Recovery!RehearsalTypeOK
<1>4. Recovery!RehearsalTypeOK'
  BY <1>2, <1>3 DEF RehearsalInv, Recovery!RehearsalTypeOK, Rows, Workers
<1>5. Proper(r)'
  BY <1>1
<1>6. ASSUME NEW q \in Recovery!Rehearsals, q # r
      PROVE  Proper(q)'
  <2>1. row'[q] = row[q] /\ worker'[q] = worker[q]
    BY <1>1, <1>6
  <2>2. Left(q)' = Left(q)
    BY <1>6, OthersLeft
  <2> QED
    BY <2>1, <2>2, UntouchedProper DEF RehearsalInv
<1> QED
  BY <1>4, <1>5, <1>6 DEF RehearsalInv

\* What is known of a rehearsal that is at work.
LEMMA AtWorkFacts ==
  ASSUME RehearsalInv, NEW r \in Recovery!Rehearsals
  PROVE  /\ row[r] \in Rows /\ worker[r] \in Workers /\ Proper(r)
         /\ worker[r].stage # "none" => service # "down"
         /\ \E n \in Recovery!NamesOf(r) : TRUE
<1>1. row[r] \in Rows /\ worker[r] \in Workers
  BY DEF RehearsalInv, Recovery!RehearsalTypeOK, Rows, Workers
<1>2. Proper(r) /\ (worker[r].stage # "none" => service # "down")
  BY DEF RehearsalInv
<1> QED
  BY <1>1, <1>2, NamesAreOwn

\* Rehearsals begin, and a test is given up.
LEMMA BeginSteps ==
  ASSUME RehearsalInv, NEW r \in Recovery!Rehearsals,
         \/ r \in Tests /\ (Recovery!AskTest(r) \/ Recovery!InsertTest(r) \/ Recovery!GiveUp(r))
         \/ r \in Artifacts /\ Recovery!StartArtifact(r)
         \/ r \in Pitrs /\ Recovery!StartPitr(r)
  PROVE  RehearsalInv'
<1>1. /\ row[r] \in Rows /\ worker[r] \in Workers /\ Proper(r)
      /\ worker[r].stage # "none" => service # "down"
  BY AtWorkFacts
<1>2. PICK n \in Recovery!NamesOf(r) : TRUE
  BY AtWorkFacts
<1>3. row \in [Recovery!Rehearsals -> Rows] /\ worker \in [Recovery!Rehearsals -> Workers]
  BY DEF RehearsalInv, Recovery!RehearsalTypeOK, Rows, Workers
<1>4. Recovery!NamesOf(r) \subseteq Recovery!Names
  BY NamesAreOwn
<1>5. CASE r \in Tests /\ Recovery!AskTest(r)
  <2> DEFINE b == [worker[r] EXCEPT !.stage = "asking"]
  <2>1. b \in Workers /\ b.stage = "asking" /\ b.made = worker[r].made /\ b.failed = worker[r].failed /\ b.warned = worker[r].warned
    BY <1>1 DEF Workers
  <2>2. /\ service # "down" /\ worker[r].stage = "none" /\ row[r].status = "none"
        /\ worker' = [worker EXCEPT ![r] = b] /\ row' = row /\ server' = server /\ service' = service /\ stops' = stops
    BY <1>5 DEF Recovery!AskTest, Recovery!Goes
  <2>3. row' = [row EXCEPT ![r] = row[r]]
    BY <1>3, <2>2
  <2> HIDE DEF b
  <2>4. worker'[r] = b => Proper(r)'
    BY <1>1, <2>1, <2>2 DEF Proper, Active, Left
  <2>5. row[r] \in Rows /\ b \in Workers
    BY <1>1, <2>1
  <2> QED
    BY <1>2, <2>2, <2>3, <2>4, <2>5, OneStep
<1>6. CASE r \in Tests /\ Recovery!InsertTest(r)
  <2>1. worker[r].stage = "asking" /\ service # "down" /\ row[r].status = "none" /\ UNCHANGED <<server, service, stops>>
    BY <1>1, <1>6 DEF Recovery!InsertTest, Proper
  <2>2. CASE row' = [row EXCEPT ![r] = [status |-> "running", told |-> Recovery!NamesOf(r)]] /\ Recovery!Goes(r, "preparing")
    <3> DEFINE a == [status |-> "running", told |-> Recovery!NamesOf(r)]
               b == [worker[r] EXCEPT !.stage = "preparing"]
    <3>1. a \in Rows /\ a.status = "running" /\ a.told = Recovery!NamesOf(r)
      BY <1>4 DEF Rows
    <3>2. b \in Workers /\ b.stage = "preparing" /\ b.made = worker[r].made /\ b.failed = worker[r].failed /\ b.warned = worker[r].warned
      BY <1>1 DEF Workers
    <3>3. worker' = [worker EXCEPT ![r] = b] /\ row' = [row EXCEPT ![r] = a]
      BY <2>2 DEF Recovery!Goes
    <3> HIDE DEF a, b
    <3>4. row'[r] = a /\ worker'[r] = b => Proper(r)'
      BY <1>1, <2>1, <3>1, <3>2 DEF Proper, Active, Left
    <3> QED
      BY <1>2, <2>1, <3>1, <3>2, <3>3, <3>4, OneStep
  <2>3. CASE Recovery!Goes(r, "none") /\ row' = row
    <3> DEFINE b == [worker[r] EXCEPT !.stage = "none"]
    <3>1. b \in Workers /\ b.stage = "none" /\ b.made = worker[r].made /\ b.failed = worker[r].failed /\ b.warned = worker[r].warned
      BY <1>1 DEF Workers
    <3>2. worker' = [worker EXCEPT ![r] = b] /\ row' = [row EXCEPT ![r] = row[r]]
      BY <1>3, <2>3 DEF Recovery!Goes
    <3> HIDE DEF b
    <3>3. row'[r] = row[r] /\ worker'[r] = b => Proper(r)'
      BY <1>1, <2>1, <3>1 DEF Proper, Active, Left
    <3> QED
      BY <1>1, <1>2, <2>1, <3>1, <3>2, <3>3, OneStep
  <2> QED
    BY <1>6, <2>2, <2>3 DEF Recovery!InsertTest
<1>7. CASE r \in Tests /\ Recovery!GiveUp(r)
  <2> DEFINE a == [row[r] EXCEPT !.status = "failed"]
  <2>1. a \in Rows /\ a.status = "failed" /\ a.told = row[r].told
    BY <1>1 DEF Rows
  <2>2. /\ service # "down" /\ row[r].status = "running" /\ row' = [row EXCEPT ![r] = a] /\ UNCHANGED <<worker, server, service, stops>>
    BY <1>7 DEF Recovery!GiveUp, Recovery!Running
  <2>3. worker' = [worker EXCEPT ![r] = worker[r]]
    BY <1>3, <2>2
  <2> HIDE DEF a
  <2>4. row'[r] = a => Proper(r)'
    BY <1>1, <2>1, <2>2 DEF Proper, Active, Left
  <2> QED
    BY <1>1, <1>2, <2>1, <2>2, <2>3, <2>4, OneStep
<1>8. CASE r \in Artifacts /\ Recovery!StartArtifact(r)
  <2> DEFINE a == [row[r] EXCEPT !.status = "running"]
             b == [worker[r] EXCEPT !.stage = "preparing"]
  <2>1. a \in Rows /\ a.status = "running" /\ a.told = row[r].told
    BY <1>1 DEF Rows
  <2>2. b \in Workers /\ b.stage = "preparing" /\ b.made = worker[r].made /\ b.failed = worker[r].failed /\ b.warned = worker[r].warned
    BY <1>1 DEF Workers
  <2>3. /\ service # "down" /\ row[r].status = "none" /\ row' = [row EXCEPT ![r] = a] /\ worker' = [worker EXCEPT ![r] = b]
        /\ UNCHANGED <<server, service, stops>>
    BY <1>8 DEF Recovery!StartArtifact, Recovery!Goes
  <2>4. worker[r].stage \in {"none", "asking"}
    BY <1>1, <2>3 DEF Proper, Active
  <2> HIDE DEF a, b
  <2>5. row'[r] = a /\ worker'[r] = b => Proper(r)'
    BY <1>1, <1>8, <2>1, <2>2, <2>3, <2>4 DEF Proper, Active, Left
  <2> QED
    BY <1>2, <2>1, <2>2, <2>3, <2>5, OneStep
<1>9. CASE r \in Pitrs /\ Recovery!StartPitr(r)
  <2> DEFINE a == [status |-> "running", told |-> Recovery!NamesOf(r)]
             b == [worker[r] EXCEPT !.stage = "preparing"]
  <2>1. a \in Rows /\ a.status = "running" /\ a.told = Recovery!NamesOf(r)
    BY <1>4 DEF Rows
  <2>2. b \in Workers /\ b.stage = "preparing" /\ b.made = worker[r].made /\ b.failed = worker[r].failed /\ b.warned = worker[r].warned
    BY <1>1 DEF Workers
  <2>3. /\ service # "down" /\ row[r].status = "none" /\ row' = [row EXCEPT ![r] = a] /\ worker' = [worker EXCEPT ![r] = b]
        /\ UNCHANGED <<server, service, stops>>
    BY <1>9 DEF Recovery!StartPitr, Recovery!Goes
  <2>4. worker[r].stage \in {"none", "asking"}
    BY <1>1, <2>3 DEF Proper, Active
  <2> HIDE DEF a, b
  <2>5. row'[r] = a /\ worker'[r] = b => Proper(r)'
    BY <1>1, <2>1, <2>2, <2>3, <2>4 DEF Proper, Active, Left
  <2> QED
    BY <1>2, <2>1, <2>2, <2>3, <2>5, OneStep
<1> QED
  BY <1>5, <1>6, <1>7, <1>8, <1>9

\* A worker that fails goes on to clean up.
LEMMA FailingWorker ==
  ASSUME RehearsalInv, NEW r \in Recovery!Rehearsals, Active(r),
         NEW b, b = [worker[r] EXCEPT !.stage = "cleaning", !.failed = TRUE]
  PROVE  /\ b \in Workers /\ b.stage = "cleaning" /\ b.failed /\ b.made = worker[r].made
         /\ Recovery!Fails(r) => worker' = [worker EXCEPT ![r] = b]
         /\ row'[r] = row[r] /\ worker'[r] = b /\ Left(r)' \subseteq row[r].told => Proper(r)'
<1>1. row[r] \in Rows /\ worker[r] \in Workers /\ Proper(r)
  BY AtWorkFacts
<1>2. b \in Workers /\ b.stage = "cleaning" /\ b.failed /\ b.made = worker[r].made
  BY <1>1 DEF Workers
<1>3. Recovery!Fails(r) => worker' = [worker EXCEPT ![r] = b]
  BY DEF Recovery!Fails
<1>4. row'[r] = row[r] /\ worker'[r] = b /\ Left(r)' \subseteq row[r].told => Proper(r)'
  BY <1>1, <1>2 DEF Proper, Active
<1> QED
  BY <1>2, <1>3, <1>4

\* The row tells of the next name before the worker goes on to create it.
LEMMA CreateTells ==
  ASSUME RehearsalInv, NEW r \in Recovery!Rehearsals, worker[r].stage \in {"preparing", "creating"}, ~worker[r].failed, ~worker[r].warned,
         NEW made, made \subseteq Recovery!NamesOf(r), Recovery!Create(r, made),
         NEW n \in Recovery!NamesOf(r), server' = server \cup {<<n, "ours">>} \/ server' = server,
         Left(r)' \subseteq made, Left(r)' \subseteq row[r].told, UNCHANGED <<service, stops>>
  PROVE  RehearsalInv'
<1>1. row[r] \in Rows /\ worker[r] \in Workers /\ Proper(r) /\ service # "down"
  BY AtWorkFacts
<1>2. Active(r) /\ row[r].status \in {"running", "failed"} /\ (r \notin Artifacts => row[r].told = Recovery!NamesOf(r))
  BY <1>1 DEF Active, Proper
<1>3. Recovery!NamesOf(r) \subseteq Recovery!Names
  BY NamesAreOwn
<1> DEFINE rest == Recovery!NamesOf(r) \ made
           told == Recovery!Told(r, made)
           a == [row[r] EXCEPT !.told = told]
           b == [worker[r] EXCEPT !.stage = IF made = Recovery!NamesOf(r) THEN "restoring" ELSE "creating", !.made = made]
<1>4. made # Recovery!NamesOf(r) => Recovery!FirstOf(rest) \in rest
  BY FirstIsMember
<1>5. /\ row[r].told \subseteq told /\ told \in SUBSET Recovery!Names
      /\ made # Recovery!NamesOf(r) => Recovery!FirstOf(rest) \in told
      /\ r \notin Artifacts => told = row[r].told
  <2> HIDE DEF rest
  <2>1. rest \subseteq Recovery!NamesOf(r)
    BY DEF rest
  <2> QED
    BY <1>1, <1>2, <1>3, <1>4, <2>1 DEF Recovery!Told, Rows, rest
<1> HIDE DEF told
<1>6. a \in Rows /\ a.told = told /\ a.status = row[r].status
  BY <1>1, <1>5 DEF Rows
<1>7. /\ b \in Workers /\ b.made = made /\ ~b.failed /\ ~b.warned
      /\ b.stage = IF made = Recovery!NamesOf(r) THEN "restoring" ELSE "creating"
  BY <1>1, <1>3 DEF Workers
<1>8. row' = [row EXCEPT ![r] = a] /\ worker' = [worker EXCEPT ![r] = b]
  BY DEF Recovery!Create, told
<1> HIDE DEF a, b
<1>9. row'[r] = a /\ worker'[r] = b => Proper(r)'
  <2> SUFFICES ASSUME row'[r] = a, worker'[r] = b
               PROVE  Proper(r)'
    OBVIOUS
  <2>1. Left(r)' \subseteq told
    BY <1>5
  <2>2. b.stage \in {"restoring", "creating"} /\ (b.stage = "creating" => made # Recovery!NamesOf(r))
    BY <1>7
  <2> QED
    BY <1>2, <1>5, <1>6, <1>7, <2>1, <2>2 DEF Proper, Active
<1> QED
  BY <1>1, <1>6, <1>7, <1>8, <1>9, OneStep

\* The server is asked, and the databases are created one by one.
LEMMA CreateSteps ==
  ASSUME RehearsalInv, NEW r \in Recovery!Rehearsals, Recovery!Prepare(r) \/ Recovery!CreateNext(r)
  PROVE  RehearsalInv'
<1> DEFINE b == [worker[r] EXCEPT !.stage = "cleaning", !.failed = TRUE]
<1>1. row[r] \in Rows /\ worker[r] \in Workers /\ Proper(r) /\ service # "down" /\ Active(r)
  <2>1. worker[r].stage \in {"preparing", "creating"}
    BY DEF Recovery!Prepare, Recovery!CreateNext
  <2> QED
    BY <2>1, AtWorkFacts DEF Active
<1>2. PICK x \in Recovery!NamesOf(r) : TRUE
  BY AtWorkFacts
<1>3. row = [row EXCEPT ![r] = row[r]]
  BY DEF RehearsalInv, Recovery!RehearsalTypeOK
<1>4. /\ b \in Workers
      /\ Recovery!Fails(r) => worker' = [worker EXCEPT ![r] = b]
      /\ row'[r] = row[r] /\ worker'[r] = b /\ Left(r)' \subseteq row[r].told => Proper(r)'
  BY <1>1, FailingWorker
<1> HIDE DEF b
<1>5. CASE Recovery!Prepare(r)
  <2>1. worker[r].stage = "preparing" /\ UNCHANGED <<server, service, stops>>
    BY <1>5 DEF Recovery!Prepare
  <2>2. CASE Recovery!Fails(r) /\ row' = row
    <3>1. Left(r)' = Left(r) /\ Left(r) \subseteq row[r].told
      BY <1>1, <2>1 DEF Left, Proper
    <3> QED
      BY <1>1, <1>2, <1>3, <1>4, <2>1, <2>2, <3>1, OneStep
  <2>3. CASE (\A n \in Recovery!NamesOf(r) : ~Recovery!OnServer(n)) /\ Recovery!Create(r, {})
    <3>1. Left(r)' = {}
      BY <2>1, <2>3 DEF Left, Recovery!OnServer
    <3>2. ~worker[r].failed /\ ~worker[r].warned
      BY <1>1, <2>1 DEF Proper
    <3> QED
      BY <1>2, <2>1, <2>3, <3>1, <3>2, CreateTells
  <2> QED
    BY <1>5, <2>2, <2>3 DEF Recovery!Prepare
<1>6. CASE Recovery!CreateNext(r)
  <2> DEFINE n == Recovery!FirstOf(Recovery!NamesOf(r) \ worker[r].made)
  <2>1. worker[r].stage = "creating" /\ UNCHANGED <<service, stops>>
    BY <1>6 DEF Recovery!CreateNext
  <2>2. worker[r].made # Recovery!NamesOf(r) /\ worker[r].made \subseteq Recovery!NamesOf(r) /\ n \in row[r].told
    BY <1>1, <2>1 DEF Proper
  <2>3. n \in Recovery!NamesOf(r)
    BY <2>2, FirstIsMember
  <2>4. \/ Recovery!Created(r, n)
        \/ Recovery!Fails(r) /\ UNCHANGED <<row, server>>
        \/ server' = server \cup {<<n, "ours">>} /\ Recovery!Fails(r) /\ UNCHANGED row
    BY <1>6 DEF Recovery!CreateNext
  <2> HIDE DEF n
  <2>5. server' = server \cup {<<n, "ours">>} => Left(r)' = Left(r) \cup {n}
    BY <2>3 DEF Left
  <2>6. server' = server => Left(r)' = Left(r)
    BY DEF Left
  <2>7. Left(r) \subseteq row[r].told
    BY <1>1 DEF Proper
  <2>8. CASE Recovery!Created(r, n) /\ ~worker[r].failed /\ ~worker[r].warned
    <3>1. server' = server \cup {<<n, "ours">>} /\ Recovery!Create(r, worker[r].made \cup {n})
      BY <2>8 DEF Recovery!Created
    <3>2. Left(r) \subseteq worker[r].made
      BY <1>1, <2>1, <2>8 DEF Proper
    <3>3. /\ Left(r)' \subseteq worker[r].made \cup {n} /\ Left(r)' \subseteq row[r].told
          /\ worker[r].made \cup {n} \subseteq Recovery!NamesOf(r)
      BY <2>2, <2>3, <2>5, <2>7, <3>1, <3>2
    <3> QED
      BY <2>1, <2>3, <2>8, <3>1, <3>3, CreateTells
  <2>9. CASE Recovery!Fails(r) /\ UNCHANGED row /\ (server' = server \/ server' = server \cup {<<n, "ours">>})
    <3>1. Left(r)' \subseteq row[r].told
      BY <2>2, <2>5, <2>6, <2>7, <2>9
    <3> QED
      BY <1>1, <1>3, <1>4, <2>1, <2>3, <2>9, <3>1, OneStep
  <2>10. ~worker[r].failed /\ ~worker[r].warned
    BY <1>1, <2>1 DEF Proper
  <2> QED
    BY <2>4, <2>8, <2>9, <2>10
<1> QED
  BY <1>5, <1>6

\* What was created is restored, verified and dropped, and the row says how it went.
LEMMA CleanSteps ==
  ASSUME RehearsalInv, NEW r \in Recovery!Rehearsals, Recovery!Restore(r) \/ Recovery!Drop(r) \/ Recovery!Finish(r)
  PROVE  RehearsalInv'
<1>1. row[r] \in Rows /\ worker[r] \in Workers /\ Proper(r) /\ service # "down" /\ Active(r)
  <2>1. worker[r].stage \in {"restoring", "cleaning"}
    BY DEF Recovery!Restore, Recovery!Drop, Recovery!Finish
  <2> QED
    BY <2>1, AtWorkFacts DEF Active
<1>2. PICK x \in Recovery!NamesOf(r) : TRUE
  BY AtWorkFacts
<1>3. row = [row EXCEPT ![r] = row[r]]
  BY DEF RehearsalInv, Recovery!RehearsalTypeOK
<1>4. Left(r) \subseteq row[r].told /\ row[r].status \in {"running", "failed"}
  BY <1>1 DEF Proper
<1>5. CASE Recovery!Restore(r)
  <2>1. worker[r].stage = "restoring" /\ UNCHANGED <<row, server, service, stops>>
    BY <1>5 DEF Recovery!Restore
  <2>2. Left(r)' = Left(r)
    BY <2>1 DEF Left
  <2>3. CASE Recovery!Fails(r)
    <3> DEFINE b == [worker[r] EXCEPT !.stage = "cleaning", !.failed = TRUE]
    <3>1. /\ b \in Workers
          /\ Recovery!Fails(r) => worker' = [worker EXCEPT ![r] = b]
          /\ row'[r] = row[r] /\ worker'[r] = b /\ Left(r)' \subseteq row[r].told => Proper(r)'
      BY <1>1, FailingWorker
    <3> HIDE DEF b
    <3> QED
      BY <1>1, <1>2, <1>3, <1>4, <2>1, <2>2, <2>3, <3>1, OneStep
  <2>4. CASE Recovery!Goes(r, "cleaning")
    <3> DEFINE b == [worker[r] EXCEPT !.stage = "cleaning"]
    <3>1. /\ b \in Workers /\ b.stage = "cleaning"
          /\ b.made = worker[r].made /\ b.failed = worker[r].failed /\ b.warned = worker[r].warned
      BY <1>1 DEF Workers
    <3>2. worker' = [worker EXCEPT ![r] = b]
      BY <2>4 DEF Recovery!Goes
    <3> HIDE DEF b
    <3>3. row'[r] = row[r] /\ worker'[r] = b => Proper(r)'
      BY <1>1, <2>1, <2>2, <3>1 DEF Proper, Active
    <3> QED
      BY <1>1, <1>2, <1>3, <2>1, <3>1, <3>2, <3>3, OneStep
  <2> QED
    BY <1>5, <2>3, <2>4 DEF Recovery!Restore
<1>6. CASE Recovery!Drop(r)
  <2>1. PICK n \in worker[r].made, dropped \in BOOLEAN, error \in BOOLEAN :
          /\ dropped \/ error
          /\ server' = IF dropped THEN server \ {<<n, who>> : who \in {"ours", "theirs"}} ELSE server
          /\ worker' = [worker EXCEPT ![r].made = worker[r].made \ {n}, ![r].warned = worker[r].warned \/ error]
    BY <1>6 DEF Recovery!Drop
  <2>2. worker[r].stage = "cleaning" /\ UNCHANGED <<row, service, stops>>
    BY <1>6 DEF Recovery!Drop
  <2>3. worker[r].made \subseteq Recovery!NamesOf(r) /\ n \in Recovery!NamesOf(r)
    BY <1>1 DEF Proper
  <2> DEFINE b == [worker[r] EXCEPT !.made = worker[r].made \ {n}, !.warned = worker[r].warned \/ error]
  <2>4. /\ b \in Workers /\ b.stage = "cleaning" /\ b.made = worker[r].made \ {n}
        /\ b.failed = worker[r].failed /\ (b.warned <=> worker[r].warned \/ error)
    <3>1. (worker[r].warned \/ error) \in BOOLEAN
      BY <1>1 DEF Workers
    <3> QED
      BY <1>1, <2>2, <3>1 DEF Workers
  <2>5. worker' = [worker EXCEPT ![r] = b]
    BY <2>1
  <2> HIDE DEF b
  <2>6. Left(r)' \subseteq Left(r) /\ (dropped => n \notin Left(r)')
    BY <2>1 DEF Left
  <2>7. row'[r] = row[r] /\ worker'[r] = b => Proper(r)'
    <3> SUFFICES ASSUME row'[r] = row[r], worker'[r] = b
                 PROVE  Proper(r)'
      OBVIOUS
    <3>1. ~b.failed /\ ~b.warned => Left(r)' \subseteq b.made
      <4> SUFFICES ASSUME ~b.failed, ~b.warned
                   PROVE  Left(r)' \subseteq b.made
        OBVIOUS
      <4>1. ~worker[r].failed /\ ~worker[r].warned /\ dropped
        BY <2>1, <2>4
      <4>2. Left(r) \subseteq worker[r].made
        BY <1>1, <2>2, <4>1 DEF Proper
      <4> QED
        BY <2>4, <2>6, <4>1, <4>2
    <3> QED
      BY <1>1, <1>4, <2>2, <2>3, <2>4, <2>6, <3>1 DEF Proper, Active
  <2>8. server' = server \ {<<n, who>> : who \in {"ours", "theirs"}} \/ server' = server
    BY <2>1
  <2> QED
    BY <1>1, <1>3, <2>2, <2>3, <2>4, <2>5, <2>7, <2>8, OneStep
<1>7. CASE Recovery!Finish(r)
  <2> DEFINE a == [row[r] EXCEPT !.status = Recovery!Outcome(r)]
  <2>1. /\ worker[r].stage = "cleaning" /\ worker[r].made = {} /\ UNCHANGED <<server, service, stops>>
        /\ row' = [row EXCEPT ![r] = a] /\ worker' = [worker EXCEPT ![r] = Recovery!None]
    BY <1>7 DEF Recovery!Finish
  <2>2. a \in Rows /\ a.told = row[r].told /\ a.status = Recovery!Outcome(r)
    BY <1>1 DEF Rows, Recovery!Outcome
  <2>3. Recovery!Outcome(r) = "passed" => Left(r) = {}
    <3>1. ~worker[r].failed /\ ~worker[r].warned => Left(r) \subseteq worker[r].made
      BY <1>1, <2>1 DEF Proper
    <3> QED
      BY <2>1, <3>1 DEF Recovery!Outcome
  <2>4. Recovery!None \in Workers
    BY DEF Recovery!None, Workers
  <2>5. Left(r)' = Left(r)
    BY <2>1 DEF Left
  <2> HIDE DEF a
  <2>6. row'[r] = a /\ worker'[r] = Recovery!None => Proper(r)'
    BY <1>4, <2>2, <2>3, <2>5 DEF Proper, Active, Recovery!None
  <2> QED
    BY <1>1, <1>2, <2>1, <2>2, <2>4, <2>6, OneStep
<1> QED
  BY <1>5, <1>6, <1>7

\* Others create databases, and the process stops, dies and starts.
LEMMA ServiceSteps ==
  ASSUME RehearsalInv,
         \/ Recovery!Close \/ Recovery!Exit \/ Recovery!Crash \/ Recovery!Boot
         \/ \E n \in Recovery!Names : Recovery!Intrude(n)
  PROVE  RehearsalInv'
<1>1. row \in [Recovery!Rehearsals -> Rows] /\ worker \in [Recovery!Rehearsals -> Workers] /\ stops \in 0 .. MaxStops
  BY DEF RehearsalInv, Recovery!RehearsalTypeOK, Rows, Workers
<1>2. stops' \in 0 .. MaxStops
  <2>1. MaxStops \in Nat
    OBVIOUS
  <2>2. stops' = stops \/ (stops < MaxStops /\ stops' = stops + 1)
    BY DEF Recovery!Close, Recovery!Exit, Recovery!Crash, Recovery!Boot, Recovery!Intrude
  <2> QED
    BY ONLY <1>1, <2>1, <2>2
<1>3. CASE Recovery!Close
  <2>1. UNCHANGED <<row, worker, server>> /\ service' = "closing"
    BY <1>3 DEF Recovery!Close
  <2>2. \A r : Left(r)' = Left(r)
    BY <2>1 DEF Left
  <2>3. \A r \in Recovery!Rehearsals : Proper(r)'
    BY <2>1, <2>2, UntouchedProper DEF RehearsalInv
  <2> QED
    BY <1>2, <2>1, <2>3 DEF RehearsalInv, Recovery!RehearsalTypeOK
<1>4. CASE Recovery!Exit \/ Recovery!Crash
  <2>1. service' = "down" /\ worker' = [r \in Recovery!Rehearsals |-> Recovery!None] /\ UNCHANGED <<row, server>>
    BY <1>4 DEF Recovery!Exit, Recovery!Crash, Recovery!Vanish
  <2>2. \A r : Left(r)' = Left(r)
    BY <2>1 DEF Left
  <2>3. worker' \in [Recovery!Rehearsals -> Workers] /\ \A r \in Recovery!Rehearsals : worker'[r] = Recovery!None
    BY <2>1 DEF Workers, Recovery!None
  <2>4. \A r \in Recovery!Rehearsals : Proper(r)'
    BY <2>1, <2>2, <2>3 DEF RehearsalInv, Proper, Active, Recovery!None
  <2>5. Recovery!RehearsalTypeOK'
    BY <1>2, <2>1, <2>3 DEF RehearsalInv, Recovery!RehearsalTypeOK, Workers
  <2> QED
    BY <2>3, <2>4, <2>5 DEF RehearsalInv, Recovery!None
<1>5. CASE Recovery!Boot
  <2>1. /\ service = "down" /\ service' = "up" /\ UNCHANGED <<worker, server>>
        /\ row' = [r \in Recovery!Rehearsals |->
                     IF r \in Artifacts /\ Recovery!Running(r) THEN [row[r] EXCEPT !.status = "interrupted"] ELSE row[r]]
    BY <1>5 DEF Recovery!Boot
  <2>2. ASSUME NEW r \in Recovery!Rehearsals
        PROVE  row'[r] \in Rows /\ Proper(r)'
    <3>1. row[r] \in Rows /\ Proper(r) /\ worker[r].stage = "none"
      BY <1>1, <2>1 DEF RehearsalInv
    <3>2. /\ row'[r] \in Rows /\ row'[r].told = row[r].told
          /\ row'[r].status = row[r].status \/ row'[r].status = "interrupted"
      BY <2>1, <3>1 DEF Rows
    <3>3. Left(r)' = Left(r)
      BY <2>1 DEF Left
    <3> QED
      BY <2>1, <3>1, <3>2, <3>3 DEF Proper, Active
  <2>3. row' \in [Recovery!Rehearsals -> Rows]
    BY <2>1, <2>2
  <2>4. Recovery!RehearsalTypeOK'
    BY <1>2, <2>1, <2>3 DEF RehearsalInv, Recovery!RehearsalTypeOK, Rows
  <2> QED
    BY <2>1, <2>2, <2>4 DEF RehearsalInv
<1>6. CASE \E n \in Recovery!Names : Recovery!Intrude(n)
  <2>1. PICK n \in Recovery!Names : Recovery!Intrude(n)
    BY <1>6
  <2>2. server' = server \cup {<<n, "theirs">>} /\ UNCHANGED <<row, worker, service, stops>>
    BY <2>1 DEF Recovery!Intrude
  <2>3. \A r : Left(r)' = Left(r)
    BY <2>2 DEF Left
  <2>4. \A r \in Recovery!Rehearsals : Proper(r)'
    BY <2>2, <2>3, UntouchedProper DEF RehearsalInv
  <2> QED
    BY <2>2, <2>4 DEF RehearsalInv, Recovery!RehearsalTypeOK
<1> QED
  BY <1>3, <1>4, <1>5, <1>6

\* Whatever crash, lost answer or failing cleanup leaves at the recovery server,
\* a row tells its name; and a rehearsal that passed has left nothing.
THEOREM EvidenceCorrect == FilesSpec => []EvidenceTrue
<1>1. FilesInit => RehearsalInv
  <2>1. 0 \in 0 .. MaxStops
    OBVIOUS
  <2> SUFFICES ASSUME Recovery!RehearsalInit
               PROVE  RehearsalInv
    BY DEF FilesInit
  <2>2. \A r \in Recovery!Rehearsals : row[r] = [status |-> "none", told |-> {}] /\ worker[r] = Recovery!None /\ Left(r) = {}
    BY DEF Recovery!RehearsalInit, Left
  <2>3. Recovery!RehearsalTypeOK
    BY <2>1 DEF Recovery!RehearsalInit, Recovery!RehearsalTypeOK, Recovery!None
  <2>4. \A r \in Recovery!Rehearsals : Proper(r)
    BY <2>2 DEF Proper, Active, Recovery!None
  <2> QED
    BY <2>3, <2>4 DEF Recovery!RehearsalInit, RehearsalInv
<1>2. RehearsalInv /\ [FilesNext]_<<sides, side>> => RehearsalInv'
  <2>1. ASSUME RehearsalInv, UNCHANGED rehearsals
        PROVE  RehearsalInv'
    <3>1. \A r : Left(r)' = Left(r)
      BY <2>1 DEF rehearsals, Left
    <3>2. \A r \in Recovery!Rehearsals : Proper(r)'
      BY <2>1, <3>1, UntouchedProper DEF rehearsals, RehearsalInv
    <3> QED
      BY <2>1, <3>2 DEF rehearsals, RehearsalInv, Recovery!RehearsalTypeOK
  <2>2. ASSUME RehearsalInv, Recovery!RehearsalNext
        PROVE  RehearsalInv'
    BY <2>2, BeginSteps, CreateSteps, CleanSteps, ServiceSteps DEF Recovery!RehearsalNext, Recovery!Step, Recovery!Rehearsals
  <2>3. [FilesNext]_<<sides, side>> => Recovery!RehearsalNext \/ UNCHANGED rehearsals
    BY DEF FilesNext, sides
  <2> QED
    BY <2>1, <2>2, <2>3
<1>3. RehearsalInv => EvidenceTrue
  BY DEF RehearsalInv, Proper, Left, EvidenceTrue, Recovery!EvidenceTrue
<1> QED
  BY <1>1, <1>2, <1>3, PTL DEF FilesSpec

-----------------------------------------------------------------------------
(* Updates and installations *)

\* What the directory and the application are where a script has come to a stage.
Reached(u, stage) ==
  /\ stage = "depending" => files = Updates!Of("new")
  /\ stage \in {"starting", "finishing", "installed"} => Updates!Whole("new")
  /\ stage = "finishing" \/ (stage = "installed" /\ manages[u]) => running = "new"
  /\ stage = "reviving" \/ (stage = "restored" /\ u \in latest) => files = saved[u]

\* How far it has come with the copy under way.
Halfway(u) ==
  /\ Updates!At(u, "copying") => \A i \in 1 .. Paths : i < next[u] => files[i] = "new"
  /\ Updates!At(u, "restoring") => \A i \in 1 .. Paths : i < next[u] => files[i] = saved[u][i]

\* Until two scripts have been at work at once, the one at work began last, and
\* where one has installed the release none finds it newer than the files.
Alone(u) ==
  /\ Updates!AtWork(u) => latest = {u}
  /\ Updates!At(u, "installed") => \A v \in Updates!Scripts : ~Updates!AtWork(v)

UpdateInv ==
  /\ Updates!UpdateTypeOK
  /\ ~mixed => \A u \in Updates!Scripts : Alone(u) /\ Reached(u, script[u]) /\ Halfway(u)

\* The types of what is not of one script.
Statuses == {"available", "current", "queued", "busy", "rolling_back", "installed", "restored", "failed"}
Works == {"downloading", "verifying", "saving", "stopping", "copying", "depending", "starting", "finishing", "restoring", "reviving"}
Stages == Updates!Ends \cup {"none"} \cup Works

DirectoryTyped ==
  /\ files \in [1 .. Paths -> Updates!Contents] /\ modules \in Updates!Contents
  /\ app \in {"up", "down", "stopped"} /\ running \in Updates!Contents
  /\ offered \in BOOLEAN
  /\ saved \in [Updates!Scripts -> [1 .. Paths -> Updates!Contents]]
  /\ manages \in [Updates!Scripts -> BOOLEAN] /\ stopped \in [Updates!Scripts -> BOOLEAN]
  /\ kills \in 0 .. MaxKills /\ checks \in 0 .. MaxChecks

\* The type invariant, in these words.
LEMMA UpdateTypes ==
  Updates!UpdateTypeOK <=>
    /\ DirectoryTyped /\ status \in Statuses
    /\ script \in [Updates!Scripts -> Stages] /\ next \in [Updates!Scripts -> 1 .. Paths + 1]
    /\ latest \subseteq Updates!Scripts /\ mixed \in BOOLEAN
<1>1. Stages = Updates!Ends \cup
               {"none", "downloading", "verifying", "saving", "stopping", "copying", "depending", "starting",
                "finishing", "restoring", "reviving"}
  BY DEF Stages, Works
<1> QED
  BY <1>1 DEF Updates!UpdateTypeOK, DirectoryTyped, Statuses

\* The same of the next state, one way.
LEMMA UpdateTypesNext ==
  ASSUME DirectoryTyped', status' \in Statuses,
         script' \in [Updates!Scripts -> Stages], next' \in [Updates!Scripts -> 1 .. Paths + 1],
         latest' \subseteq Updates!Scripts, mixed' \in BOOLEAN
  PROVE  Updates!UpdateTypeOK'
<1>1. Stages = Updates!Ends \cup
               {"none", "downloading", "verifying", "saving", "stopping", "copying", "depending", "starting",
                "finishing", "restoring", "reviving"}
  BY DEF Stages, Works
<1> QED
  BY <1>1 DEF Updates!UpdateTypeOK, DirectoryTyped, Statuses

\* The stages of which AtWork() tells.
LEMMA AtWorkIs ==
  ASSUME Updates!UpdateTypeOK, NEW u \in Updates!Scripts
  PROVE  Updates!AtWork(u) <=> script[u] \in Works
BY UpdateTypes DEF Updates!AtWork, Updates!Ends, Works, Stages

\* A step of the script at work leaves what the others have said.
LEMMA OneWorks ==
  ASSUME UpdateInv, NEW u \in Updates!Scripts, Updates!AtWork(u), UNCHANGED <<latest, mixed>>,
         \A v \in Updates!Scripts \ {u} : script'[v] = script[v],
         Updates!UpdateTypeOK', mixed \/ (Reached(u, script[u])' /\ Halfway(u)')
  PROVE  UpdateInv'
<1> SUFFICES ASSUME ~mixed, NEW v \in Updates!Scripts
             PROVE  Alone(v)' /\ Reached(v, script[v])' /\ Halfway(v)'
  BY DEF UpdateInv
<1>1. latest = {u} /\ latest' = {u}
  BY DEF UpdateInv, Alone
<1>2. \A w \in Updates!Scripts \ {u} : script'[w] = script[w] /\ script[w] \notin Works /\ script[w] # "installed"
  BY <1>1, AtWorkIs DEF UpdateInv, Alone, Updates!At
<1>3. \A w \in Updates!Scripts : Updates!AtWork(w)' <=> script'[w] \in Works
  BY <1>2 DEF Updates!UpdateTypeOK, Updates!AtWork, Updates!Ends, Works
<1>4. CASE v = u
  BY <1>1, <1>2, <1>3, <1>4 DEF Alone, Updates!At, Works
<1>5. CASE v # u
  BY <1>1, <1>2, <1>3, <1>5 DEF Alone, Reached, Halfway, Updates!At, Works
<1> QED
  BY <1>4, <1>5

\* A script goes on to a stage whose condition holds.
LEMMA GoesOn ==
  ASSUME UpdateInv, NEW u \in Updates!Scripts, Updates!AtWork(u), UNCHANGED <<latest, mixed>>,
         NEW stage \in Stages, Updates!Goes(u, stage),
         DirectoryTyped', status' \in Statuses, mixed \/ Reached(u, stage)'
  PROVE  UpdateInv'
<1>1. script \in [Updates!Scripts -> Stages] /\ next \in [Updates!Scripts -> 1 .. Paths + 1] /\ latest \subseteq Updates!Scripts /\ mixed \in BOOLEAN
  BY UpdateTypes DEF UpdateInv
<1>2. script' = [script EXCEPT ![u] = stage] /\ next' = [next EXCEPT ![u] = 1]
  BY DEF Updates!Goes
<1>3. 1 \in 1 .. Paths + 1
  OBVIOUS
<1>4. script' \in [Updates!Scripts -> Stages] /\ next' \in [Updates!Scripts -> 1 .. Paths + 1] /\ script'[u] = stage /\ next'[u] = 1
  BY <1>1, <1>2, <1>3
<1>5. Updates!UpdateTypeOK'
  BY <1>1, <1>4, UpdateTypesNext
<1>6. \A v \in Updates!Scripts \ {u} : script'[v] = script[v]
  BY <1>1, <1>2
<1>7. Halfway(u)'
  BY <1>4 DEF Halfway
<1>8. mixed \/ Reached(u, script[u])'
  BY <1>4
<1> QED
  BY <1>5, <1>6, <1>7, <1>8, OneWorks

\* It fails, or begins to put back, and says so or not.
LEMMA Throws ==
  ASSUME UpdateInv, NEW u \in Updates!Scripts, Updates!AtWork(u), UNCHANGED <<latest, mixed>>,
         Updates!Throw(u) \/ Updates!Fails(u), DirectoryTyped'
  PROVE  UpdateInv'
<1>1. status' \in Statuses
  BY UpdateTypes DEF UpdateInv, Updates!Throw, Updates!Fails, Updates!Tells, Statuses
<1>2. PICK stage \in {"restoring", "failed"} : Updates!Goes(u, stage)
  BY DEF Updates!Throw, Updates!Fails
<1>3. stage \in Stages /\ Reached(u, stage)'
  BY DEF Stages, Works, Updates!Ends, Reached
<1> QED
  BY <1>1, <1>2, <1>3, GoesOn

\* It has copied one path.
LEMMA StepsOn ==
  ASSUME UpdateInv, NEW u \in Updates!Scripts, Updates!AtWork(u), UNCHANGED <<latest, mixed, status>>,
         Updates!Steps(u), next[u] <= Paths, DirectoryTyped',
         mixed \/ (Reached(u, script[u])' /\ Halfway(u)')
  PROVE  UpdateInv'
<1>1. script \in [Updates!Scripts -> Stages] /\ next \in [Updates!Scripts -> 1 .. Paths + 1] /\ latest \subseteq Updates!Scripts
      /\ mixed \in BOOLEAN /\ status \in Statuses
  BY UpdateTypes DEF UpdateInv
<1>2. script' = script /\ next' = [next EXCEPT ![u] = @ + 1]
  BY DEF Updates!Steps
<1>3. next[u] + 1 \in 1 .. Paths + 1
  BY <1>1
<1>4. next' \in [Updates!Scripts -> 1 .. Paths + 1]
  BY <1>1, <1>2, <1>3
<1>5. Updates!UpdateTypeOK'
  BY <1>1, <1>2, <1>4, UpdateTypesNext
<1> QED
  BY <1>2, <1>5, OneWorks

\* Locked is the release whose files are all there.
LEMMA LockedIsNew ==
  files = Updates!Of("new") => Updates!Locked = "new"
<1> SUFFICES ASSUME files = Updates!Of("new")
             PROVE  Updates!Locked = "new"
  OBVIOUS
<1>1. \A r : files = Updates!Of(r) => r = "new"
  <2>1. files[Package] = "new" /\ \A r : files = Updates!Of(r) => files[Package] = r
    BY DEF Updates!Of
  <2> QED
    BY <2>1
<1>2. "new" \in Updates!Contents
  BY DEF Updates!Contents
<1> QED
  BY <1>1, <1>2 DEF Updates!Locked

\* Whatever package-lock.json says, node_modules holds a release or none.
LEMMA LockedIsContent ==
  Updates!Locked \in Updates!Contents
<1>1. CASE \E release \in {"old", "new"} : files = Updates!Of(release)
  <2>1. \E r \in Updates!Contents : files = Updates!Of(r)
    BY <1>1 DEF Updates!Contents
  <2> QED
    BY <1>1, <2>1 DEF Updates!Locked
<1>2. CASE ~\E release \in {"old", "new"} : files = Updates!Of(release)
  BY <1>2 DEF Updates!Locked, Updates!Contents
<1> QED
  BY <1>1, <1>2

\* A script that has not begun begins: nobody else is at work, or two are.
LEMMA BeginsWell ==
  ASSUME UpdateInv, NEW u \in Updates!Scripts, NEW stage \in Stages \ {"installed", "restored"}, Updates!Begins(u, stage),
         stage \in Works => stage = "downloading" /\ Updates!Newer,
         UNCHANGED <<files, modules, app, running, offered, saved, stopped, kills, checks>>, status' \in Statuses,
         manages' = manages \/ \E pm2 \in BOOLEAN : manages' = [manages EXCEPT ![u] = pm2]
  PROVE  UpdateInv'
<1>1. /\ script \in [Updates!Scripts -> Stages] /\ next \in [Updates!Scripts -> 1 .. Paths + 1]
      /\ latest \subseteq Updates!Scripts /\ mixed \in BOOLEAN /\ DirectoryTyped
  BY UpdateTypes DEF UpdateInv
<1>2. /\ script[u] = "none" /\ script' = [script EXCEPT ![u] = stage] /\ next' = [next EXCEPT ![u] = 1] /\ latest' = {u}
      /\ mixed' = (mixed \/ \E v \in Updates!Scripts : Updates!AtWork(v))
  BY DEF Updates!Begins, Updates!Goes, Updates!At
<1>3. 1 \in 1 .. Paths + 1
  OBVIOUS
<1>4. script' \in [Updates!Scripts -> Stages] /\ next' \in [Updates!Scripts -> 1 .. Paths + 1] /\ latest' \subseteq Updates!Scripts
      /\ mixed' \in BOOLEAN
  BY <1>1, <1>2, <1>3
<1>5. manages' \in [Updates!Scripts -> BOOLEAN] /\ \A v \in Updates!Scripts \ {u} : manages'[v] = manages[v]
  BY <1>1 DEF DirectoryTyped
<1>6. DirectoryTyped'
  BY <1>1, <1>5 DEF DirectoryTyped
<1>7. Updates!UpdateTypeOK'
  BY <1>4, <1>6, UpdateTypesNext
<1> SUFFICES ASSUME ~mixed', NEW v \in Updates!Scripts
             PROVE  Alone(v)' /\ Reached(v, script[v])' /\ Halfway(v)'
  BY <1>7 DEF UpdateInv
<1>8. ~mixed /\ \A w \in Updates!Scripts : script[w] \notin Works
  BY <1>2, AtWorkIs DEF UpdateInv
<1>9. \A w \in Updates!Scripts : Updates!AtWork(w)' <=> script'[w] \in Works
  BY <1>4 DEF Updates!AtWork, Updates!Ends, Works, Stages
<1>10. script'[u] = stage /\ \A w \in Updates!Scripts \ {u} : script'[w] = script[w]
  BY <1>1, <1>2
<1>11. ASSUME NEW w \in Updates!Scripts, script'[w] = "installed"
       PROVE  script[w] = "installed" /\ w # u /\ Updates!Whole("new") /\ stage \notin Works
  <2>1. script[w] = "installed" /\ w # u /\ Updates!Whole("new")
    BY <1>8, <1>10, <1>11 DEF UpdateInv, Reached
  <2>2. ~Updates!Newer
    BY <2>1 DEF Updates!Newer, Updates!Whole, Updates!Of
  <2> QED
    BY <2>1, <2>2
<1>12. Alone(v)'
  BY <1>2, <1>8, <1>9, <1>10, <1>11 DEF Alone, Updates!At
<1>13. CASE v = u
  BY <1>8, <1>10, <1>12, <1>13 DEF Reached, Halfway, Updates!At, Works
<1>14. CASE v # u
  <2>1. script'[v] = script[v] /\ script[v] \notin Works /\ v \notin latest' /\ Reached(v, script[v])
    BY <1>2, <1>8, <1>10, <1>14 DEF UpdateInv
  <2>2. Halfway(v)'
    BY <2>1 DEF Halfway, Updates!At, Works
  <2>3. Updates!Whole("new")' = Updates!Whole("new")
    BY DEF Updates!Whole
  <2>4. Reached(v, script[v])'
    BY <1>5, <1>14, <2>1, <2>3 DEF Reached, Works
  <2> QED
    BY <1>12, <2>2, <2>4
<1> QED
  BY <1>12, <1>13, <1>14

\* What no script does: a check for releases, and the application's own end.
LEMMA ApplicationSteps ==
  ASSUME UpdateInv, Updates!CheckForUpdate \/ Updates!Terminate \/ Updates!Supervise
  PROVE  UpdateInv'
<1>1. /\ script \in [Updates!Scripts -> Stages] /\ next \in [Updates!Scripts -> 1 .. Paths + 1]
      /\ latest \subseteq Updates!Scripts /\ mixed \in BOOLEAN /\ DirectoryTyped /\ status \in Statuses
  BY UpdateTypes DEF UpdateInv
<1>2. UNCHANGED <<files, modules, script, next, saved, manages, stopped, latest, mixed, kills>>
  BY DEF Updates!CheckForUpdate, Updates!Terminate, Updates!Supervise
<1>3. running' = running \/ running' = modules
  BY DEF Updates!CheckForUpdate, Updates!Terminate, Updates!Supervise, Updates!Started
<1>4. checks' \in 0 .. MaxChecks
  <2>1. MaxChecks \in Nat /\ checks \in 0 .. MaxChecks
    BY <1>1 DEF DirectoryTyped
  <2>2. checks' = checks \/ (checks < MaxChecks /\ checks' = checks + 1)
    BY DEF Updates!CheckForUpdate, Updates!Terminate, Updates!Supervise
  <2> QED
    BY ONLY <2>1, <2>2
<1>5. app' \in {"up", "down", "stopped"} /\ offered' \in BOOLEAN
  BY <1>1 DEF Updates!CheckForUpdate, Updates!Terminate, Updates!Supervise, DirectoryTyped
<1>6. status' \in Statuses
  BY <1>1 DEF Updates!CheckForUpdate, Updates!Terminate, Updates!Supervise, Statuses
<1>7. DirectoryTyped'
  BY <1>1, <1>2, <1>3, <1>4, <1>5 DEF DirectoryTyped
<1>8. Updates!UpdateTypeOK'
  BY <1>1, <1>2, <1>6, <1>7, UpdateTypesNext
<1>9. ASSUME ~mixed, NEW u \in Updates!Scripts
      PROVE  Alone(u)' /\ Reached(u, script[u])' /\ Halfway(u)'
  <2>1. Alone(u) /\ Reached(u, script[u]) /\ Halfway(u)
    BY <1>9 DEF UpdateInv
  <2>2. Updates!Whole("new") => modules = "new"
    BY DEF Updates!Whole
  <2>3. Alone(u)' /\ Halfway(u)'
    BY <1>2, <2>1 DEF Alone, Halfway, Updates!At, Updates!AtWork
  <2>4. Updates!Whole("new")' <=> Updates!Whole("new")
    BY <1>2 DEF Updates!Whole
  <2>5. Reached(u, script[u])'
    BY <1>2, <1>3, <2>1, <2>2, <2>4 DEF Reached
  <2> QED
    BY <2>3, <2>5
<1> QED
  BY <1>2, <1>8, <1>9 DEF UpdateInv

\* A run of either script begins.
LEMMA BeginningSteps ==
  ASSUME UpdateInv, NEW u \in Updates!Scripts, Updates!StartUpdate(u) \/ Updates!StartInstall(u)
  PROVE  UpdateInv'
<1>1. status \in Statuses
  BY UpdateTypes DEF UpdateInv
<1>2. status' \in Statuses
  BY <1>1 DEF Updates!StartUpdate, Updates!StartInstall, Statuses
<1>3. \A stage \in {"downloading", "current", "failed"} : stage \in Stages \ {"installed", "restored"} /\ (stage \in Works => stage = "downloading")
  BY DEF Stages, Works, Updates!Ends
<1>4. PICK stage \in {"downloading", "current", "failed"} : Updates!Begins(u, stage) /\ (stage = "downloading" => Updates!Newer)
  BY DEF Updates!StartUpdate, Updates!StartInstall
<1>5. /\ UNCHANGED <<files, modules, app, running, offered, saved, stopped, kills, checks>>
      /\ manages' = manages \/ \E pm2 \in BOOLEAN : manages' = [manages EXCEPT ![u] = pm2]
  BY DEF Updates!StartUpdate, Updates!StartInstall
<1> QED
  BY <1>2, <1>3, <1>4, <1>5, BeginsWell

\* Nothing of the application is touched before it is stopped, but for the
\* rollback copy.
LEMMA PreparingSteps ==
  ASSUME UpdateInv, NEW u \in Updates!Scripts,
         \/ Updates!Download(u) \/ Updates!Verify(u) \/ Updates!Fetch(u) \/ Updates!Save(u)
         \/ Updates!Stop(u) \/ Updates!StopFound(u) \/ Updates!Kill(u)
  PROVE  UpdateInv'
<1>1. /\ status \in Statuses /\ DirectoryTyped /\ script \in [Updates!Scripts -> Stages]
      /\ next \in [Updates!Scripts -> 1 .. Paths + 1]
  BY UpdateTypes DEF UpdateInv
<1>2. Updates!AtWork(u) /\ UNCHANGED <<latest, mixed, files, modules, running, offered, manages, checks>>
  BY DEF Updates!Download, Updates!Verify, Updates!Fetch, Updates!Save, Updates!Stop, Updates!StopFound, Updates!Kill,
         Updates!AtWork, Updates!At, Updates!Ends
<1>3. /\ app' \in {"up", "down", "stopped"}
      /\ stopped' = stopped \/ stopped' = [stopped EXCEPT ![u] = TRUE]
  BY <1>1 DEF Updates!Download, Updates!Verify, Updates!Fetch, Updates!Save, Updates!Stop, Updates!StopFound, Updates!Kill,
         DirectoryTyped
<1>4. stopped' \in [Updates!Scripts -> BOOLEAN]
  BY <1>1, <1>3 DEF DirectoryTyped
<1>5. kills' \in 0 .. MaxKills
  <2>1. MaxKills \in Nat /\ kills \in 0 .. MaxKills
    BY <1>1 DEF DirectoryTyped
  <2>2. kills' = kills \/ (kills < MaxKills /\ kills' = kills + 1)
    BY DEF Updates!Download, Updates!Verify, Updates!Fetch, Updates!Save, Updates!Stop, Updates!StopFound, Updates!Kill
  <2> QED
    BY ONLY <2>1, <2>2
<1>6. saved' = saved \/ (Updates!Save(u) /\ next[u] <= Paths /\ saved' = [saved EXCEPT ![u][next[u]] = files[next[u]]])
  BY DEF Updates!Download, Updates!Verify, Updates!Fetch, Updates!Save, Updates!Stop, Updates!StopFound, Updates!Kill
<1>7. saved' \in [Updates!Scripts -> [1 .. Paths -> Updates!Contents]]
  <2>1. CASE saved' = saved
    BY <1>1, <2>1 DEF DirectoryTyped
  <2>2. CASE next[u] <= Paths /\ saved' = [saved EXCEPT ![u][next[u]] = files[next[u]]]
    <3>1. next[u] \in 1 .. Paths
      BY <1>1, <2>2
    <3>2. files[next[u]] \in Updates!Contents /\ saved[u] \in [1 .. Paths -> Updates!Contents]
      BY <1>1, <3>1 DEF DirectoryTyped
    <3> QED
      BY <1>1, <2>2, <3>1, <3>2 DEF DirectoryTyped
  <2> QED
    BY <1>6, <2>1, <2>2
<1>8. DirectoryTyped'
  BY <1>1, <1>2, <1>3, <1>4, <1>5, <1>7 DEF DirectoryTyped
<1>9. CASE Updates!Throw(u) \/ Updates!Fails(u)
  BY <1>2, <1>8, <1>9, Throws
<1>10. CASE Updates!Steps(u) /\ Updates!Save(u)
  <2>1. script[u] = "saving" /\ script' = script /\ next[u] <= Paths /\ UNCHANGED status
    BY <1>1, <1>10 DEF Updates!Save, Updates!Steps, Updates!At, Updates!Throw, Updates!Fails, Updates!Goes
  <2>2. Reached(u, script[u])' /\ Halfway(u)'
    BY <2>1 DEF Reached, Halfway, Updates!At
  <2> QED
    BY <1>2, <1>8, <1>10, <2>1, <2>2, StepsOn
<1>11. CASE \E stage \in {"verifying", "saving", "stopping", "copying", "failed", "killed"} :
               Updates!Goes(u, stage) /\ status' \in {"busy", status}
  <2>1. PICK stage \in {"verifying", "saving", "stopping", "copying", "failed", "killed"} :
               Updates!Goes(u, stage) /\ status' \in {"busy", status}
    BY <1>11
  <2>2. stage \in Stages /\ Reached(u, stage)' /\ status' \in Statuses
    BY <1>1, <2>1 DEF Stages, Works, Updates!Ends, Reached, Statuses
  <2> QED
    BY <1>2, <1>8, <2>1, <2>2, GoesOn
<1> QED
  BY <1>9, <1>10, <1>11 DEF Updates!Download, Updates!Verify, Updates!Fetch, Updates!Save, Updates!Stop, Updates!StopFound,
     Updates!Kill, Updates!Tells

\* The files of the release take the place of what is there.
LEMMA CopyStep ==
  ASSUME UpdateInv, NEW u \in Updates!Scripts, Updates!Copy(u)
  PROVE  UpdateInv'
<1>1. /\ status \in Statuses /\ DirectoryTyped /\ next[u] \in 1 .. Paths + 1
      /\ ~mixed => Halfway(u)
  BY UpdateTypes DEF UpdateInv
<1>2. /\ script[u] = "copying" /\ Updates!AtWork(u)
      /\ UNCHANGED <<latest, mixed, modules, app, running, offered, saved, manages, stopped, kills, checks>>
  BY DEF Updates!Copy, Updates!AtWork, Updates!At, Updates!Ends
<1>3. ASSUME NEW c \in Updates!Contents, next[u] <= Paths, files' = [files EXCEPT ![next[u]] = c]
      PROVE  DirectoryTyped' /\ files'[next[u]] = c /\ \A i \in 1 .. Paths : i # next[u] => files'[i] = files[i]
  <2>1. next[u] \in 1 .. Paths /\ files \in [1 .. Paths -> Updates!Contents]
    BY <1>1, <1>3 DEF DirectoryTyped
  <2> QED
    BY <1>1, <1>2, <1>3, <2>1 DEF DirectoryTyped
<1>4. CASE next[u] > Paths
  <2>1. Updates!Goes(u, "depending") /\ UNCHANGED <<files, status>>
    BY <1>4 DEF Updates!Copy
  <2>2. DirectoryTyped'
    BY <1>1, <1>2, <2>1 DEF DirectoryTyped
  <2>3. ~mixed => files = Updates!Of("new")
    <3>1. SUFFICES ASSUME ~mixed
                   PROVE  files = Updates!Of("new")
      OBVIOUS
    <3>2. \A i \in 1 .. Paths : files[i] = "new"
      BY <1>1, <1>2, <1>4, <3>1 DEF Halfway, Updates!At
    <3>3. files \in [1 .. Paths -> Updates!Contents]
      BY <1>1 DEF DirectoryTyped
    <3> QED
      BY <3>2, <3>3 DEF Updates!Of
  <2>4. mixed \/ Reached(u, "depending")'
    BY <2>1, <2>3 DEF Reached, Updates!Of
  <2> QED
    BY <1>1, <1>2, <2>1, <2>2, <2>4, GoesOn DEF Stages, Works
<1>5. CASE next[u] <= Paths /\ Updates!Throw(u)
  <2>1. files' = [files EXCEPT ![next[u]] = "none"] \/ files' = [files EXCEPT ![next[u]] = "new"]
    BY <1>1, <1>5 DEF Updates!Copy
  <2>2. DirectoryTyped'
    BY <1>3, <1>5, <2>1 DEF Updates!Contents
  <2> QED
    BY <1>2, <1>5, <2>2, Throws
<1>6. CASE next[u] <= Paths /\ Updates!Steps(u) /\ files' = [files EXCEPT ![next[u]] = "new"] /\ UNCHANGED status
  <2>1. DirectoryTyped' /\ files'[next[u]] = "new" /\ \A i \in 1 .. Paths : i # next[u] => files'[i] = files[i]
    BY <1>3, <1>6 DEF Updates!Contents
  <2>2. next'[u] = next[u] + 1 /\ script' = script
    BY <1>6, UpdateTypes DEF Updates!Steps, UpdateInv
  <2>3. Reached(u, script[u])'
    BY <1>2, <2>2 DEF Reached
  <2>4. mixed \/ Halfway(u)'
    <3>1. SUFFICES ASSUME ~mixed, NEW i \in 1 .. Paths, i < next'[u]
                   PROVE  files'[i] = "new"
      BY <1>2, <2>2 DEF Halfway, Updates!At
    <3>2. i < next[u] \/ i = next[u]
      BY <1>1, <2>2, <3>1
    <3>3. i < next[u] => files[i] = "new"
      BY <1>1, <1>2, <3>1 DEF Halfway, Updates!At
    <3> QED
      BY <2>1, <3>2, <3>3
  <2> QED
    BY <1>2, <1>6, <2>1, <2>3, <2>4, StepsOn
<1>7. next[u] > Paths \/ next[u] <= Paths
  BY <1>1
<1> QED
  BY <1>4, <1>5, <1>6, <1>7 DEF Updates!Copy

\* npm ci, and what follows where it succeeds.
LEMMA DependStep ==
  ASSUME UpdateInv, NEW u \in Updates!Scripts, Updates!Depend(u)
  PROVE  UpdateInv'
<1>1. /\ status \in Statuses /\ DirectoryTyped
      /\ ~mixed => files = Updates!Of("new")
  BY UpdateTypes DEF UpdateInv, Updates!Depend, Reached, Updates!At
<1>2. /\ Updates!AtWork(u)
      /\ UNCHANGED <<latest, mixed, files, app, running, offered, saved, manages, stopped, kills, checks>>
  BY DEF Updates!Depend, Updates!AtWork, Updates!At, Updates!Ends
<1>3. modules' \in {Updates!Locked, "none"}
  BY DEF Updates!Depend
<1>4. modules' \in Updates!Contents
  BY <1>3, LockedIsContent DEF Updates!Contents
<1>5. DirectoryTyped'
  BY <1>1, <1>2, <1>4 DEF DirectoryTyped
<1>6. CASE Updates!Throw(u)
  BY <1>2, <1>5, <1>6, Throws
<1>7. CASE \E stage \in {"starting", "installed"} :
              Updates!Goes(u, stage) /\ modules' = Updates!Locked /\ status' \in {"busy", status} /\ (stage = "installed" => ~manages[u])
  <2>1. PICK stage \in {"starting", "installed"} :
              Updates!Goes(u, stage) /\ modules' = Updates!Locked /\ status' \in {"busy", status} /\ (stage = "installed" => ~manages[u])
    BY <1>7
  <2>2. mixed \/ Updates!Whole("new")'
    BY <1>1, <1>2, <2>1, LockedIsNew DEF Updates!Whole, Updates!Of
  <2>3. mixed \/ Reached(u, stage)'
    BY <1>2, <2>1, <2>2 DEF Reached
  <2>4. stage \in Stages /\ status' \in Statuses
    BY <1>1, <2>1 DEF Stages, Works, Updates!Ends, Statuses
  <2> QED
    BY <1>2, <1>5, <2>1, <2>3, <2>4, GoesOn
<1> QED
  BY <1>6, <1>7 DEF Updates!Depend, Updates!Tells

\* The application starts from what has been installed.
LEMMA StartingSteps ==
  ASSUME UpdateInv, NEW u \in Updates!Scripts, Updates!Restart(u) \/ Updates!Start(u) \/ Updates!Finish(u)
  PROVE  UpdateInv'
<1>1. /\ status \in Statuses /\ DirectoryTyped
      /\ ~mixed => Updates!Whole("new") /\ (script[u] = "finishing" => running = "new")
  BY UpdateTypes DEF UpdateInv, Updates!Restart, Updates!Start, Updates!Finish, Reached, Updates!At
<1>2. /\ Updates!AtWork(u)
      /\ UNCHANGED <<latest, mixed, files, modules, offered, saved, manages, stopped, kills, checks>>
  BY DEF Updates!Restart, Updates!Start, Updates!Finish, Updates!AtWork, Updates!At, Updates!Ends
<1>3. /\ app' \in {"up", "down", "stopped"} /\ running' \in Updates!Contents
  BY <1>1 DEF Updates!Restart, Updates!Start, Updates!Finish, Updates!Started, DirectoryTyped
<1>4. DirectoryTyped'
  BY <1>1, <1>2, <1>3 DEF DirectoryTyped
<1>5. Updates!Whole("new")' = Updates!Whole("new")
  BY <1>2 DEF Updates!Whole
<1>6. CASE Updates!Throw(u) \/ Updates!Fails(u)
  BY <1>2, <1>4, <1>6, Throws
<1>7. CASE Updates!Goes(u, "restoring") /\ UNCHANGED status
  BY <1>1, <1>2, <1>4, <1>7, GoesOn DEF Stages, Works, Reached
<1>8. CASE Updates!Started /\ app' = "up" /\ UNCHANGED status /\ (Updates!Goes(u, "finishing") \/ Updates!Goes(u, "installed"))
  <2>1. PICK stage \in {"finishing", "installed"} : Updates!Goes(u, stage)
    BY <1>8
  <2>2. running' = modules
    BY <1>8 DEF Updates!Started
  <2>3. ~mixed => running' = "new"
    BY <1>1, <2>2 DEF Updates!Whole
  <2>4. mixed \/ Reached(u, stage)'
    BY <1>1, <1>2, <1>5, <2>1, <2>3 DEF Reached
  <2> QED
    BY <1>1, <1>2, <1>4, <1>8, <2>1, <2>4, GoesOn DEF Stages, Works, Updates!Ends
<1>9. CASE Updates!Finish(u) /\ status' = "installed" /\ Updates!Goes(u, "installed")
  <2>1. script[u] = "finishing" /\ running' = running
    BY <1>9 DEF Updates!Finish, Updates!At
  <2>2. mixed \/ Reached(u, "installed")'
    BY <1>1, <1>2, <1>5, <2>1 DEF Reached
  <2> QED
    BY <1>2, <1>4, <1>9, <2>2, GoesOn DEF Stages, Works, Updates!Ends, Statuses
<1> QED
  BY <1>6, <1>7, <1>8, <1>9 DEF Updates!Restart, Updates!Start, Updates!Finish

\* The rollback copy takes the place of what is there.
LEMMA RestoreStep ==
  ASSUME UpdateInv, NEW u \in Updates!Scripts, Updates!Restore(u)
  PROVE  UpdateInv'
<1>1. /\ status \in Statuses /\ DirectoryTyped /\ next[u] \in 1 .. Paths + 1
      /\ ~mixed => Halfway(u)
  BY UpdateTypes DEF UpdateInv
<1>2. /\ script[u] = "restoring" /\ Updates!AtWork(u)
      /\ UNCHANGED <<latest, mixed, modules, app, running, offered, saved, manages, stopped, kills, checks>>
  BY DEF Updates!Restore, Updates!AtWork, Updates!At, Updates!Ends
<1>3. ASSUME NEW c \in Updates!Contents, next[u] <= Paths, files' = [files EXCEPT ![next[u]] = c]
      PROVE  DirectoryTyped' /\ files'[next[u]] = c /\ \A i \in 1 .. Paths : i # next[u] => files'[i] = files[i]
  <2>1. next[u] \in 1 .. Paths /\ files \in [1 .. Paths -> Updates!Contents]
    BY <1>1, <1>3 DEF DirectoryTyped
  <2> QED
    BY <1>1, <1>2, <1>3, <2>1 DEF DirectoryTyped
<1>4. CASE next[u] > Paths
  <2>1. Updates!Goes(u, "reviving") /\ UNCHANGED <<files, status>>
    BY <1>4 DEF Updates!Restore
  <2>2. DirectoryTyped'
    BY <1>1, <1>2, <2>1 DEF DirectoryTyped
  <2>3. ~mixed => files = saved[u]
    <3>1. SUFFICES ASSUME ~mixed
                   PROVE  files = saved[u]
      OBVIOUS
    <3>2. \A i \in 1 .. Paths : files[i] = saved[u][i]
      BY <1>1, <1>2, <1>4, <3>1 DEF Halfway, Updates!At
    <3> DEFINE copy == saved[u]
    <3>3. files = [i \in 1 .. Paths |-> files[i]] /\ copy = [i \in 1 .. Paths |-> copy[i]]
      BY <1>1 DEF DirectoryTyped
    <3>4. \A i \in 1 .. Paths : files[i] = copy[i]
      BY <3>2
    <3> HIDE DEF copy
    <3>5. files = copy
      BY ONLY <3>3, <3>4
    <3> QED
      BY <3>5 DEF copy
  <2>4. mixed \/ Reached(u, "reviving")'
    BY <1>2, <2>1, <2>3 DEF Reached
  <2> QED
    BY <1>1, <1>2, <2>1, <2>2, <2>4, GoesOn DEF Stages, Works
<1>5. CASE next[u] <= Paths /\ Updates!Fails(u)
  <2>1. PICK c \in {"none", saved[u][next[u]]} : files' = [files EXCEPT ![next[u]] = c]
    BY <1>1, <1>5 DEF Updates!Restore
  <2>2. c \in Updates!Contents
    <3>1. next[u] \in 1 .. Paths
      BY <1>1, <1>5
    <3> QED
      BY <1>1, <2>1, <3>1 DEF Updates!Contents, DirectoryTyped
  <2>3. DirectoryTyped'
    BY <1>3, <1>5, <2>1, <2>2
  <2> QED
    BY <1>2, <1>5, <2>3, Throws
<1>6. CASE next[u] <= Paths /\ Updates!Steps(u) /\ files' = [files EXCEPT ![next[u]] = saved[u][next[u]]] /\ UNCHANGED status
  <2>1. saved[u][next[u]] \in Updates!Contents
    <3>1. next[u] \in 1 .. Paths
      BY <1>1, <1>6
    <3> QED
      BY <1>1, <3>1 DEF DirectoryTyped
  <2>2. /\ DirectoryTyped' /\ files'[next[u]] = saved[u][next[u]]
        /\ \A i \in 1 .. Paths : i # next[u] => files'[i] = files[i]
    BY <1>3, <1>6, <2>1
  <2>3. next'[u] = next[u] + 1 /\ script' = script
    BY <1>6, UpdateTypes DEF Updates!Steps, UpdateInv
  <2>4. Reached(u, script[u])'
    BY <1>2, <2>3 DEF Reached
  <2>5. mixed \/ Halfway(u)'
    <3>1. SUFFICES ASSUME ~mixed, NEW i \in 1 .. Paths, i < next'[u]
                   PROVE  files'[i] = saved[u][i]
      BY <1>2, <2>3 DEF Halfway, Updates!At
    <3>2. i < next[u] \/ i = next[u]
      BY <1>1, <2>3, <3>1
    <3>3. i < next[u] => files[i] = saved[u][i]
      BY <1>1, <1>2, <3>1 DEF Halfway, Updates!At
    <3> QED
      BY <2>2, <3>2, <3>3
  <2> QED
    BY <1>2, <1>6, <2>2, <2>4, <2>5, StepsOn
<1>7. next[u] > Paths \/ next[u] <= Paths
  BY <1>1
<1> QED
  BY <1>4, <1>5, <1>6, <1>7 DEF Updates!Restore

\* The previous release starts again, or does not.
LEMMA ReviveStep ==
  ASSUME UpdateInv, NEW u \in Updates!Scripts, Updates!Revive(u)
  PROVE  UpdateInv'
<1>1. /\ status \in Statuses /\ DirectoryTyped
      /\ ~mixed => files = saved[u]
  BY UpdateTypes DEF UpdateInv, Updates!Revive, Reached, Updates!At
<1>2. /\ Updates!AtWork(u)
      /\ UNCHANGED <<latest, mixed, files, offered, saved, manages, stopped, kills, checks>>
  BY DEF Updates!Revive, Updates!AtWork, Updates!At, Updates!Ends
<1>3. modules' \in Updates!Contents /\ running' \in {running, modules'} /\ app' \in {app, "up"}
  BY LockedIsContent DEF Updates!Revive, Updates!Contents
<1>4. DirectoryTyped'
  BY <1>1, <1>2, <1>3 DEF DirectoryTyped
<1>5. Updates!Goes(u, "restored") /\ status' \in Statuses
  BY <1>1 DEF Updates!Revive, Updates!Tells, Statuses
<1>6. mixed \/ Reached(u, "restored")'
  BY <1>1, <1>2 DEF Reached
<1> QED
  BY <1>2, <1>4, <1>5, <1>6, GoesOn DEF Stages, Updates!Ends

\* What a script says at its end holds of the directory, as long as no two have
\* worked at the same time.
THEOREM VerdictCorrect == FilesSpec => []VerdictTrue
<1>1. FilesInit => UpdateInv
  <2> SUFFICES ASSUME Updates!UpdateInit
               PROVE  UpdateInv
    BY DEF FilesInit
  <2>1. 0 \in 0 .. MaxKills /\ 0 \in 0 .. MaxChecks /\ 1 \in 1 .. Paths + 1
    OBVIOUS
  <2>2. DirectoryTyped /\ status \in Statuses
    BY <2>1 DEF Updates!UpdateInit, DirectoryTyped, Statuses, Updates!Of, Updates!Contents
  <2>3. Updates!UpdateTypeOK
    BY <2>1, <2>2, UpdateTypes DEF Updates!UpdateInit, Stages
  <2>4. \A u \in Updates!Scripts : script[u] = "none" /\ ~Updates!AtWork(u)
    BY DEF Updates!UpdateInit, Updates!AtWork
  <2> QED
    BY <2>3, <2>4 DEF UpdateInv, Alone, Reached, Halfway, Updates!At
<1>2. UpdateInv /\ [FilesNext]_<<sides, side>> => UpdateInv'
  <2>1. ASSUME UpdateInv, UNCHANGED update
        PROVE  UpdateInv'
    <3>1. Updates!UpdateTypeOK'
      BY <2>1 DEF update, UpdateInv, Updates!UpdateTypeOK
    <3>2. Updates!Whole("new")' = Updates!Whole("new")
      BY <2>1 DEF update, Updates!Whole
    <3> QED
      BY <2>1, <3>1, <3>2 DEF update, UpdateInv, Alone, Reached, Halfway, Updates!At, Updates!AtWork
  <2>2. ASSUME UpdateInv, Updates!UpdateNext
        PROVE  UpdateInv'
    BY <2>2, ApplicationSteps, BeginningSteps, PreparingSteps, CopyStep, DependStep, StartingSteps, RestoreStep, ReviveStep
       DEF Updates!UpdateNext, Updates!Scripts
  <2>3. [FilesNext]_<<sides, side>> => Updates!UpdateNext \/ UNCHANGED update
    BY DEF FilesNext, sides
  <2> QED
    BY <2>1, <2>2, <2>3
<1>3. UpdateInv => VerdictTrue
  BY DEF UpdateInv, Reached, VerdictTrue, Updates!VerdictTrue, Updates!At
<1> QED
  BY <1>1, <1>2, <1>3, PTL DEF FilesSpec
=============================================================================
