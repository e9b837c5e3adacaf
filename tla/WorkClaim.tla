------------------------------ MODULE WorkClaim ------------------------------
(***************************************************************************)
(* acquireWorkClaim() and releaseWorkClaim() of backup.service.ts: a file  *)
(* that names the process in which a capture of one source runs.  Several  *)
(* instances of the service share a process, and a process that starts     *)
(* again may have a number that was in use before.                         *)
(***************************************************************************)
EXTENDS Naturals, FiniteSets

CONSTANTS
  Captures,   \* calls of capturePitr, each with its token
  Instances,  \* instances of the service in one process
  Numbers,    \* process numbers
  Nothing     \* no claim file, or no capture

VARIABLES
  claim,    \* the claim file: absent, created and empty, or its token and process
  token,    \* per instance: workClaimTokens
  number,   \* number of the process, or Nothing when it does not run
  others,   \* numbers of other processes
  done      \* captures that are over

claimVars == <<claim, token, number, others, done>>

Claims == [by : Captures, process : Numbers]
Blank == [by |-> Nothing, process |-> Nothing]

ClaimTypeOK ==
  /\ claim \in {Nothing, Blank} \cup Claims
  /\ token \in [Instances -> Captures \cup {Nothing}]
  /\ number \in Numbers \cup {Nothing} /\ others \subseteq Numbers
  /\ done \subseteq Captures

ClaimInit ==
  /\ claim = Nothing /\ token = [s \in Instances |-> Nothing]
  /\ number \in Numbers /\ others = {} /\ done = {}

\* Mutant of Alive: a number that is our own must be left from before.
AliveElsewhere(p) == p \in others

\* process.kill(p, 0) succeeds, or may not be tried.
Alive(p) == p \in others \cup {number}

\* A claim whose process is gone is removed, and so is one that names none.
Free == claim \in {Nothing, Blank} \cup {c \in Claims : ~Alive(c.process)}

Fresh(c) == c \notin done /\ \A s \in Instances : token[s] # c

\* The file is created, written, and the row inserted; or the call is refused.
Acquire(s, c) ==
  /\ number # Nothing /\ Fresh(c)
  /\ IF token[s] = Nothing /\ Free
     THEN /\ claim' = [by |-> c, process |-> number]
          /\ token' = [token EXCEPT ![s] = c] /\ UNCHANGED done
     ELSE done' = done \cup {c} /\ UNCHANGED <<claim, token>>
  /\ UNCHANGED <<number, others>>

\* The row cannot be inserted: the file is removed, if that succeeds.
AcquireFails(s, c) ==
  /\ number # Nothing /\ Fresh(c) /\ token[s] = Nothing /\ Free
  /\ claim' \in {Nothing, [by |-> c, process |-> number]}
  /\ done' = done \cup {c}
  /\ UNCHANGED <<token, number, others>>

Removed(c) == IF \E p \in Numbers : claim = [by |-> c, process |-> p] THEN Nothing ELSE claim

\* finally of capturePitr().
Release(s) ==
  /\ token[s] # Nothing
  /\ claim' = Removed(token[s])
  /\ done' = done \cup {token[s]} /\ token' = [token EXCEPT ![s] = Nothing]
  /\ UNCHANGED <<number, others>>

\* The process ends; where it was in acquireWorkClaim() it leaves what it had
\* written.
Crash ==
  /\ number # Nothing /\ number' = Nothing
  /\ \/ UNCHANGED <<claim, done>>
     \/ \E c \in Captures :
          /\ Fresh(c) /\ Free
          /\ claim' \in {Nothing, Blank, [by |-> c, process |-> number]} /\ done' = done \cup {c}
  /\ token' = [s \in Instances |-> Nothing]
  /\ UNCHANGED others

Boot ==
  /\ number = Nothing /\ number' \in Numbers \ others
  /\ UNCHANGED <<claim, token, others, done>>

\* Another program starts or ends.
Elsewhere ==
  /\ \E p \in Numbers \ {number} : others' = (others \ {p}) \cup ({p} \ others)
  /\ UNCHANGED <<claim, token, number, done>>

ClaimNext ==
  \/ Crash \/ Boot \/ Elsewhere
  \/ \E s \in Instances : Release(s) \/ \E c \in Captures : Acquire(s, c) \/ AcquireFails(s, c)

-----------------------------------------------------------------------------
\* One capture of a source at a time, whatever instance of the service it runs
\* in and whatever a dead process has left; and the claim is its own.
OneHolder ==
  /\ \A s, t \in Instances : token[s] # Nothing /\ token[t] # Nothing => s = t
  /\ \A s \in Instances : token[s] # Nothing => claim = [by |-> token[s], process |-> number]
=============================================================================
