----------------------------- MODULE Rehearsals -----------------------------
(***************************************************************************)
(* Restores into scratch databases of a recovery server: the tests of a    *)
(* recovery plan (recovery.service.ts, runTest), rehearsals of an artifact *)
(* (rehearseArtifact) and point-in-time rehearsals (performPitrRehearsal). *)
(* Each is a worker between two writes of a row: it looks for its names on *)
(* the server, creates the databases one by one, restores, verifies and    *)
(* drops what it created.                                                  *)
(***************************************************************************)
EXTENDS Naturals, FiniteSets

CONSTANTS
  Tests,        \* recovery tests, all of one plan
  Artifacts,    \* artifact rehearsals, all on one recovery connection
  Pitrs,        \* point-in-time rehearsals
  Parts,        \* databases of an artifact or a baseline; a test restores one
  MaxForeign,   \* bound: databases that others create under a scratch name
  MaxStops      \* bound: crashes and orderly stops

VARIABLES
  row,          \* per rehearsal: its status and the databases its row tells of
  worker,       \* per rehearsal: where the handler is and what it has created
  server,       \* databases of the recovery server: <<name, who created it>>
  service,      \* up, closing or down
  stops

rehearsalVars == <<row, worker, server, service, stops>>

Rehearsals == Tests \cup Artifacts \cup Pitrs
NamesOf(r) == {r} \X (1..(IF r \in Tests THEN 1 ELSE Parts))
Names == UNION {NamesOf(r) : r \in Rehearsals}
None == [stage |-> "none", made |-> {}, failed |-> FALSE, warned |-> FALSE]

RehearsalTypeOK ==
  /\ row \in [Rehearsals -> [status : {"none", "running", "passed", "warning", "failed", "interrupted"}, told : SUBSET Names]]
  /\ worker \in [Rehearsals -> [stage : {"none", "asking", "preparing", "creating", "restoring", "cleaning"},
                                made : SUBSET Names, failed : BOOLEAN, warned : BOOLEAN]]
  /\ server \subseteq Names \X {"ours", "theirs"} /\ service \in {"up", "closing", "down"} /\ stops \in 0..MaxStops

RehearsalInit ==
  /\ row = [r \in Rehearsals |-> [status |-> "none", told |-> {}]]
  /\ worker = [r \in Rehearsals |-> None]
  /\ server = {} /\ service = "up" /\ stops = 0

-----------------------------------------------------------------------------

OnServer(n) == \E who \in {"ours", "theirs"} : <<n, who>> \in server
Running(r) == row[r].status = "running"
Goes(r, stage) == worker' = [worker EXCEPT ![r].stage = stage]
Fails(r) == worker' = [worker EXCEPT ![r].stage = "cleaning", ![r].failed = TRUE]

\* runTest() before isAvailable() is awaited: no test of the plan is running.
AskTest(t) ==
  /\ service # "down" /\ worker[t].stage = "none" /\ row[t].status = "none"
  /\ \A u \in Tests : ~Running(u)
  /\ Goes(t, "asking")
  /\ UNCHANGED <<row, server, service, stops>>

\* The artifact is there, and the row is inserted, or it is not.
InsertTest(t) ==
  /\ worker[t].stage = "asking"
  /\ \/ /\ row' = [row EXCEPT ![t] = [status |-> "running", told |-> NamesOf(t)]]
        /\ Goes(t, "preparing")
     \/ Goes(t, "none") /\ UNCHANGED row
  /\ UNCHANGED <<server, service, stops>>

\* rehearseArtifact(): one at a time on a recovery connection.
StartArtifact(a) ==
  /\ service = "up" /\ row[a].status = "none"
  /\ \A b \in Artifacts : ~Running(b)
  /\ row' = [row EXCEPT ![a].status = "running"]
  /\ Goes(a, "preparing")
  /\ UNCHANGED <<server, service, stops>>

\* startPitrRehearsal(): the generated names are in the row before any await.
StartPitr(p) ==
  /\ service # "down" /\ row[p].status = "none"
  /\ row' = [row EXCEPT ![p] = [status |-> "running", told |-> NamesOf(p)]]
  /\ Goes(p, "preparing")
  /\ UNCHANGED <<server, service, stops>>

FirstOf(names) == CHOOSE n \in names : \A m \in names : n[2] <= m[2]

\* With a bug: what has been created is written, and not what is about to be.
ToldAfter(r, made) == row[r].told \cup made

\* An artifact rehearsal writes the name that it creates next.
Told(r, made) ==
  IF r \in Artifacts /\ made # NamesOf(r) THEN row[r].told \cup {FirstOf(NamesOf(r) \ made)} ELSE row[r].told

Create(r, made) ==
  /\ row' = [row EXCEPT ![r].told = Told(r, made)]
  /\ worker' = [worker EXCEPT ![r].stage = IF made = NamesOf(r) THEN "restoring" ELSE "creating", ![r].made = made]

\* Download, checks and validation fail, or the server's databases are listed
\* and none has a scratch name.
Prepare(r) ==
  /\ worker[r].stage = "preparing"
  /\ \/ Fails(r) /\ UNCHANGED row
     \/ (\A n \in NamesOf(r) : ~OnServer(n)) /\ Create(r, {})
  /\ UNCHANGED <<server, service, stops>>

\* CREATE DATABASE refuses a name that exists.
Created(r, n) ==
  /\ ~OnServer(n)
  /\ server' = server \cup {<<n, "ours">>}
  /\ Create(r, worker[r].made \cup {n})

\* It succeeds, it fails, or its answer is lost.
CreateNext(r) ==
  /\ worker[r].stage = "creating"
  /\ \E n \in {FirstOf(NamesOf(r) \ worker[r].made)} :
       \/ Created(r, n)
       \/ Fails(r) /\ UNCHANGED <<row, server>>
       \/ ~OnServer(n) /\ server' = server \cup {<<n, "ours">>} /\ Fails(r) /\ UNCHANGED row
  /\ UNCHANGED <<service, stops>>

\* The SQL is restored and the objects are verified, or that fails.
Restore(r) ==
  /\ worker[r].stage = "restoring"
  /\ Fails(r) \/ Goes(r, "cleaning")
  /\ UNCHANGED <<row, server, service, stops>>

\* DROP DATABASE, the last one first; it may fail, and it may have succeeded then.
Drop(r) ==
  /\ worker[r].stage = "cleaning" /\ worker[r].made # {}
  /\ \E n \in worker[r].made, dropped \in BOOLEAN, error \in BOOLEAN :
       /\ \A m \in worker[r].made : m[2] <= n[2]
       /\ dropped \/ error
       /\ server' = IF dropped THEN server \ {<<n, who>> : who \in {"ours", "theirs"}} ELSE server
       /\ worker' = [worker EXCEPT ![r].made = @ \ {n}, ![r].warned = @ \/ error]
  /\ UNCHANGED <<row, service, stops>>

\* With a bug: a verified restore has passed, whatever its cleanup says.
OutcomeUnlessFailed(r) == IF worker[r].failed THEN "failed" ELSE "passed"

Outcome(r) == IF worker[r].failed THEN "failed" ELSE IF worker[r].warned THEN "warning" ELSE "passed"

Finish(r) ==
  /\ worker[r].stage = "cleaning" /\ worker[r].made = {}
  /\ row' = [row EXCEPT ![r].status = Outcome(r)]
  /\ worker' = [worker EXCEPT ![r] = None]
  /\ UNCHANGED <<server, service, stops>>

\* runDue(): a test that runs for six hours is given up; its worker may live.
GiveUp(t) ==
  /\ service = "up" /\ Running(t)
  /\ row' = [row EXCEPT ![t].status = "failed"]
  /\ UNCHANGED <<worker, server, service, stops>>

\* Somebody else creates a database of that name.
Intrude(n) ==
  /\ ~OnServer(n) /\ Cardinality({d \in server : d[2] = "theirs"}) < MaxForeign
  /\ server' = server \cup {<<n, "theirs">>}
  /\ UNCHANGED <<row, worker, service, stops>>

-----------------------------------------------------------------------------
\* The process.  An orderly stop waits for artifact rehearsals only.

Close ==
  /\ service = "up" /\ stops < MaxStops
  /\ service' = "closing" /\ stops' = stops + 1
  /\ UNCHANGED <<row, worker, server>>

Vanish == service' = "down" /\ worker' = [r \in Rehearsals |-> None] /\ UNCHANGED <<row, server>>

Exit ==
  /\ service = "closing" /\ \A a \in Artifacts : worker[a].stage = "none"
  /\ Vanish /\ UNCHANGED stops

Crash ==
  /\ service # "down" /\ stops < MaxStops
  /\ Vanish /\ stops' = stops + 1

\* With a bug: rows of a process that is gone are left as they are.
BootOnly ==
  /\ service = "down" /\ service' = "up"
  /\ UNCHANGED <<row, worker, server, stops>>

\* onApplicationBootstrap(): artifact rehearsals that ran are interrupted.
Boot ==
  /\ service = "down" /\ service' = "up"
  /\ row' = [r \in Rehearsals |-> IF r \in Artifacts /\ Running(r) THEN [row[r] EXCEPT !.status = "interrupted"] ELSE row[r]]
  /\ UNCHANGED <<worker, server, stops>>

Step(r) == Prepare(r) \/ CreateNext(r) \/ Restore(r) \/ Drop(r) \/ Finish(r)

RehearsalNext ==
  \/ Close \/ Exit \/ Crash \/ Boot
  \/ \E t \in Tests : AskTest(t) \/ InsertTest(t) \/ GiveUp(t)
  \/ \E a \in Artifacts : StartArtifact(a)
  \/ \E p \in Pitrs : StartPitr(p)
  \/ \E r \in Rehearsals : Step(r)
  \/ \E n \in Names : Intrude(n)

\* Database clients end, the minute's cron runs, a supervisor starts the process.
RehearsalFairness ==
  /\ WF_rehearsalVars(Exit) /\ WF_rehearsalVars(Boot)
  /\ \A r \in Rehearsals : WF_rehearsalVars(Step(r))
  /\ \A t \in Tests : WF_rehearsalVars(GiveUp(t))

RehearsalSpec == RehearsalInit /\ [][RehearsalNext]_rehearsalVars /\ RehearsalFairness

-----------------------------------------------------------------------------
\* Whatever crash, lost answer or failing cleanup leaves at the recovery server,
\* a row tells its name; and a rehearsal that passed has left nothing.
EvidenceTrue ==
  \A r \in Rehearsals :
    LET left == {n \in NamesOf(r) : <<n, "ours">> \in server} IN
    /\ left \subseteq row[r].told
    /\ row[r].status = "passed" => left = {}

\* In the end no test and no artifact rehearsal says running, also across crashes.
RehearsalsEnd == <>[](\A r \in Tests \cup Artifacts : ~Running(r))

\* recovery.service.ts:134, "A recovery test is already running for this plan":
\* a plan has one running test at most.
OneTestPerPlan == Cardinality({t \in Tests : Running(t)}) <= 1
=============================================================================
