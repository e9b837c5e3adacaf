------------------------------- MODULE Catalog -------------------------------
(***************************************************************************)
(* The connections, schedules and recovery plans that refer to each other  *)
(* with no foreign keys: what backup/backup.service.ts and                 *)
(* recovery/recovery.service.ts check before one is saved, deleted or      *)
(* used, while work, restore tests and rehearsals go on.                   *)
(*                                                                         *)
(* A schedule's destinations go the way of its sources; engines and source *)
(* groups, which Execution has, are left out.  Rehearsals follows the      *)
(* databases of a test or a rehearsal, here they only last.                *)
(***************************************************************************)
EXTENDS Naturals, Sequences, FiniteSets, FiniteSetsExt

CONSTANTS
  Connections, Jobs, Plans,
  Runs,        \* in the order of time, 1 .. n
  Gone,
  Hosts,       \* as people type them
  Loopback,    \* those that name the machine itself
  MaxSaves,    \* bound on what is saved or deleted
  MaxTests,
  MaxStops     \* bound on what is cancelled and on stops of the process

VARIABLES
  conn,        \* Gone, or purpose and host
  job,         \* row, links and what a link falls back to; saved is history
  plan,        \* Gone, or schedule and destination
  active,      \* pairs that are queued, waiting or running, or stopping once they are cancelled
  run,         \* Gone, or the run of a schedule and a source
  waiting,     \* tests that ask the storage for the artifact
  tests,       \* rows of recovery_tests in the order of their start
  restored,    \* history: runs a test has restored
  rehearsal,   \* of an artifact, by destination
  saves, stops

records == <<conn, job, plan>>
work == <<active, run>>
trials == <<waiting, tests, restored, rehearsal>>
catalogVars == <<records, work, trials, saves, stops>>

\* A run that failed before there were executions, of which the schedule may be gone.
Historical(old) == [job |-> old[1], source |-> old[2], status |-> "failed", pair |-> FALSE]

CatalogInit ==
  /\ conn = [c \in Connections |-> Gone]
  /\ job = [j \in Jobs |-> [row |-> FALSE, links |-> {}, first |-> Gone, saved |-> {}]]
  /\ plan = [p \in Plans |-> Gone]
  /\ active = {} /\ \E old \in {<<>>} \cup (Jobs \X Connections) : run = [r \in Runs |-> IF r = 1 /\ old # <<>> THEN Historical(old) ELSE Gone]
  /\ waiting = {} /\ tests = <<>> /\ restored = {}
  /\ rehearsal = [c \in Connections |-> Gone]
  /\ saves = 0 /\ stops = 0

Saves == saves < MaxSaves /\ saves' = saves + 1

Has(c, purpose) == conn[c] # Gone /\ conn[c].purpose = purpose
InUse(c) == \E a \in active : a.source = c /\ ~a.stopping
Rehearsing(c) == rehearsal[c] # Gone

-----------------------------------------------------------------------------
(* Connections *)

\* saveConnection(): any id a client sends, unless it is a recovery server's, and no
\* other server under work that is not cancelled.
SaveConnection(c, h) ==
  /\ Saves /\ ~Has(c, "recovery")
  /\ conn[c] # Gone /\ conn[c].host # h => ~InUse(c)
  /\ conn' = [conn EXCEPT ![c] = [purpose |-> "backup", host |-> h]]
  /\ UNCHANGED <<job, plan, work, trials, stops>>

\* deleteConnection(): whatever refers to it.
DeleteConnection(c) ==
  /\ Saves /\ Has(c, "backup")
  /\ conn' = [conn EXCEPT ![c] = Gone]
  /\ UNCHANGED <<job, plan, work, trials, stops>>

SaveRecoveryConnection(c, h) ==
  /\ Saves /\ ~Rehearsing(c) /\ ~Has(c, "backup")
  /\ conn' = [conn EXCEPT ![c] = [purpose |-> "recovery", host |-> h]]
  /\ UNCHANGED <<job, plan, work, trials, stops>>

\* With a bug: a plan is not asked for.
DeleteRecoveryUsed(c) ==
  /\ Saves /\ Has(c, "recovery") /\ ~Rehearsing(c)
  /\ conn' = [conn EXCEPT ![c] = Gone]
  /\ UNCHANGED <<job, plan, work, trials, stops>>

DeleteRecoveryConnection(c) ==
  /\ Saves /\ Has(c, "recovery") /\ ~Rehearsing(c)
  /\ \A p \in Plans : plan[p] # Gone => plan[p].destination # c
  /\ conn' = [conn EXCEPT ![c] = Gone]
  /\ UNCHANGED <<job, plan, work, trials, stops>>

-----------------------------------------------------------------------------
(* Schedules *)

\* jobConnectionLinks(): the links, or else the columns of the row.
Sources(j) == IF job[j].links # {} THEN job[j].links ELSE {job[j].first}

\* saveJobV2(), in a transaction.
SaveJob(j, cs) ==
  /\ Saves /\ cs # {} /\ \A c \in cs : Has(c, "backup")
  /\ \E f \in cs : job' = [job EXCEPT ![j] = [row |-> TRUE, links |-> cs, first |-> f, saved |-> cs]]
  /\ UNCHANGED <<conn, plan, work, trials, stops>>

\* The process ends.  Tests that were running are left as they are.
Stopped ==
  /\ stops < MaxStops /\ stops' = stops + 1
  /\ waiting' = {} /\ rehearsal' = [c \in Connections |-> Gone]
  /\ tests' = [i \in DOMAIN tests |-> [tests[i] EXCEPT !.status = IF @ = "running" THEN "left" ELSE @]]
  /\ UNCHANGED restored

\* deleteJob(): three statements, after each of which the process may stop.
DeleteJob(j) ==
  /\ Saves /\ job[j].row
  /\ \/ /\ job' = [job EXCEPT ![j] = [row |-> FALSE, links |-> {}, first |-> Gone, saved |-> {}]]
        /\ UNCHANGED <<trials, stops>>
     \/ job' = [job EXCEPT ![j].links = {}] /\ Stopped
  /\ UNCHANGED <<conn, plan, work>>

Pair(j, c) == [job |-> j, source |-> c, stopping |-> FALSE]

\* enqueue(), of a schedule whose sources may be gone.
Enqueue(j) ==
  /\ job[j].row /\ \A a \in active : a.job # j
  /\ active' = {Pair(j, c) : c \in Sources(j)} \cup active
  /\ UNCHANGED <<records, run, trials, saves, stops>>

\* A pair of a source that is gone fails, as any may, with or without a run.
Work(a) ==
  /\ active' = active \ {a}
  /\ \/ UNCHANGED run
     \/ \E r \in Runs, s \in {"success", "failed"} :
          /\ run[r] = Gone /\ \A q \in Runs : q < r => run[q] # Gone
          /\ s = "success" => conn[a.source] # Gone
          /\ run' = [run EXCEPT ![r] = [job |-> a.job, source |-> a.source, status |-> s, pair |-> TRUE]]
  /\ UNCHANGED <<records, trials, saves, stops>>

\* cancel(): a worker goes on until it notices.
Cancel(a) ==
  /\ stops < MaxStops /\ stops' = stops + 1
  /\ active' = (active \ {a}) \cup {[a EXCEPT !.stopping = TRUE]}
  /\ UNCHANGED <<records, run, trials, saves>>

\* retryRun(): the coordinator retries a pair, whatever has become of its schedule.
RetryRun(r) ==
  /\ run[r] # Gone /\ run[r].status = "failed" /\ run[r].pair
  /\ active' = active \cup {Pair(run[r].job, run[r].source)}
  /\ UNCHANGED <<records, run, trials, saves, stops>>

\* retryHistoricalRun(): the schedule is there, or there again.
RetryHistoricalRun(r) ==
  /\ run[r] # Gone /\ run[r].status = "failed" /\ ~run[r].pair /\ job[run[r].job].row
  /\ active' = active \cup {Pair(run[r].job, run[r].source)}
  /\ UNCHANGED <<records, run, trials, saves, stops>>

\* Its artifact is removed by retention, or found to be missing.
Expire(r) ==
  /\ run[r] # Gone /\ run[r].status = "success"
  /\ run' = [run EXCEPT ![r].status = "expired"]
  /\ UNCHANGED <<records, active, trials, saves, stops>>

-----------------------------------------------------------------------------
(* Plans, tests and rehearsals *)

SavePlan(p, j, c) ==
  /\ Saves /\ job[j].row /\ Has(c, "recovery")
  /\ plan' = [plan EXCEPT ![p] = [job |-> j, destination |-> c]]
  /\ UNCHANGED <<conn, job, work, trials, stops>>

\* deletePlan(): the rows of its tests stay, and a test goes on.
DeletePlan(p) ==
  /\ Saves /\ plan[p] # Gone /\ plan' = [plan EXCEPT ![p] = Gone]
  /\ UNCHANGED <<conn, job, work, trials, stops>>

\* What the rows call running.
Unfinished == {"running", "left"}

Server(h) == IF h \in Loopback THEN "loopback" ELSE h

\* assertRecoveryDestination(): against the source as it is now.
Apart(s, d) == conn[s] # Gone /\ Has(d, "recovery") /\ s # d /\ Server(conn[s].host) # Server(conn[d].host)

Successes(j) == {r \in Runs : run[r] # Gone /\ run[r].job = j /\ run[r].status = "success"}

\* runTest(): judged, and then the storage is asked.
AskTest(p) ==
  /\ plan[p] # Gone /\ Successes(plan[p].job) # {} /\ Len(tests) + Cardinality(waiting) < MaxTests
  /\ \A i \in DOMAIN tests : ~(tests[i].plan = p /\ tests[i].status \in Unfinished)
  /\ LET r == Max(Successes(plan[p].job)) IN
       /\ Apart(run[r].source, plan[p].destination)
       /\ waiting' = waiting \cup {[plan |-> p, run |-> r, destination |-> plan[p].destination]}
  /\ UNCHANGED <<records, work, tests, restored, rehearsal, saves, stops>>

\* The row is inserted, whatever has become of the plan.  No destination: it fails.
Answered(w) ==
  /\ waiting' = waiting \ {w}
  /\ \/ UNCHANGED tests
     \/ tests' = Append(tests, [plan |-> w.plan, run |-> w.run, status |-> IF conn[w.destination] = Gone THEN "failed" ELSE "running"])
  /\ UNCHANGED <<records, work, restored, rehearsal, saves, stops>>

\* A row that was left by a process is failed by runDue(), hours later.
EndTest(i) ==
  /\ tests[i].status \in Unfinished
  /\ \/ tests' = [tests EXCEPT ![i].status = "failed"] /\ UNCHANGED restored
     \/ /\ tests[i].status = "running"
        /\ tests' = [tests EXCEPT ![i].status = "passed"] /\ restored' = restored \cup {tests[i].run}
  /\ UNCHANGED <<records, work, waiting, rehearsal, saves, stops>>

\* rehearseArtifact(), whose worker reads the destination before anything else can
\* happen.
StartRehearsal(r, d) ==
  /\ run[r] # Gone /\ run[r].status = "success" /\ Apart(run[r].source, d) /\ ~Rehearsing(d)
  /\ rehearsal' = [rehearsal EXCEPT ![d] = [source |-> conn[run[r].source].host, host |-> conn[d].host]]
  /\ UNCHANGED <<records, work, waiting, tests, restored, saves, stops>>

EndRehearsal(d) ==
  /\ Rehearsing(d) /\ rehearsal' = [rehearsal EXCEPT ![d] = Gone]
  /\ UNCHANGED <<records, work, waiting, tests, restored, saves, stops>>

\* onApplicationBootstrap() says that rehearsals were interrupted.
Stop == Stopped /\ UNCHANGED <<records, work, saves>>

CatalogNext ==
  \/ \E c \in Connections, h \in Hosts : SaveConnection(c, h) \/ SaveRecoveryConnection(c, h)
  \/ \E c \in Connections : DeleteConnection(c) \/ DeleteRecoveryConnection(c) \/ EndRehearsal(c)
  \/ \E j \in Jobs : DeleteJob(j) \/ Enqueue(j) \/ \E cs \in SUBSET Connections : SaveJob(j, cs)
  \/ \E a \in active : Work(a) \/ Cancel(a)
  \/ \E p \in Plans : DeletePlan(p) \/ AskTest(p) \/ \E j \in Jobs, c \in Connections : SavePlan(p, j, c)
  \/ \E w \in waiting : Answered(w)
  \/ \E i \in DOMAIN tests : EndTest(i)
  \/ \E r \in Runs : Expire(r) \/ RetryRun(r) \/ RetryHistoricalRun(r) \/ \E d \in Connections : StartRehearsal(r, d)
  \/ Stop

CatalogSpec == CatalogInit /\ [][CatalogNext]_catalogVars

-----------------------------------------------------------------------------
(* policy(), what is said of the recovery points of a schedule *)

\* By source, the newest success there is.
Points(j) == {r \in Successes(j) : \A q \in Successes(j) : run[q].source = run[r].source => q <= r}

\* The tests of this run by plans that are for the schedule now; the last one counts.
TestsOf(j, r) == {i \in DOMAIN tests : tests[i].run = r /\ plan[tests[i].plan] # Gone /\ plan[tests[i].plan].job = j}
Proven(j, r) == TestsOf(j, r) # {} /\ tests[Max(TestsOf(j, r))].status = "passed"

-----------------------------------------------------------------------------
(* Properties *)

\* The destination of a plan is there and is a recovery server, whatever is saved,
\* deleted and saved again under the same id.
PlanKeepsDestination == \A p \in Plans : plan[p] # Gone => Has(plan[p].destination, "recovery")

\* While an artifact is rehearsed the destination stays what it was at the start, when
\* it was another machine than the source, however their hosts are written.
DestinationHeld ==
  \A d \in Connections : Rehearsing(d) =>
    /\ Has(d, "recovery") /\ conn[d].host = rehearsal[d].host
    /\ rehearsal[d].host # rehearsal[d].source
    /\ ~{rehearsal[d].host, rehearsal[d].source} \subseteq Loopback

\* A schedule that is still there has sources, and none it was not saved with.
JobKeepsSources == \A j \in Jobs : job[j].row => Sources(j) # {} /\ Sources(j) \subseteq job[j].saved

\* A recovery point that is called proven has itself been restored.
ProvenIsRestored == \A j \in Jobs : \A r \in Points(j) : Proven(j, r) => r \in restored

CatalogAgrees == PlanKeepsDestination /\ DestinationHeld /\ JobKeepsSources /\ ProvenIsRestored
==============================================================================
