------------------------------ MODULE Schedule ------------------------------
(***************************************************************************)
(* Schedules: how the occurrences of a cron expression become executions.  *)
(*                                                                         *)
(* A timer calls ExecutionService.runDue() every minute, and bootstrap     *)
(* calls it once with startup = true.  It reads the schedules that are     *)
(* due, and for each of them, in a transaction of its own, it enqueues one *)
(* execution for all the occurrences up to now, or records that they were  *)
(* skipped, and moves next_run_at beyond now.  An administrator saves      *)
(* schedules in between, executions end, writes fail, the process dies.    *)
(*                                                                         *)
(* Time is counted in ticks, and a cron expression is the set of the ticks *)
(* at which it occurs.  What happens to an execution once it is enqueued   *)
(* is the module Execution's part: here it is active until it ends.        *)
(***************************************************************************)
EXTENDS Integers, Sequences, FiniteSets

CONSTANTS Jobs,        \* schedules
          Crons,       \* cron expressions, each the set of its ticks
          Policies,    \* overlap policies an administrator gives a schedule
          MaxCount,    \* occurrences that runDue() enumerates (10000)
          Horizon,     \* bound on the clock
          MaxEvents,   \* bound on the events below that nothing else bounds:
                       \* manual starts, saves, crashes, failing writes, and
                       \* corrections of the clock, all together
          None

Time == 0..Horizon

ASSUME ScheduleAssumption ==
  /\ Policies \in [Jobs -> SUBSET {"skip", "queue"}]
  /\ \A c \in Crons : c \subseteq Nat /\ \A t \in Time : \E o \in c : o > t
  /\ {MaxCount, Horizon, MaxEvents} \subseteq Nat
  /\ MaxCount > 1
  /\ None \notin Nat

VARIABLES clock,
          job,     \* rows of backup_jobs
          execs,   \* rows of backup_executions of each schedule, in their order
          skips,   \* the overlap_skipped events
          up,      \* "down", "up", or "stopped": the coordinator gave up
          sweep,   \* the call of runDue() under way: its now, the rows left
          events,  \* how many of the bounded events there have been
          backs,   \* history: how often the clock was set back
          since    \* history: the first occurrence a saved schedule answers for

scheduleVars == <<clock, job, execs, skips, up, sweep, events, backs, since>>

\* One of the bounded events happens.
Event == events < MaxEvents /\ events' = events + 1

-----------------------------------------------------------------------------
(* What runDue() computes *)

First(S) == CHOOSE x \in S : \A y \in S : x <= y
Last(S)  == CHOOSE x \in S : \A y \in S : x >= y

\* The occurrence that follows t.
nextCron(c, t) == First({o \in c : o > t})

\* The occurrences of schedule j that have become due.
Due(j, now) == {o \in job[j].cron : job[j].next <= o /\ o <= now}

\* Enumeration stops at MaxCount, with occurrences left.
IsBounded(j, now) == Cardinality(Due(j, now)) > MaxCount

Count(j, now) == IF IsBounded(j, now) THEN MaxCount ELSE Cardinality(Due(j, now))

LastDue(j, now) == IF IsBounded(j, now) THEN now ELSE Last(Due(j, now))

Active(j) == {i \in DOMAIN execs[j] : execs[j][i].active}

\* The executions of schedule j that were enqueued for occurrence t.
For(j, t) == {i \in DOMAIN execs[j] : execs[j][i].scheduledFor = t}

Execution(trigger, t) ==
  [trigger |-> trigger, scheduledFor |-> t, active |-> TRUE,
   missed |-> 0, from |-> None, to |-> None, bounded |-> FALSE]

\* Mutant of WithMissed: the occurrence of a scheduled execution is counted.
WithMissedAll(e, j, now, startup) ==
  LET several == startup \/ Count(j, now) > 1 IN
  [e EXCEPT !.missed = Count(j, now),
            !.from = IF several THEN job[j].next ELSE None,
            !.to = IF several THEN LastDue(j, now) ELSE None,
            !.bounded = @ \/ IsBounded(j, now)]

\* What the UPDATE after enqueue() adds to an execution.
WithMissed(e, j, now, startup) ==
  LET several == startup \/ Count(j, now) > 1 IN
  [e EXCEPT !.missed = IF startup THEN Count(j, now) ELSE Count(j, now) - 1,
            !.from = IF several THEN job[j].next ELSE None,
            !.to = IF several THEN LastDue(j, now) ELSE None,
            !.bounded = @ \/ IsBounded(j, now)]

\* enqueue() for the occurrence at next_run_at.  An occurrence that has an
\* execution already gets no other: that one is updated.
Enqueued(j, now, startup) ==
  LET old == For(j, job[j].next)
      fresh == Execution(IF startup THEN "catchup" ELSE "scheduled", job[j].next) IN
  IF old = {}
  THEN Append(execs[j], WithMissed(fresh, j, now, startup))
  ELSE [i \in DOMAIN execs[j] |-> IF i \in old THEN WithMissed(execs[j][i], j, now, startup) ELSE execs[j][i]]

-----------------------------------------------------------------------------
Sweep(startup, now, left) ==
  IF left = {} THEN [startup |-> FALSE, now |-> 0, left |-> {}]
               ELSE [startup |-> startup, now |-> now, left |-> left]

Idle == sweep.left = {}

\* The row of schedule j is done with.
After(j) == Sweep(sweep.startup, sweep.now, sweep.left \ {j})

\* Mutant of DueJobs: only what is due at this very minute.
DueJobsNow(now) == {j \in Jobs : job[j].enabled /\ job[j].next = now}

DueJobs(now) == {j \in Jobs : job[j].enabled /\ job[j].next <= now}

ScheduleInit ==
  /\ clock = 0
  /\ job \in [Jobs -> [enabled : {TRUE}, cron : Crons, policy : {"skip", "queue"}, next : Time]]
  /\ \A j \in Jobs : job[j].policy \in Policies[j] /\ job[j].next = nextCron(job[j].cron, 0)
  /\ execs = [j \in Jobs |-> <<>>]
  /\ skips = {}
  /\ up = "up"
  /\ sweep = Sweep(FALSE, 0, {})
  /\ events = 0 /\ backs = 0
  /\ since = [j \in Jobs |-> job[j].next]

Tick ==
  /\ clock < Horizon
  /\ clock' = clock + 1
  /\ UNCHANGED <<job, execs, skips, up, sweep, events, backs, since>>

\* The clock of the machine is corrected.
SetBack ==
  /\ clock > 0
  /\ Event
  /\ clock' = clock - 1
  /\ backs' = backs + 1
  /\ UNCHANGED <<job, execs, skips, up, sweep, since>>

\* The timer calls runDue(): now is read once, then the rows that are due.
\* A stopped coordinator returns at once.
RunDue ==
  /\ up = "up" /\ Idle
  /\ DueJobs(clock) # {}
  /\ sweep' = Sweep(FALSE, clock, DueJobs(clock))
  /\ UNCHANGED <<clock, job, execs, skips, up, events, backs, since>>

\* One row of the loop, in the order of next_run_at.
Current(j) == j \in sweep.left /\ \A k \in sweep.left : job[j].next <= job[k].next

Admitted(j) == Active(j) = {} \/ job[j].policy = "queue"

Skip(j, now) == [job |-> j, from |-> job[j].next, to |-> LastDue(j, now), count |-> Count(j, now)]

\* Mutant of HandleDue: next_run_at moves one occurrence on.
HandleDueStepwise(j) ==
  /\ Current(j)
  /\ IF Admitted(j)
       THEN execs' = [execs EXCEPT ![j] = Enqueued(j, sweep.now, sweep.startup)] /\ UNCHANGED skips
       ELSE skips' = skips \cup {Skip(j, sweep.now)} /\ UNCHANGED execs
  /\ job' = [job EXCEPT ![j].next = nextCron(job[j].cron, job[j].next)]
  /\ sweep' = After(j)
  /\ UNCHANGED <<clock, up, events, backs, since>>

\* The transaction of one row.
HandleDue(j) ==
  /\ Current(j)
  /\ IF Admitted(j)
       THEN execs' = [execs EXCEPT ![j] = Enqueued(j, sweep.now, sweep.startup)] /\ UNCHANGED skips
       ELSE skips' = skips \cup {Skip(j, sweep.now)} /\ UNCHANGED execs
  /\ job' = [job EXCEPT ![j].next = nextCron(job[j].cron, sweep.now)]
  /\ sweep' = After(j)
  /\ UNCHANGED <<clock, up, events, backs, since>>

\* The transaction fails and is rolled back.  The handler records the event
\* schedule_enqueue_failed and goes on; when that cannot be written either,
\* runDue() is left, and bootstrap with it.
HandleFault(j) ==
  /\ Current(j)
  /\ Event
  /\ \/ sweep' = After(j) /\ UNCHANGED up
     \/ /\ sweep' = Sweep(FALSE, 0, {})
        /\ up' = IF sweep.startup THEN "down" ELSE up
  /\ UNCHANGED <<clock, job, execs, skips, since, backs>>

\* An administrator starts schedule j by hand.
Manual(j) ==
  /\ up # "down" /\ Idle
  /\ Event
  /\ execs' = [execs EXCEPT ![j] = Append(@, Execution("manual", None))]
  /\ UNCHANGED <<clock, job, skips, up, sweep, since, backs>>

\* An execution reaches a terminal status.
End(j, i) ==
  /\ up # "down" /\ Idle
  /\ execs[j][i].active
  /\ execs' = [execs EXCEPT ![j][i].active = FALSE]
  /\ UNCHANGED <<clock, job, skips, up, sweep, events, backs, since>>

\* saveJobV2(): whatever changes, next_run_at is computed anew from now.
SaveJob(j, enabled, cron, policy) ==
  /\ up # "down" /\ Idle
  /\ Event
  /\ job' = [job EXCEPT ![j] = [enabled |-> enabled, cron |-> cron, policy |-> policy,
                                next |-> nextCron(cron, clock)]]
  /\ since' = [since EXCEPT ![j] = nextCron(cron, clock)]
  /\ UNCHANGED <<clock, execs, skips, up, sweep, backs>>

\* The coordinator cannot record an outcome and gives up.
GiveUp ==
  /\ up = "up" /\ Idle
  /\ Event
  /\ up' = "stopped"
  /\ UNCHANGED <<clock, job, execs, skips, sweep, since, backs>>

\* The process dies, between two transactions of runDue() too.
ProcessDies ==
  /\ up # "down"
  /\ Event
  /\ up' = "down"
  /\ sweep' = Sweep(FALSE, 0, {})
  /\ UNCHANGED <<clock, job, execs, skips, since, backs>>

\* Bootstrap: recover() ends executions that were interrupted, and runDue()
\* follows with startup = true.
Boot ==
  /\ up = "down"
  /\ up' = "up"
  /\ \E S \in SUBSET UNION {{j} \X Active(j) : j \in Jobs} :
       execs' = [j \in Jobs |-> [i \in DOMAIN execs[j] |->
                   [execs[j][i] EXCEPT !.active = @ /\ <<j, i>> \notin S]]]
  /\ sweep' = Sweep(TRUE, clock, DueJobs(clock))
  /\ UNCHANGED <<clock, job, skips, events, backs, since>>

ScheduleNext ==
  \/ Tick \/ SetBack \/ RunDue \/ GiveUp \/ ProcessDies \/ Boot
  \/ \E j \in Jobs :
       \/ HandleDue(j) \/ HandleFault(j) \/ Manual(j)
       \/ \E enabled \in BOOLEAN, cron \in Crons, policy \in Policies[j] : SaveJob(j, enabled, cron, policy)
       \/ \E i \in DOMAIN execs[j] : End(j, i)


\* The timer goes off again and again, the loop of runDue() runs to its end,
\* and the process is restarted.
ScheduleFairness ==
  /\ WF_scheduleVars(RunDue)
  /\ WF_scheduleVars(Boot)
  /\ \A j \in Jobs : WF_scheduleVars(HandleDue(j))

ScheduleSpec == ScheduleInit /\ [][ScheduleNext]_scheduleVars /\ ScheduleFairness

-----------------------------------------------------------------------------
(* Properties *)

\* The time that execution e says it stands for.
StandsFor(e) ==
  IF e.from = None THEN e.scheduledFor .. e.scheduledFor ELSE e.from .. e.to

Automatic(j) == {i \in DOMAIN execs[j] : execs[j][i].trigger # "manual"}

\* The executions and the skips of schedule j that account for occurrence t.
Accounts(j, t) ==
  {<<"execution", i>> : i \in {k \in Automatic(j) : t \in StandsFor(execs[j][k])}}
    \cup {<<"skip", x>> : x \in {y \in skips : y.job = j /\ t \in y.from .. y.to}}

\* Every occurrence before next_run_at has been accounted for, by an
\* execution that names it or by a skip, through downtime, crashes between
\* two schedules, failing writes and a clock that is set back; and by no two,
\* unless the clock was set back.
EveryOccurrenceAccounted ==
  \A j \in Jobs : \A t \in job[j].cron :
    since[j] <= t /\ t < job[j].next =>
      /\ Accounts(j, t) # {}
      /\ backs = 0 => Cardinality(Accounts(j, t)) = 1

\* The number of occurrences an execution reports is the number it stands
\* for, its own occurrence not counted when it was enqueued on time; beyond
\* MaxCount it is a lower bound, and the execution says so.
MissedCountTrue ==
  \A j \in Jobs : \A i \in Automatic(j) :
    LET e == execs[j][i] IN
    backs = 0 /\ since[j] <= e.scheduledFor =>
      LET stood == Cardinality(StandsFor(e) \cap job[j].cron)
          told  == e.missed + (IF e.trigger = "scheduled" THEN 1 ELSE 0) IN
      IF e.bounded THEN told < stood ELSE told = stood

\* An occurrence never has two executions, whatever happens to the clock.
OneExecutionPerOccurrence ==
  \A j \in Jobs : \A i, k \in DOMAIN execs[j] :
    i # k /\ execs[j][i].scheduledFor # None => execs[j][i].scheduledFor # execs[j][k].scheduledFor

\* Where overlaps are skipped, a schedule has at most one execution of its
\* own that has not ended, with manual executions before or between.
NoOverlapWhenSkipping ==
  \A j \in Jobs : Policies[j] = {"skip"} =>
    Cardinality({i \in Automatic(j) : execs[j][i].active}) <= 1

\* What is told of executions, and how many there may be.
ExecutionsAgree == MissedCountTrue /\ OneExecutionPerOccurrence /\ NoOverlapWhenSkipping

\* A schedule that is due is dealt with, unless an administrator saves it or
\* the coordinator has given up.
DueIsHandled ==
  \A j \in Jobs :
    (job[j].enabled /\ job[j].next <= clock) ~>
      (job[j].next > clock \/ ~job[j].enabled \/ up = "stopped")
=============================================================================
