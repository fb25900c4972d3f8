--------------------------- MODULE SyncScheduler ---------------------------
(***************************************************************************)
(* The background scheduler of one process.  Each round it runs, for every *)
(* organization, the integration syncs and the automation jobs, in two     *)
(* pools of workers; a login or the dashboard triggers a sync of one       *)
(* organization on demand, and an administrator may replay one in a        *)
(* request.  All of them share the circuit breakers of the integrations,   *)
(* which live in the memory of the process, and each works on a database   *)
(* session of its own, which an error of the database leaves unusable      *)
(* until it is rolled back.                                                *)
(*                                                                         *)
(* Everything runs on one event loop: an action is what happens between    *)
(* two awaits.  The attempts of run_with_retry share nothing with others,  *)
(* so a call is modelled by its final outcome.                             *)
(***************************************************************************)
EXTENDS Naturals, Sequences, FiniteSets, SequencesExt

CONSTANTS
    Orgs,           \* organizations
    Syncers,        \* workers of the integrations pool
    Automators,     \* workers of the automation pool
    OnDemand,       \* room for on-demand tasks, _MAX_INFLIGHT = 50 in the code
    Requests,       \* requests that replay full_sync
    Apis,           \* the integrations of the retry loop, nine in the code
    Jobs,           \* the automation jobs, in their order
    Unlisted,       \* steps that raise what no except clause lists
    Threshold,      \* SYNC_FAILURE_ALERT_THRESHOLD
    Deployments,    \* settings: SIGNAL_SYSTEM_ENABLED, DEAD_LETTER_ENABLED,
                    \* and as bounds the organizations, the tasks (crew) and
                    \* the steps that may fail (flaky)
    NoOrg

Tasks   == Syncers \cup Automators \cup OnDemand \cup Requests
Pools   == {"integrations", "automation"}
Workers == [integrations |-> Syncers, automation |-> Automators]

(* "email" has a breaker like the API integrations; "controls", which are  *)
(* the inbox controls, have none, nor has "rest", which stands for the     *)
(* calendar and the compliance run.                                        *)
Guarded   == ToSet(Apis) \cup {"email"}
SyncSteps == Apis \o <<"email", "controls", "rest">>
Steps(t)  == IF t \in Automators THEN Jobs ELSE SyncSteps
StepNames == ToSet(SyncSteps) \cup ToSet(Jobs)
Breakers  == Orgs \X Guarded

ASSUME SchedulerAssumption ==
    /\ Threshold \in Nat \ {0}
    /\ NoOrg \notin Orgs
    /\ Apis \in Seq(STRING) /\ ToSet(Apis) \cap {"email", "controls", "rest"} = {}
    /\ \A s \in Deployments :
       /\ DOMAIN s = {"signals", "deadLetters", "orgs", "crew", "flaky"}
       /\ {s.signals, s.deadLetters} \subseteq BOOLEAN
       /\ s.orgs \in Seq(Orgs) /\ IsInjective(s.orgs)
       /\ s.crew \subseteq Tasks /\ s.flaky \subseteq Orgs \X StepNames
       \* effective_workers: at least one, at most one for an organization
       /\ \A p \in Pools : Cardinality(s.crew \cap Workers[p]) \in 1..Len(s.orgs)
    /\ IsFiniteSet(Syncers) /\ IsFiniteSet(Automators)
    /\ Syncers \cap Automators = {} /\ OnDemand \cap Requests = {}
    /\ (Syncers \cup Automators) \cap (OnDemand \cup Requests) = {}

VARIABLES
    settings,   \* the deployment
    loop,       \* where _scheduler_loop and stop_scheduler are
    pool,       \* the queue of each pool, and its count of unfinished tasks
    task,       \* what every worker, on-demand task and request is doing
    streak,     \* _sync_failure_streak, up to the threshold
    open,       \* _circuit_open_until is in the future
    fresh,      \* _last_synced is within the throttle
    locked,     \* organizations whose lock an on-demand sync holds
    failed,     \* history: failures of each integration since it last worked
    served      \* history: organizations each pool has run in this round

memory  == <<streak, open, fresh, locked>>
history == <<failed, served>>
vars == <<settings, loop, pool, task, memory, history>>

TaskType ==
    [at : {"off", "created", "free", "next", "calling", "exited", "died"},
     org : Orgs \cup {NoOrg}, step : Nat, broken : BOOLEAN]

Off  == [at |-> "off", org |-> NoOrg, step |-> 0, broken |-> FALSE]
Free == [Off EXCEPT !.at = "free"]
Started(o) == [at |-> "next", org |-> o, step |-> 1, broken |-> FALSE]

NoPool == [at |-> "off", todo |-> <<>>, left |-> 0]

TypeOK ==
    /\ settings \in Deployments
    /\ loop \in {"sleep", "round", "stopping", "stopped"}
    /\ \A p \in Pools : /\ pool[p].at \in {"off", "open", "joined"}
                        /\ pool[p].todo \in Seq(Orgs)
                        /\ pool[p].left \in Nat
    /\ task \in [Tasks -> TaskType]
    /\ streak \in [Breakers -> 0..Threshold]
    /\ open \in SUBSET Breakers
    /\ fresh \in SUBSET Orgs
    /\ locked \in SUBSET Orgs
    /\ failed \in [Breakers -> 0..Threshold]
    /\ served \in [Pools -> SUBSET Orgs]

Boot ==
    /\ loop' = "sleep"
    /\ pool' = [p \in Pools |-> NoPool]
    /\ task' = [t \in Tasks |-> Off]
    /\ streak' = [k \in Breakers |-> 0]
    /\ open' = {} /\ fresh' = {} /\ locked' = {}

Init ==
    /\ settings \in Deployments
    /\ loop = "sleep"
    /\ pool = [p \in Pools |-> NoPool]
    /\ task = [t \in Tasks |-> Off]
    /\ streak = [k \in Breakers |-> 0]
    /\ open = {} /\ fresh = {} /\ locked = {}
    /\ failed = [k \in Breakers |-> 0]
    /\ served = [p \in Pools |-> {}]

-----------------------------------------------------------------------------
(* One organization: _run_integrations and _run_automation_jobs_for_org.   *)
Name(t) == Steps(t)[task[t].step]
Key(t)  == <<task[t].org, Name(t)>>

InRun(t) == task[t].at \in {"next", "calling"}
Ahead(t) == task[t].at = "next" /\ task[t].step <= Len(Steps(t))

Paused(t) == t \notin Automators /\ Key(t) \in open

Goto(t, r) == task' = [task EXCEPT ![t] = r]
Advanced(t, broken) == [at |-> "next", org |-> task[t].org, step |-> task[t].step + 1,
                        broken |-> broken]

Skip(t) ==
    /\ Ahead(t)
    /\ Paused(t)
    /\ Goto(t, Advanced(t, task[t].broken))
    /\ UNCHANGED <<settings, loop, pool, memory, history>>

Begin(t) ==
    /\ Ahead(t)
    /\ ~Paused(t)
    /\ Goto(t, [task[t] EXCEPT !.at = "calling"])
    /\ UNCHANGED <<settings, loop, pool, memory, history>>

(* What a run leaves behind when it ends, and in which way: it returns, it *)
(* raises an error its caller lists, or one that nobody lists.             *)
After(t, how) ==
    CASE t \in Syncers \cup Automators -> IF how = "unlisted" THEN [Off EXCEPT !.at = "died"] ELSE Free
      [] OTHER                         -> Off

\* mutant: task_done is called only where the run returns
CountedOnReturn(t) == IF task[t].step > Len(Steps(t))
    THEN [p \in Pools |-> IF t \in Workers[p] THEN [pool[p] EXCEPT !.left = @ - 1]
                                              ELSE pool[p]]
    ELSE pool

(* task_done in a finally clause                                           *)
Counted(t) == [p \in Pools |-> IF t \in Workers[p] THEN [pool[p] EXCEPT !.left = @ - 1]
                                                   ELSE pool[p]]

Ended(t, how) ==
    /\ Goto(t, After(t, how))
    /\ pool' = Counted(t)
    /\ fresh' = IF t \in Syncers /\ how = "returned" THEN fresh \cup {task[t].org} ELSE fresh
    /\ locked' = IF t \in OnDemand THEN locked \ {task[t].org} ELSE locked
    /\ served' = [p \in Pools |-> IF t \in Workers[p] THEN served[p] \cup {task[t].org}
                                                      ELSE served[p]]
    /\ UNCHANGED <<settings, loop>>

Return(t) ==
    /\ task[t].at = "next"
    /\ task[t].step > Len(Steps(t))
    /\ Ended(t, "returned")
    /\ UNCHANGED <<streak, open, failed>>

\* mutant: only the breaker is reset
SucceededCounting(k) == open' = open \ {k} /\ failed' = [failed EXCEPT ![k] = 0] /\ UNCHANGED streak

Succeeded(k) == /\ streak' = [streak EXCEPT ![k] = 0]
                /\ open' = open \ {k}
                /\ failed' = [failed EXCEPT ![k] = 0]

Capped(n) == IF n < Threshold THEN n ELSE Threshold

(* The breaker opens, or opens again for another hour.                     *)
CountFailure(k) ==
    /\ streak' = [streak EXCEPT ![k] = Capped(@ + 1)]
    /\ open' = IF streak[k] + 1 >= Threshold THEN open \cup {k} ELSE open

HasBreaker(t) == t \notin Automators /\ Name(t) \in Guarded

Succeed(t) ==
    /\ task[t].at = "calling"
    /\ ~task[t].broken
    /\ Goto(t, Advanced(t, FALSE))
    /\ IF HasBreaker(t) THEN Succeeded(Key(t)) ELSE UNCHANGED <<streak, open, failed>>
    /\ UNCHANGED <<settings, loop, pool, fresh, locked, served>>

MayFail(t) == Key(t) \in settings.flaky

(* The failure of an automation job is captured as a dead letter: the      *)
(* session is committed, or rolled back where that fails.                  *)
\* mutant: no rollback
SessionKept(t, broken) == broken

SessionAfter(t, broken) ==
    IF t \in Automators /\ settings.deadLetters THEN FALSE ELSE broken

(* On a broken session a failed step raises again, and so ends the run,    *)
(* where its failure is recorded: as a signal, with a flush, or at the     *)
(* commit after the compliance run.  That of the mailbox is logged only,   *)
(* and the inbox controls are then called on the session it has left.      *)
RecordRaises(t, broken) ==
    /\ t \notin Automators /\ broken
    /\ Name(t) # "email"
    /\ settings.signals \/ Name(t) = "rest"

(* A listed error.  broken: it came from the database, now or before.      *)
Fail(t) ==
    /\ task[t].at = "calling"
    /\ \E broken \in IF task[t].broken THEN {TRUE} ELSE BOOLEAN :
       /\ task[t].broken \/ MayFail(t)
       /\ IF RecordRaises(t, broken)
          THEN Ended(t, "listed")
          ELSE /\ Goto(t, Advanced(t, SessionAfter(t, broken)))
               /\ UNCHANGED <<settings, loop, pool, fresh, locked, served>>
    /\ IF HasBreaker(t)
       THEN /\ CountFailure(Key(t))
            /\ failed' = [failed EXCEPT ![Key(t)] = Capped(@ + 1)]
       ELSE UNCHANGED <<streak, open, failed>>

(* An error outside every list, such as EmailSyncError, ends the run.      *)
Raise(t) ==
    /\ task[t].at = "calling"
    /\ ~task[t].broken
    /\ Name(t) \in Unlisted /\ MayFail(t)
    /\ Ended(t, "unlisted")
    /\ UNCHANGED <<streak, open, failed>>

(* Time passes: an hour, and the throttle.                                 *)
CoolDown(k) ==
    /\ k \in open
    /\ open' = open \ {k}
    /\ UNCHANGED <<settings, loop, pool, task, streak, fresh, locked, history>>

StaleAgain(o) ==
    /\ o \in fresh
    /\ fresh' = fresh \ {o}
    /\ UNCHANGED <<settings, loop, pool, task, streak, open, locked, history>>

-----------------------------------------------------------------------------
(* The periodic loop and its pools.                                        *)
Hired(p) == settings.crew \cap Workers[p]

Wake ==
    /\ loop = "sleep"
    /\ loop' = "round"
    /\ pool' = [p \in Pools |-> [at |-> "open", todo |-> settings.orgs, left |-> Len(settings.orgs)]]
    /\ task' = [t \in Tasks |-> IF \E p \in Pools : t \in Hired(p) THEN Free ELSE task[t]]
    /\ served' = [p \in Pools |-> {}]
    /\ UNCHANGED <<settings, memory, failed>>

Take(p, t) ==
    /\ t \in Workers[p] /\ task[t].at = "free"
    /\ pool[p].todo # <<>>
    /\ Goto(t, Started(Head(pool[p].todo)))
    /\ pool' = [pool EXCEPT ![p].todo = Tail(@)]
    /\ UNCHANGED <<settings, loop, memory, history>>

Exit(p, t) ==
    /\ t \in Workers[p] /\ task[t].at = "free"
    /\ pool[p].todo = <<>>
    /\ Goto(t, [Off EXCEPT !.at = "exited"])
    /\ UNCHANGED <<settings, loop, pool, memory, history>>

\* mutant: waits until the queue is empty
JoinWhenEmpty(p) ==
    /\ pool[p].at = "open" /\ pool[p].todo = <<>>
    /\ pool' = [pool EXCEPT ![p].at = "joined"]
    /\ task' = [t \in Tasks |-> IF t \in Workers[p] THEN Off ELSE task[t]]
    /\ UNCHANGED <<settings, loop, memory, history>>

(* queue.join returns; workers that are not done are cancelled.            *)
Join(p) ==
    /\ pool[p].at = "open" /\ pool[p].left = 0
    /\ pool' = [pool EXCEPT ![p].at = "joined"]
    /\ task' = [t \in Tasks |-> IF t \in Workers[p] THEN Off ELSE task[t]]
    /\ UNCHANGED <<settings, loop, memory, history>>

EndRound ==
    /\ loop = "round"
    /\ \A p \in Pools : pool[p].at = "joined"
    /\ loop' = "sleep"
    /\ pool' = [p \in Pools |-> NoPool]
    /\ UNCHANGED <<settings, task, memory, history>>

-----------------------------------------------------------------------------
(* On-demand syncs and replays.                                            *)
Running == loop \in {"sleep", "round"}

Trigger(o) ==
    /\ Running
    /\ o \in ToSet(settings.orgs) \ fresh
    /\ \E t \in OnDemand \cap settings.crew :
       /\ task[t].at = "off"
       /\ Goto(t, [at |-> "created", org |-> o, step |-> 0, broken |-> FALSE])
    /\ fresh' = fresh \cup {o}
    /\ UNCHANGED <<settings, loop, pool, streak, open, locked, history>>

\* mutant: no lock
EnterUnlocked(t) ==
    /\ task[t].at = "created"
    /\ Goto(t, Started(task[t].org)) /\ locked' = locked \cup {task[t].org}
    /\ UNCHANGED <<settings, loop, pool, streak, open, fresh, history>>

Enter(t) ==
    /\ task[t].at = "created"
    /\ IF task[t].org \in locked
       THEN Goto(t, Off) /\ UNCHANGED locked
       ELSE Goto(t, Started(task[t].org)) /\ locked' = locked \cup {task[t].org}
    /\ UNCHANGED <<settings, loop, pool, streak, open, fresh, history>>

Replay(t, o) ==
    /\ Running
    /\ t \in Requests \cap settings.crew /\ task[t].at = "off"
    /\ o \in ToSet(settings.orgs)
    /\ Goto(t, Started(o))
    /\ UNCHANGED <<settings, loop, pool, memory, history>>

-----------------------------------------------------------------------------
(* Shutdown: the loop is cancelled and with it the workers of its pools;   *)
(* on-demand syncs get a grace period.                                     *)
BeginStop ==
    /\ Running
    /\ loop' = "stopping"
    /\ pool' = [p \in Pools |-> NoPool]
    /\ task' = [t \in Tasks |-> IF t \in Syncers \cup Automators THEN Off ELSE task[t]]
    /\ UNCHANGED <<settings, memory, history>>

Alive == {t \in OnDemand : task[t].at # "off"}

AllDone == Alive = {} /\ UNCHANGED <<task, locked>>

\* mutant: those that are late are left to themselves
GraceOverLeft == Alive # {} /\ UNCHANGED <<task, locked>>

GraceOver ==
    /\ Alive # {}
    /\ task' = [t \in Tasks |-> IF t \in Alive THEN Off ELSE task[t]]
    /\ locked' = {}

EndStop ==
    /\ loop = "stopping"
    /\ AllDone \/ GraceOver
    /\ loop' = "stopped"
    /\ UNCHANGED <<settings, pool, streak, open, fresh, history>>

(* The process starts again, after a stop or because it was killed.        *)
Restart == Boot /\ served' = [p \in Pools |-> {}] /\ UNCHANGED <<settings, failed>>

-----------------------------------------------------------------------------
TaskStep(t) ==
    \/ Skip(t) \/ Begin(t) \/ Succeed(t) \/ Fail(t) \/ Raise(t) \/ Return(t)
    \/ Enter(t)
    \/ \E p \in Pools : Take(p, t) \/ Exit(p, t)

LoopStep == Wake \/ (\E p \in Pools : Join(p)) \/ EndRound

Next ==
    \/ \E t \in Tasks : TaskStep(t)
    \/ LoopStep
    \/ \E k \in Breakers : CoolDown(k)
    \/ \E o \in Orgs : StaleAgain(o) \/ Trigger(o) \/ \E t \in Requests : Replay(t, o)
    \/ BeginStop \/ EndStop \/ Restart

Spec == Init /\ [][Next]_vars

(* The event loop runs every task that is ready; a call is ended by its    *)
(* answer or its timeout, a sleep and a grace period by the clock.         *)
FairSpec ==
    /\ Spec
    /\ \A t \in Tasks : WF_vars(TaskStep(t))
    /\ WF_vars(LoopStep)
    /\ WF_vars(EndStop)

-----------------------------------------------------------------------------
(* A pool is joined only after every organization was run in this round,   *)
(* and none of its workers is still at it: whatever failed, and whichever  *)
(* workers died on the way, no organization is dropped from the round.     *)
JoinedAfterAll ==
    \A p \in Pools : pool[p].at = "joined" =>
        /\ served[p] = ToSet(settings.orgs)
        /\ \A t \in Workers[p] : task[t].at = "off"

(* A pool stands still with organizations waiting only if every one of its *)
(* workers was ended by an error outside the lists; as long as one is left *)
(* it takes over the organizations of the others.                          *)
StuckMeansAllDied ==
    \A p \in Pools :
        (pool[p].at = "open" /\ pool[p].left > 0 /\ \A t \in Hired(p) : task[t].at \in {"exited", "died"})
            => \A t \in Hired(p) : task[t].at = "died"

(* An organization is synced by at most one worker and at most one         *)
(* on-demand task at a time, across rounds, restarts and the throttle.     *)
(* (The two may overlap: the loop does not take the lock.)                 *)
OneRunEach ==
    \A S \in {Syncers, Automators, OnDemand} : \A t, u \in S :
        (t # u /\ InRun(t) /\ InRun(u)) => task[t].org # task[u].org

(* A paused integration has failed at least as often as the threshold asks *)
(* since it last worked, whichever of the overlapping runs called it.      *)
PausedAfterFailures == \A k \in open : failed[k] = Threshold

(* With signals and dead letters on, an error of the database in one       *)
(* integration or job does not make another one fail: a step is called on  *)
(* a broken session only if it is the inbox controls, which follow a       *)
(* mailbox whose failure is logged only, and nothing is called after them. *)
FollowsMailbox(t) == t \notin Automators /\ Name(t) = "controls"

CalledOnUsableSession ==
    \A t \in Tasks :
        (task[t].at = "calling" /\ task[t].broken /\ settings.signals /\ settings.deadLetters)
            => FollowsMailbox(t)

(* After stop_scheduler nothing it started is running, and no lock is held *)
(* for ever.                                                               *)
NothingAfterStop ==
    loop = "stopped" => /\ \A t \in Tasks \ Requests : task[t].at = "off"
                        /\ locked = {}

(* Whatever fails, a round ends, unless all the workers of a pool died in  *)
(* it.                                                                     *)
RoundEnds ==
    loop = "round" ~> \/ loop # "round"
                      \/ \E p \in Pools : \A t \in Hired(p) : task[t].at = "died"

(* "Runs forever; wakes up every interval_minutes and syncs all orgs."     *)
RunsForever == loop = "round" ~> loop # "round"
=============================================================================
