------------------------ MODULE SyncScheduler_proofs ------------------------
(* Proofs about SyncScheduler, for any number of organizations, workers,   *)
(* tasks, integrations and jobs.                                           *)
EXTENDS SyncScheduler, Integers, FiniteSetTheorems, TLAPS

(* Types.  The count of a pool is bounded below, by PoolInv.               *)
PoolType == [at : {"off", "open", "joined"}, todo : Seq(Orgs), left : Int]

Shape ==
    /\ settings \in Deployments
    /\ pool \in [Pools -> PoolType]
    /\ task \in [Tasks -> TaskType]
    /\ \A t \in Tasks : task[t].at \in {"created", "next", "calling"} => task[t].org \in Orgs

LEMMA SettingsFacts ==
    ASSUME settings \in Deployments
    PROVE  /\ settings.orgs \in Seq(Orgs) /\ IsInjective(settings.orgs)
           /\ settings.crew \subseteq Tasks
           /\ settings.signals \in BOOLEAN /\ settings.deadLetters \in BOOLEAN
BY SchedulerAssumption

(* The records a task may become.                                          *)
LEMMA Records ==
    /\ Off \in TaskType /\ Off.at = "off" /\ Off.broken = FALSE
    /\ Free \in TaskType /\ Free.at = "free" /\ Free.broken = FALSE
    /\ [Off EXCEPT !.at = "exited"] \in TaskType /\ [Off EXCEPT !.at = "exited"].at = "exited"
    /\ [Off EXCEPT !.at = "died"] \in TaskType /\ [Off EXCEPT !.at = "died"].at = "died"
    /\ \A o \in Orgs : /\ Started(o) \in TaskType /\ Started(o).at = "next"
                       /\ Started(o).org = o /\ Started(o).broken = FALSE
                       /\ Started(o).step = 1
BY DEF Off, Free, Started, TaskType

LEMMA CreatedRecord ==
    ASSUME NEW o \in Orgs
    PROVE  [at |-> "created", org |-> o, step |-> 0, broken |-> FALSE] \in TaskType
BY DEF TaskType

LEMMA AdvancedRecord ==
    ASSUME NEW t \in Tasks, task[t] \in TaskType, NEW b \in BOOLEAN
    PROVE  /\ Advanced(t, b) \in TaskType
           /\ Advanced(t, b).at = "next" /\ Advanced(t, b).org = task[t].org
           /\ Advanced(t, b).broken = b
BY DEF Advanced, TaskType

LEMMA CallingRecord ==
    ASSUME NEW t \in Tasks, task[t] \in TaskType
    PROVE  /\ [task[t] EXCEPT !.at = "calling"] \in TaskType
           /\ [task[t] EXCEPT !.at = "calling"].at = "calling"
           /\ [task[t] EXCEPT !.at = "calling"].org = task[t].org
           /\ [task[t] EXCEPT !.at = "calling"].broken = task[t].broken
           /\ [task[t] EXCEPT !.at = "calling"].step = task[t].step
BY DEF TaskType

LEMMA AfterRecord ==
    ASSUME NEW t, NEW how
    PROVE  /\ After(t, how) \in TaskType
           /\ After(t, how).at \in {"off", "free", "died"}
           /\ t \notin Syncers \cup Automators => After(t, how).at = "off"
BY Records DEF After

LEMMA GotoChange ==
    ASSUME task \in [Tasks -> TaskType], NEW t \in Tasks, NEW r \in TaskType, Goto(t, r)
    PROVE  /\ task' \in [Tasks -> TaskType]
           /\ task'[t] = r
           /\ \A u \in Tasks \ {t} : task'[u] = task[u]
BY DEF Goto

-----------------------------------------------------------------------------
(* The ways a step of one task can change it: it goes on in its run, ends  *)
(* the run, enters from on demand, takes an organization or exits.         *)
GoesOn(t) ==
    /\ InRun(t) /\ task'[t].at \in {"next", "calling"} /\ task'[t].org = task[t].org
    /\ UNCHANGED <<pool, locked, served>>

Ends(t) ==
    /\ InRun(t) /\ task'[t].at \in {"off", "free", "died"}
    /\ t \notin Syncers \cup Automators => task'[t].at = "off"
    /\ pool' = Counted(t)
    /\ locked' = IF t \in OnDemand THEN locked \ {task[t].org} ELSE locked
    /\ served' = [p \in Pools |-> IF t \in Workers[p] THEN served[p] \cup {task[t].org}
                                                      ELSE served[p]]

Enters(t) ==
    /\ task[t].at = "created" /\ task[t].org \in Orgs
    /\ IF task[t].org \in locked
       THEN task'[t].at = "off" /\ locked' = locked
       ELSE /\ task'[t].at = "next" /\ task'[t].org = task[t].org
            /\ locked' = locked \cup {task[t].org}
    /\ UNCHANGED <<pool, served>>

Takes(p, t) ==
    /\ t \in Workers[p] /\ task[t].at = "free" /\ pool[p].todo # <<>>
    /\ task'[t].at = "next" /\ task'[t].org = Head(pool[p].todo)
    /\ task'[t].org \in Orgs
    /\ pool' = [pool EXCEPT ![p].todo = Tail(@)]
    /\ UNCHANGED <<locked, served>>

Exits(p, t) ==
    /\ t \in Workers[p] /\ pool[p].todo = <<>> /\ task[t].at = "free" /\ task'[t].at = "exited"
    /\ UNCHANGED <<pool, locked, served>>

OneTask(t) ==
    /\ UNCHANGED <<settings, loop>>
    /\ task' \in [Tasks -> TaskType]
    /\ \A u \in Tasks \ {t} : task'[u] = task[u]
    /\ \/ GoesOn(t) \/ Ends(t) \/ Enters(t)
       \/ \E p \in Pools : Takes(p, t) \/ Exits(p, t)

LEMMA EndedKind ==
    ASSUME Shape, NEW t \in Tasks, NEW how, InRun(t), Ended(t, how)
    PROVE  OneTask(t)
<1>1. After(t, how) \in TaskType /\ Goto(t, After(t, how))
    BY AfterRecord DEF Ended
<1>2. task' \in [Tasks -> TaskType] /\ task'[t] = After(t, how)
      /\ \A u \in Tasks \ {t} : task'[u] = task[u]
    BY <1>1, GotoChange DEF Shape
<1>3. Ends(t)
    BY <1>2, AfterRecord DEF Ends, Ended
<1>4. QED BY <1>2, <1>3 DEF OneTask, Ended

LEMMA AdvancedKind ==
    ASSUME Shape, NEW t \in Tasks, NEW b \in BOOLEAN, InRun(t), Goto(t, Advanced(t, b)),
           UNCHANGED <<settings, loop, pool, locked, served>>
    PROVE  OneTask(t)
<1>1. task[t] \in TaskType
    BY DEF Shape
<1>2. task' \in [Tasks -> TaskType] /\ task'[t] = Advanced(t, b)
      /\ \A u \in Tasks \ {t} : task'[u] = task[u]
    BY <1>1, AdvancedRecord, GotoChange DEF Shape
<1>3. GoesOn(t)
    BY <1>1, <1>2, AdvancedRecord DEF GoesOn
<1>4. QED BY <1>2, <1>3 DEF OneTask

LEMMA TaskKind ==
    ASSUME Shape, NEW t \in Tasks, TaskStep(t)
    PROVE  OneTask(t)
<1>1. task[t] \in TaskType /\ task[t].broken \in BOOLEAN
  <2>1. task[t] \in TaskType
      BY DEF Shape
  <2>2. QED BY <2>1 DEF TaskType
<1>2. CASE Skip(t)
    BY <1>1, <1>2, AdvancedKind DEF Skip, Ahead, InRun, memory, history
<1>3. CASE Begin(t)
  <2>1. task' \in [Tasks -> TaskType] /\ task'[t] = [task[t] EXCEPT !.at = "calling"]
        /\ \A u \in Tasks \ {t} : task'[u] = task[u]
      BY <1>1, <1>3, CallingRecord, GotoChange DEF Begin, Shape
  <2>2. GoesOn(t)
      BY <1>1, <1>3, <2>1, CallingRecord DEF Begin, Ahead, InRun, GoesOn, memory, history
  <2>3. QED BY <1>3, <2>1, <2>2 DEF OneTask, Begin
<1>4. CASE Succeed(t)
    BY <1>4, AdvancedKind DEF Succeed, InRun
<1>5. CASE Fail(t)
  <2>1. PICK broken \in BOOLEAN :
          IF RecordRaises(t, broken)
          THEN Ended(t, "listed")
          ELSE /\ Goto(t, Advanced(t, SessionAfter(t, broken)))
               /\ UNCHANGED <<settings, loop, pool, fresh, locked, served>>
      BY <1>5 DEF Fail
  <2>2. InRun(t)
      BY <1>5 DEF Fail, InRun
  <2>3. SessionAfter(t, broken) \in BOOLEAN
      BY DEF SessionAfter
  <2>4. QED BY <2>1, <2>2, <2>3, EndedKind, AdvancedKind
<1>6. CASE Raise(t) \/ Return(t)
    BY <1>6, EndedKind DEF Raise, Return, InRun
<1>7. CASE Enter(t)
  <2>1. task[t].org \in Orgs
      BY <1>7 DEF Enter, Shape
  <2>2. CASE task[t].org \in locked
    <3>1. task' \in [Tasks -> TaskType] /\ task'[t] = Off
          /\ \A u \in Tasks \ {t} : task'[u] = task[u]
        BY <1>7, <2>2, Records, GotoChange DEF Enter, Shape
    <3>2. Enters(t)
        BY <1>7, <2>1, <2>2, <3>1, Records DEF Enter, Enters, history
    <3>3. QED BY <1>7, <3>1, <3>2 DEF OneTask, Enter
  <2>3. CASE task[t].org \notin locked
    <3>1. task' \in [Tasks -> TaskType] /\ task'[t] = Started(task[t].org)
          /\ \A u \in Tasks \ {t} : task'[u] = task[u]
        BY <1>7, <2>1, <2>3, Records, GotoChange DEF Enter, Shape
    <3>2. Enters(t)
        BY <1>7, <2>1, <2>3, <3>1, Records DEF Enter, Enters, history
    <3>3. QED BY <1>7, <3>1, <3>2 DEF OneTask, Enter
  <2>4. QED BY <2>2, <2>3
<1>8. ASSUME NEW p \in Pools, Take(p, t) PROVE OneTask(t)
  <2>1. Head(pool[p].todo) \in Orgs
      BY <1>8 DEF Take, Shape, PoolType
  <2>2. task' \in [Tasks -> TaskType] /\ task'[t] = Started(Head(pool[p].todo))
        /\ \A u \in Tasks \ {t} : task'[u] = task[u]
      BY <1>8, <2>1, Records, GotoChange DEF Take, Shape
  <2>3. Takes(p, t)
      BY <1>8, <2>1, <2>2, Records DEF Take, Takes, memory, history
  <2>4. QED BY <1>8, <2>2, <2>3 DEF OneTask, Take
<1>9. ASSUME NEW p \in Pools, Exit(p, t) PROVE OneTask(t)
  <2>1. task' \in [Tasks -> TaskType] /\ task'[t] = [Off EXCEPT !.at = "exited"]
        /\ \A u \in Tasks \ {t} : task'[u] = task[u]
      BY <1>9, Records, GotoChange DEF Exit, Shape
  <2>2. Exits(p, t)
      BY <1>9, <2>1, Records DEF Exit, Exits, memory, history
  <2>3. QED BY <1>9, <2>1, <2>2 DEF OneTask, Exit
<1>10. QED BY <1>2, <1>3, <1>4, <1>5, <1>6, <1>7, <1>8, <1>9 DEF TaskStep

LEMMA WorkerFacts ==
    /\ Workers["integrations"] = Syncers /\ Workers["automation"] = Automators
    /\ \A p \in Pools : /\ Workers[p] \subseteq Tasks /\ IsFiniteSet(Workers[p])
                        /\ Workers[p] \cap OnDemand = {} /\ Workers[p] \cap Requests = {}
                        /\ Workers[p] \subseteq Syncers \cup Automators
    /\ \A p, q \in Pools : p # q => Workers[p] \cap Workers[q] = {}
    /\ \A t \in Syncers \cup Automators : \E p \in Pools : t \in Workers[p]
    /\ OnDemand \subseteq Tasks
BY SchedulerAssumption DEF Workers, Pools, Tasks

LEMMA PoolRecords ==
    /\ NoPool \in PoolType /\ NoPool.at = "off" /\ NoPool.todo = <<>>
    /\ \A orgs \in Seq(Orgs) :
         [at |-> "open", todo |-> orgs, left |-> Len(orgs)] \in PoolType
BY DEF NoPool, PoolType

LEMMA CountedPool ==
    ASSUME Shape, NEW t, pool' = Counted(t)
    PROVE  /\ pool' \in [Pools -> PoolType]
           /\ \A p \in Pools : /\ pool'[p].at = pool[p].at /\ pool'[p].todo = pool[p].todo
                               /\ pool'[p].left = IF t \in Workers[p] THEN pool[p].left - 1
                                                  ELSE pool[p].left
<1>1. ASSUME NEW p \in Pools
      PROVE  /\ [pool[p] EXCEPT !.left = @ - 1] \in PoolType
             /\ [pool[p] EXCEPT !.left = @ - 1].at = pool[p].at
             /\ [pool[p] EXCEPT !.left = @ - 1].todo = pool[p].todo
             /\ [pool[p] EXCEPT !.left = @ - 1].left = pool[p].left - 1
  <2>1. pool[p] \in PoolType
      BY DEF Shape
  <2>2. pool[p].left - 1 \in Int
      BY <2>1 DEF PoolType
  <2>3. PICK n \in Int : n = pool[p].left - 1
      BY <2>2
  <2>4. /\ [pool[p] EXCEPT !.left = n] \in PoolType
        /\ [pool[p] EXCEPT !.left = n].at = pool[p].at
        /\ [pool[p] EXCEPT !.left = n].todo = pool[p].todo
        /\ [pool[p] EXCEPT !.left = n].left = n
      BY <2>1 DEF PoolType
  <2>5. QED BY <2>3, <2>4
<1>2. ASSUME NEW p \in Pools
      PROVE  pool'[p] = IF t \in Workers[p] THEN [pool[p] EXCEPT !.left = @ - 1] ELSE pool[p]
    BY DEF Counted
<1>3. pool' \in [Pools -> PoolType]
  <2>1. \A p \in Pools : pool'[p] \in PoolType
      BY <1>1, <1>2 DEF Shape
  <2>2. pool' = [p \in Pools |-> pool'[p]]
      BY DEF Counted
  <2>3. QED BY <2>1, <2>2
<1>4. QED BY <1>1, <1>2, <1>3

LEMMA TakenPool ==
    ASSUME Shape, NEW p \in Pools, pool[p].todo # <<>>, pool' = [pool EXCEPT ![p].todo = Tail(@)]
    PROVE  /\ pool' \in [Pools -> PoolType]
           /\ pool'[p].at = pool[p].at /\ pool'[p].todo = Tail(pool[p].todo)
           /\ pool'[p].left = pool[p].left
           /\ \A q \in Pools \ {p} : pool'[q] = pool[q]
<1>1. Tail(pool[p].todo) \in Seq(Orgs)
    BY DEF Shape, PoolType
<1>2. QED BY <1>1 DEF Shape, PoolType

LEMMA JoinedPool ==
    ASSUME Shape, NEW p \in Pools, pool' = [pool EXCEPT ![p].at = "joined"]
    PROVE  /\ pool' \in [Pools -> PoolType]
           /\ pool'[p].at = "joined"
           /\ \A q \in Pools \ {p} : pool'[q] = pool[q]
BY DEF Shape, PoolType

LEMMA TaskShape ==
    ASSUME Shape, NEW t \in Tasks, OneTask(t)
    PROVE  Shape'
<1>1. pool' \in [Pools -> PoolType]
  <2>1. CASE GoesOn(t) \/ Enters(t) \/ \E p \in Pools : Exits(p, t)
      BY <2>1 DEF GoesOn, Enters, Exits, Shape
  <2>2. CASE Ends(t)
      BY <2>2, CountedPool DEF Ends
  <2>3. ASSUME NEW p \in Pools, Takes(p, t) PROVE pool' \in [Pools -> PoolType]
      BY <2>3, TakenPool DEF Takes
  <2>4. QED BY <2>1, <2>2, <2>3 DEF OneTask
<1>2. task'[t].at \in {"created", "next", "calling"} => task'[t].org \in Orgs
    BY DEF OneTask, GoesOn, Ends, Enters, Takes, Exits, Shape, InRun
<1>3. QED BY <1>1, <1>2 DEF OneTask, Shape

(* A step that turns some tasks into records without an organization.      *)
LEMMA OffShape ==
    ASSUME Shape, settings' = settings, pool' \in [Pools -> PoolType],
           task' \in [Tasks -> TaskType],
           \A t \in Tasks : task'[t] = task[t] \/ task'[t].at \in {"off", "free"}
    PROVE  Shape'
BY DEF Shape

LEMMA WakeChange ==
    ASSUME Shape, Wake
    PROVE  /\ \A p \in Pools : pool'[p] = [at |-> "open", todo |-> settings.orgs, left |-> Len(settings.orgs)]
           /\ \A t \in Tasks : task'[t] = task[t] \/ task'[t].at = "free"
           /\ Shape'
<1>1. settings.orgs \in Seq(Orgs)
    BY SettingsFacts DEF Shape
<1>2. /\ \A p \in Pools : pool'[p] = [at |-> "open", todo |-> settings.orgs, left |-> Len(settings.orgs)]
      /\ pool' \in [Pools -> PoolType]
    BY <1>1, PoolRecords DEF Wake
<1>3. /\ task' \in [Tasks -> TaskType]
      /\ \A t \in Tasks : task'[t] = task[t] \/ task'[t].at = "free"
    BY Records DEF Wake, Shape
<1>4. QED BY <1>2, <1>3, OffShape DEF Wake

LEMMA JoinChange ==
    ASSUME Shape, NEW p \in Pools, Join(p)
    PROVE  /\ pool'[p].at = "joined" /\ \A q \in Pools \ {p} : pool'[q] = pool[q]
           /\ \A t \in Tasks : IF t \in Workers[p] THEN task'[t].at = "off" ELSE task'[t] = task[t]
           /\ Shape'
<1>1. /\ pool'[p].at = "joined" /\ \A q \in Pools \ {p} : pool'[q] = pool[q]
      /\ pool' \in [Pools -> PoolType]
    BY JoinedPool DEF Join
<1>2. /\ task' \in [Tasks -> TaskType]
      /\ \A t \in Tasks : IF t \in Workers[p] THEN task'[t].at = "off" ELSE task'[t] = task[t]
    BY Records DEF Join, Shape
<1>3. QED BY <1>1, <1>2, OffShape DEF Join

LEMMA StopChange ==
    ASSUME Shape, BeginStop
    PROVE  /\ \A p \in Pools : pool'[p] = NoPool
           /\ \A t \in Tasks : IF t \in Syncers \cup Automators THEN task'[t].at = "off"
                               ELSE task'[t] = task[t]
           /\ Shape'
<1>1. /\ \A p \in Pools : pool'[p] = NoPool
      /\ pool' \in [Pools -> PoolType]
    BY PoolRecords DEF BeginStop
<1>2. /\ task' \in [Tasks -> TaskType]
      /\ \A t \in Tasks : IF t \in Syncers \cup Automators THEN task'[t].at = "off"
                          ELSE task'[t] = task[t]
    BY Records DEF BeginStop, Shape
<1>3. QED BY <1>1, <1>2, OffShape DEF BeginStop

LEMMA EndStopChange ==
    ASSUME Shape, EndStop
    PROVE  /\ pool' = pool
           /\ \A t \in Tasks : IF t \in OnDemand THEN task'[t].at = "off" ELSE task'[t] = task[t]
           /\ Shape'
<1>1. /\ task' \in [Tasks -> TaskType]
      /\ \A t \in Tasks : IF t \in OnDemand THEN task'[t].at = "off" ELSE task'[t] = task[t]
    BY Records, WorkerFacts DEF EndStop, AllDone, GraceOver, Alive, Shape
<1>2. QED BY <1>1, OffShape DEF EndStop, Shape

LEMMA RestartChange ==
    ASSUME Shape, Restart
    PROVE  /\ \A p \in Pools : pool'[p] = NoPool
           /\ \A t \in Tasks : task'[t].at = "off"
           /\ Shape'
<1>1. /\ \A p \in Pools : pool'[p] = NoPool
      /\ pool' \in [Pools -> PoolType]
    BY PoolRecords DEF Restart, Boot
<1>2. task' \in [Tasks -> TaskType] /\ \A t \in Tasks : task'[t].at = "off"
    BY Records DEF Restart, Boot
<1>3. QED BY <1>1, <1>2, OffShape DEF Restart

(* A task that is created or starts a run beside the pools.                *)
LEMMA BesideChange ==
    ASSUME Shape, NEW o \in Orgs, Trigger(o) \/ \E t \in Requests : Replay(t, o)
    PROVE  /\ UNCHANGED <<settings, loop, pool, locked, served>> /\ Shape'
           /\ Running
           /\ \E t \in (OnDemand \cup Requests) \cap Tasks :
                /\ task[t].at = "off"
                /\ IF t \in OnDemand THEN task'[t].at = "created"
                   ELSE task'[t].at = "next" /\ task'[t].step = 1
                /\ task'[t].broken = FALSE
                /\ \A u \in Tasks \ {t} : task'[u] = task[u]
<1>1. CASE Trigger(o)
  <2>1. PICK t \in OnDemand \cap settings.crew :
            task[t].at = "off" /\ Goto(t, [at |-> "created", org |-> o, step |-> 0, broken |-> FALSE])
      BY <1>1 DEF Trigger
  <2>2. t \in Tasks
      BY WorkerFacts
  <2>3. /\ task' \in [Tasks -> TaskType] /\ \A u \in Tasks \ {t} : task'[u] = task[u]
        /\ task'[t] = [at |-> "created", org |-> o, step |-> 0, broken |-> FALSE]
      BY <2>1, <2>2, CreatedRecord, GotoChange DEF Shape
  <2>4. task'[t].at = "created" /\ task'[t].org = o /\ task'[t].broken = FALSE
      BY <2>3
  <2>5. UNCHANGED <<settings, loop, pool, locked, served>> /\ Running
      BY <1>1 DEF Trigger, history
  <2>6. Shape'
      BY <2>2, <2>3, <2>4, <2>5 DEF Shape
  <2>7. QED BY <2>1, <2>2, <2>3, <2>4, <2>5, <2>6
<1>2. ASSUME NEW t \in Requests, Replay(t, o)
      PROVE  /\ UNCHANGED <<settings, loop, pool, locked, served>> /\ Shape' /\ Running
             /\ task[t].at = "off" /\ task'[t].at = "next" /\ task'[t].step = 1
             /\ task'[t].broken = FALSE
             /\ \A u \in Tasks \ {t} : task'[u] = task[u]
             /\ t \in Tasks /\ t \notin OnDemand
  <2>1. t \in Tasks /\ t \notin OnDemand
      BY SchedulerAssumption DEF Tasks
  <2>2. /\ task' \in [Tasks -> TaskType] /\ \A u \in Tasks \ {t} : task'[u] = task[u]
        /\ task'[t] = Started(o)
      BY <1>2, <2>1, Records, GotoChange DEF Shape, Replay
  <2>3. UNCHANGED <<settings, loop, pool, locked, served>> /\ Running
      BY <1>2 DEF Replay, memory, history
  <2>4. /\ task[t].at = "off" /\ task'[t].at = "next" /\ task'[t].org = o
        /\ task'[t].step = 1 /\ task'[t].broken = FALSE
      BY <1>2, <2>2, Records DEF Replay
  <2>5. Shape'
      BY <2>1, <2>2, <2>3, <2>4 DEF Shape
  <2>6. QED BY <2>1, <2>2, <2>3, <2>4, <2>5
<1>3. QED BY <1>1, <1>2

LEMMA EndRoundChange ==
    ASSUME Shape, EndRound
    PROVE  /\ \A p \in Pools : pool'[p] = NoPool
           /\ task' = task
           /\ Shape'
<1>1. /\ \A p \in Pools : pool'[p] = NoPool
      /\ pool' \in [Pools -> PoolType]
    BY PoolRecords DEF EndRound
<1>2. QED BY <1>1, OffShape DEF EndRound, Shape

LEMMA ShapeStep == Shape /\ [Next]_vars => Shape'
<1> SUFFICES ASSUME Shape, [Next]_vars PROVE Shape'
    OBVIOUS
<1>1. ASSUME NEW t \in Tasks, TaskStep(t) PROVE Shape'
    BY <1>1, TaskKind, TaskShape
<1>2. ASSUME NEW o \in Orgs, Trigger(o) \/ \E t \in Requests : Replay(t, o) PROVE Shape'
    BY <1>2, BesideChange
<1>3. CASE LoopStep
    BY <1>3, WakeChange, JoinChange, EndRoundChange DEF LoopStep
<1>4. CASE BeginStop \/ EndStop \/ Restart
    BY <1>4, StopChange, EndStopChange, RestartChange
<1>5. CASE \/ \E k \in Breakers : CoolDown(k)
           \/ \E o \in Orgs : StaleAgain(o)
           \/ UNCHANGED vars
    BY <1>5 DEF CoolDown, StaleAgain, vars, Shape
<1>6. QED BY <1>1, <1>2, <1>3, <1>4, <1>5 DEF Next

LEMMA AlwaysShape == Spec => []Shape
<1>1. Init => Shape
    BY Records, PoolRecords DEF Init, Shape
<1>2. QED BY <1>1, ShapeStep, PTL DEF Spec

-----------------------------------------------------------------------------
(* The breakers.  The history never counts less than the code, and counts  *)
(* up to the threshold before a breaker opens.                             *)
BreakerInv ==
    /\ streak \in [Breakers -> 0..Threshold]
    /\ failed \in [Breakers -> 0..Threshold]
    /\ open \subseteq Breakers
    /\ \A k \in Breakers : streak[k] <= failed[k]
    /\ PausedAfterFailures

LEMMA KeyIsBreaker ==
    ASSUME Shape, NEW t \in Tasks, task[t].at = "calling", HasBreaker(t)
    PROVE  Key(t) \in Breakers
BY DEF Shape, HasBreaker, Key, Breakers

LEMMA SucceededKeeps ==
    ASSUME BreakerInv, NEW k \in Breakers, Succeeded(k)
    PROVE  BreakerInv'
BY SchedulerAssumption DEF BreakerInv, Succeeded, PausedAfterFailures

LEMMA FailureKeeps ==
    ASSUME BreakerInv, NEW k \in Breakers, CountFailure(k),
           failed' = [failed EXCEPT ![k] = Capped(@ + 1)]
    PROVE  BreakerInv'
<1>1. Threshold \in Nat
    BY SchedulerAssumption
<1>2. \A n \in 0..Threshold : Capped(n + 1) \in 0..Threshold
    BY <1>1 DEF Capped
<1>3. /\ streak' \in [Breakers -> 0..Threshold]
      /\ failed' \in [Breakers -> 0..Threshold]
      /\ open' \subseteq Breakers
    BY <1>2 DEF BreakerInv, CountFailure
<1>4. ASSUME NEW i \in Breakers PROVE streak'[i] <= failed'[i]
    BY <1>1 DEF BreakerInv, CountFailure, Capped
<1>5. ASSUME NEW i \in open' PROVE failed'[i] = Threshold
    BY <1>1 DEF BreakerInv, CountFailure, Capped, PausedAfterFailures
<1>6. QED BY <1>3, <1>4, <1>5 DEF BreakerInv, PausedAfterFailures

LEMMA BreakerStep == Shape /\ BreakerInv /\ [Next]_vars => BreakerInv'
<1> SUFFICES ASSUME Shape, BreakerInv, [Next]_vars PROVE BreakerInv'
    OBVIOUS
<1> DEFINE Same == UNCHANGED <<streak, open, failed>>
<1>1. Same => BreakerInv'
    BY DEF BreakerInv, PausedAfterFailures
<1>2. ASSUME NEW t \in Tasks, TaskStep(t) PROVE BreakerInv'
  <2>1. CASE Succeed(t)
    <3>1. CASE HasBreaker(t)
        BY <2>1, <3>1, KeyIsBreaker, SucceededKeeps DEF Succeed
    <3>2. QED BY <1>1, <2>1, <3>1 DEF Succeed
  <2>2. CASE Fail(t)
    <3>1. CASE HasBreaker(t)
        BY <2>2, <3>1, KeyIsBreaker, FailureKeeps DEF Fail
    <3>2. QED BY <1>1, <2>2, <3>1 DEF Fail
  <2>3. QED BY <1>1, <1>2, <2>1, <2>2
            DEF TaskStep, Skip, Begin, Raise, Return, Enter, Take, Exit, memory, history
<1>3. ASSUME NEW k \in Breakers, CoolDown(k) PROVE BreakerInv'
    BY <1>3 DEF CoolDown, history, BreakerInv, PausedAfterFailures
<1>4. CASE Restart
    BY <1>4, SchedulerAssumption DEF Restart, Boot, BreakerInv, PausedAfterFailures
<1>5. CASE \/ LoopStep \/ BeginStop \/ EndStop \/ UNCHANGED vars
           \/ \E o \in Orgs : StaleAgain(o) \/ Trigger(o) \/ \E t \in Requests : Replay(t, o)
    BY <1>1, <1>5 DEF LoopStep, Wake, Join, EndRound, BeginStop, EndStop, StaleAgain, Trigger,
       Replay, vars, memory, history
<1>6. QED BY <1>2, <1>3, <1>4, <1>5 DEF Next

LEMMA AlwaysBreakers == Spec => []BreakerInv
<1>1. Init => BreakerInv
    BY SchedulerAssumption DEF Init, BreakerInv, PausedAfterFailures
<1>2. QED BY <1>1, AlwaysShape, BreakerStep, PTL DEF Spec

(* The breaker of an integration is open only if it has failed as often as *)
(* the threshold asks since it last worked, whoever called it.             *)
THEOREM PausedRightly == Spec => []PausedAfterFailures
<1>1. BreakerInv => PausedAfterFailures
    BY DEF BreakerInv
<1>2. QED BY <1>1, AlwaysBreakers, PTL

-----------------------------------------------------------------------------
(* Sessions.  A session broken by the database is rolled back or ends with *)
(* its run, where failures are recorded; only that of the mailbox is not,  *)
(* and then the inbox controls are next.                                   *)
Controls == Len(Apis) + 2

AtControls(t) == t \notin Automators /\ task[t].step = Controls

Logged == settings.signals /\ settings.deadLetters

SessionInv ==
    \A t \in Tasks : InRun(t) =>
        /\ task[t].step >= 1
        /\ task[t].at = "calling" => task[t].step <= Len(Steps(t))
        /\ Logged /\ task[t].broken => AtControls(t)

LEMMA Appended ==
    ASSUME NEW S, NEW s \in Seq(S), NEW a, NEW b, NEW c
    PROVE  /\ Len(s \o <<a, b, c>>) = Len(s) + 3
           /\ \A i \in 1..Len(s) : (s \o <<a, b, c>>)[i] = s[i]
           /\ (s \o <<a, b, c>>)[Len(s) + 1] = a
           /\ (s \o <<a, b, c>>)[Len(s) + 2] = b
           /\ (s \o <<a, b, c>>)[Len(s) + 3] = c
<1> DEFINE U == S \cup {a, b, c}
<1>1. s \in Seq(U) /\ a \in U /\ b \in U /\ c \in U
    OBVIOUS
<1> HIDE DEF U
<1>2. QED BY <1>1

(* Where the mailbox and the inbox controls stand among the steps.         *)
LEMMA StepPlaces ==
    /\ Len(SyncSteps) = Len(Apis) + 3 /\ Len(Apis) \in Nat
    /\ SyncSteps[Controls] = "controls"
    /\ \A i \in 1..Len(SyncSteps) : SyncSteps[i] = "email" => i + 1 = Controls
<1>1. Apis \in Seq(STRING) /\ Len(Apis) \in Nat
    BY SchedulerAssumption
<1>2. /\ Len(SyncSteps) = Len(Apis) + 3
      /\ \A i \in 1..Len(Apis) : SyncSteps[i] = Apis[i]
      /\ SyncSteps[Len(Apis) + 2] = "controls" /\ SyncSteps[Len(Apis) + 3] = "rest"
    BY <1>1, Appended DEF SyncSteps
<1>3. \A i \in 1..Len(Apis) : Apis[i] \in ToSet(Apis)
    BY <1>1 DEF ToSet
<1>4. \A i \in 1..Len(Apis) : Apis[i] # "email"
    BY <1>3, SchedulerAssumption
<1>5. SyncSteps[Controls] = "controls"
    BY <1>2 DEF Controls
<1>6. ASSUME NEW i \in 1..Len(SyncSteps), SyncSteps[i] = "email" PROVE i + 1 = Controls
  <2>1. i \notin 1..Len(Apis)
      BY <1>2, <1>4, <1>6
  <2>2. i # Len(Apis) + 2 /\ i # Len(Apis) + 3
      BY <1>2, <1>6
  <2>3. QED BY <1>1, <1>2, <2>1, <2>2 DEF Controls
<1>7. QED BY <1>1, <1>2, <1>5, <1>6

LEMMA AdvanceSession ==
    ASSUME Shape, NEW t \in Tasks, NEW b \in BOOLEAN, Goto(t, Advanced(t, b)),
           settings' = settings, SessionInv, InRun(t),
           Logged /\ b => t \notin Automators /\ task[t].step + 1 = Controls
    PROVE  SessionInv'
<1>1. /\ task'[t].broken = b /\ task'[t].step = task[t].step + 1
      /\ \A u \in Tasks \ {t} : task'[u] = task[u]
    BY AdvancedRecord, GotoChange DEF Shape, Advanced
<1>2. task[t].step \in Nat /\ task'[t].at = "next"
    BY AdvancedRecord, GotoChange DEF Shape, TaskType
<1>3. QED BY <1>1, <1>2 DEF SessionInv, InRun, AtControls, Controls, Logged

(* A task that is not in a run afterwards has no session; one that enters  *)
(* a run has a new one.                                                    *)
NewRun(t) == task'[t].at = "next" /\ task'[t].step = 1 /\ task'[t].broken = FALSE

LEMMA LeaveSession ==
    ASSUME settings' = settings, SessionInv,
           \A t \in Tasks : task'[t] = task[t] \/ ~InRun(t)' \/ NewRun(t)
    PROVE  SessionInv'
BY DEF SessionInv, InRun, NewRun, Logged, AtControls

LEMMA FailSession ==
    ASSUME Shape, SessionInv, NEW t \in Tasks, Fail(t)
    PROVE  SessionInv'
<1>1. PICK broken \in BOOLEAN :
        IF RecordRaises(t, broken)
        THEN Ended(t, "listed")
        ELSE /\ Goto(t, Advanced(t, SessionAfter(t, broken)))
             /\ UNCHANGED <<settings, loop, pool, fresh, locked, served>>
    BY DEF Fail
<1>2. CASE RecordRaises(t, broken)
  <2>1. /\ \A u \in Tasks \ {t} : task'[u] = task[u]
        /\ task'[t].at \in {"off", "free", "died"}
      BY <1>1, <1>2, AfterRecord, GotoChange DEF Ended, Shape
  <2>2. QED BY <1>1, <1>2, <2>1, LeaveSession DEF Ended, InRun
<1>3. CASE ~RecordRaises(t, broken)
  <2>1. SessionAfter(t, broken) \in BOOLEAN
      BY DEF SessionAfter
  <2>2. ASSUME Logged, SessionAfter(t, broken)
        PROVE  t \notin Automators /\ task[t].step + 1 = Controls
    <3>1. t \notin Automators /\ broken
        BY <2>2 DEF SessionAfter, Logged
    <3>2. SyncSteps[task[t].step] = "email"
        BY <1>3, <2>2, <3>1 DEF RecordRaises, Name, Steps, Logged
    <3>3. task[t].step \in 1..Len(SyncSteps)
      <4>1. /\ task[t].at = "calling" /\ task[t].step \in Nat
            /\ task[t].step >= 1 /\ task[t].step <= Len(Steps(t))
          BY DEF Fail, SessionInv, InRun, Shape, TaskType
      <4>2. QED BY <3>1, <4>1, StepPlaces DEF Steps
    <3>4. QED BY <3>1, <3>2, <3>3, StepPlaces
  <2>3. InRun(t)
      BY DEF Fail, InRun
  <2>4. QED BY <1>1, <1>3, <2>1, <2>2, <2>3, AdvanceSession
<1>4. QED BY <1>2, <1>3

LEMMA SessionStep == Shape /\ BreakerInv /\ SessionInv /\ [Next]_vars => SessionInv'
<1> SUFFICES ASSUME Shape, BreakerInv, SessionInv, [Next]_vars PROVE SessionInv'
    OBVIOUS
<1>1. ASSUME NEW t \in Tasks, TaskStep(t) PROVE SessionInv'
  <2>1. CASE Skip(t)
    <3>1. task[t].broken \in BOOLEAN /\ InRun(t)
        BY <2>1 DEF Shape, TaskType, Skip, Ahead, InRun
    <3>2. ASSUME t \notin Automators, task[t].step = Controls PROVE FALSE
      <4>1. Key(t) \in Breakers
          BY <2>1, <3>2 DEF Skip, Paused, BreakerInv
      <4>2. Key(t)[2] = "controls"
          BY <3>2, StepPlaces DEF Key, Name, Steps
      <4>3. "controls" \in Guarded
          BY <4>1, <4>2 DEF Breakers
      <4>4. QED BY <4>3, SchedulerAssumption DEF Guarded
    <3>3. Logged => ~task[t].broken
        BY <3>1, <3>2 DEF SessionInv, AtControls
    <3>4. QED BY <2>1, <3>1, <3>3, AdvanceSession DEF Skip
  <2>2. CASE Begin(t)
    <3>1. /\ task'[t].broken = task[t].broken
          /\ \A u \in Tasks \ {t} : task'[u] = task[u]
        BY <2>2, CallingRecord, GotoChange DEF Begin, Shape
    <3>2. task'[t].step = task[t].step
        BY <2>2, CallingRecord, GotoChange DEF Begin, Shape
    <3>3. QED BY <2>2, <3>1, <3>2 DEF SessionInv, Begin, Ahead, InRun, AtControls, Logged, Steps
  <2>3. CASE Succeed(t)
      BY <2>3, AdvanceSession DEF Succeed, InRun
  <2>4. CASE Fail(t)
      BY <2>4, FailSession
  <2>5. ASSUME NEW how, Ended(t, how) PROVE SessionInv'
    <3>1. /\ \A u \in Tasks \ {t} : task'[u] = task[u]
          /\ task'[t].at \in {"off", "free", "died"}
        BY <2>5, AfterRecord, GotoChange DEF Ended, Shape
    <3>2. QED BY <2>5, <3>1, LeaveSession DEF Ended, InRun
  <2>6. CASE Enter(t)
    <3>1. task[t].org \in Orgs
        BY <2>6 DEF Enter, Shape
    <3>2. /\ \A u \in Tasks \ {t} : task'[u] = task[u]
          /\ task'[t].at = "off" \/ NewRun(t)
        BY <2>6, <3>1, Records, GotoChange DEF Enter, Shape, NewRun
    <3>3. QED BY <2>6, <3>2, LeaveSession DEF Enter, InRun
  <2>7. ASSUME NEW p \in Pools, Take(p, t) PROVE SessionInv'
    <3>1. Head(pool[p].todo) \in Orgs
        BY <2>7 DEF Take, Shape, PoolType
    <3>2. /\ \A u \in Tasks \ {t} : task'[u] = task[u]
          /\ NewRun(t)
        BY <2>7, <3>1, Records, GotoChange DEF Take, Shape, NewRun
    <3>3. QED BY <2>7, <3>2, LeaveSession DEF Take
  <2>8. ASSUME NEW p \in Pools, Exit(p, t) PROVE SessionInv'
    <3>1. /\ \A u \in Tasks \ {t} : task'[u] = task[u]
          /\ task'[t].at = "exited"
        BY <2>8, Records, GotoChange DEF Exit, Shape
    <3>2. QED BY <2>8, <3>1, LeaveSession DEF Exit, InRun
  <2>9. QED BY <1>1, <2>1, <2>2, <2>3, <2>4, <2>5, <2>6, <2>7, <2>8 DEF TaskStep, Raise, Return
<1>2. ASSUME NEW o \in Orgs, Trigger(o) \/ \E t \in Requests : Replay(t, o) PROVE SessionInv'
    BY <1>2, BesideChange, LeaveSession DEF NewRun, InRun
<1>3. CASE Wake
    BY <1>3, WakeChange, LeaveSession DEF Wake, InRun
<1>4. ASSUME NEW p \in Pools, Join(p) PROVE SessionInv'
    BY <1>4, JoinChange, LeaveSession DEF Join, InRun
<1>5. CASE BeginStop
    BY <1>5, StopChange, LeaveSession DEF BeginStop, InRun
<1>6. CASE EndStop
    BY <1>6, EndStopChange, LeaveSession DEF EndStop, InRun
<1>7. CASE Restart
    BY <1>7, RestartChange, LeaveSession DEF Restart, InRun
<1>8. CASE \/ EndRound \/ UNCHANGED vars \/ \E k \in Breakers : CoolDown(k)
           \/ \E o \in Orgs : StaleAgain(o)
    BY <1>8, LeaveSession DEF EndRound, vars, CoolDown, StaleAgain
<1>9. QED BY <1>1, <1>2, <1>3, <1>4, <1>5, <1>6, <1>7, <1>8 DEF Next, LoopStep

(* With signals and dead letters on, no step but the inbox controls is     *)
(* called on a session that an earlier one has left unusable, and nothing  *)
(* is called on it after them.                                             *)
THEOREM SessionsUsable == Spec => []CalledOnUsableSession
<1>1. Init => SessionInv
    BY Records DEF Init, SessionInv, InRun
<1>2. ASSUME SessionInv PROVE CalledOnUsableSession
  <2>1. ASSUME NEW t \in Tasks, task[t].at = "calling", task[t].broken, Logged
        PROVE  FollowsMailbox(t)
    <3>1. AtControls(t)
        BY <1>2, <2>1 DEF SessionInv, InRun
    <3>2. QED BY <3>1, StepPlaces DEF AtControls, FollowsMailbox, Name, Steps
  <2>2. QED BY <2>1 DEF CalledOnUsableSession, Logged
<1>3. QED BY <1>1, <1>2, AlwaysShape, AlwaysBreakers, SessionStep, PTL DEF Spec

-----------------------------------------------------------------------------
(* The queues and locks.  An organization of a round is waiting, in a run  *)
(* of exactly one worker, or served; the count of a pool is that of the    *)
(* first two; the lock of an organization is held by the one on-demand     *)
(* sync of it.                                                             *)
Runners(p) == {t \in Workers[p] : InRun(t)}
Locking    == {t \in OnDemand : InRun(t)}

OrgsOf(S)   == {task[t].org : t \in S}
Distinct(S) == \A t, u \in S : t # u => task[t].org # task[u].org

QueueInv(p) ==
    /\ pool[p].at # "open" => pool[p].left = 0 /\ \A t \in Workers[p] : task[t].at = "off"
    /\ \A t \in Workers[p] :
         /\ t \notin settings.crew => task[t].at = "off"
         /\ task[t].at = "exited" => pool[p].todo = <<>>
    /\ pool[p].at = "open" =>
         /\ IsInjective(pool[p].todo)
         /\ OrgsOf(Runners(p)) \cap ToSet(pool[p].todo) = {}
         /\ Distinct(Runners(p))
         /\ pool[p].left = Len(pool[p].todo) + Cardinality(Runners(p))
         /\ served[p] \cup OrgsOf(Runners(p)) \cup ToSet(pool[p].todo) = ToSet(settings.orgs)
    /\ pool[p].at = "joined" => served[p] = ToSet(settings.orgs)

LockInv ==
    /\ \A t \in Tasks : task[t].at = "created" => t \in OnDemand
    /\ locked = OrgsOf(Locking)
    /\ Distinct(Locking)

LoopInv ==
    /\ loop # "round" => \A p \in Pools : pool[p].at = "off"
    /\ loop = "stopped" => \A t \in OnDemand : task[t].at = "off"

RunInv == Shape /\ (\A p \in Pools : QueueInv(p)) /\ LockInv /\ LoopInv

LEMMA TailFacts ==
    ASSUME NEW S, NEW q \in Seq(S), q # <<>>
    PROVE  /\ Len(Tail(q)) = Len(q) - 1
           /\ ToSet(q) = {Head(q)} \cup ToSet(Tail(q))
           /\ IsInjective(q) => IsInjective(Tail(q)) /\ Head(q) \notin ToSet(Tail(q))
<1>1. /\ Len(q) \in Nat \ {0} /\ Len(Tail(q)) = Len(q) - 1
      /\ DOMAIN q = 1..Len(q) /\ DOMAIN Tail(q) = 1..(Len(q) - 1)
      /\ \A i \in 1..(Len(q) - 1) : Tail(q)[i] = q[i + 1]
      /\ Head(q) = q[1]
    OBVIOUS
<1>2. ASSUME NEW i \in 1..Len(q) PROVE q[i] \in {Head(q)} \cup ToSet(Tail(q))
  <2>1. CASE i = 1
      BY <1>1, <2>1
  <2>2. CASE i # 1
    <3>1. i - 1 \in 1..(Len(q) - 1) /\ Tail(q)[i - 1] = q[i]
        BY <1>1, <2>2
    <3>2. QED BY <1>1, <3>1 DEF ToSet
  <2>3. QED BY <2>1, <2>2
<1>3. ASSUME NEW i \in 1..(Len(q) - 1) PROVE Tail(q)[i] \in ToSet(q)
    BY <1>1 DEF ToSet
<1>4. Head(q) \in ToSet(q)
    BY <1>1 DEF ToSet
<1>5. ToSet(q) = {Head(q)} \cup ToSet(Tail(q))
    BY <1>1, <1>2, <1>3, <1>4 DEF ToSet
<1>6. ASSUME IsInjective(q) PROVE IsInjective(Tail(q)) /\ Head(q) \notin ToSet(Tail(q))
  <2>1. \A i, j \in 1..Len(q) : q[i] = q[j] => i = j
      BY <1>1, <1>6 DEF IsInjective
  <2>2. IsInjective(Tail(q))
      BY <1>1, <2>1 DEF IsInjective
  <2>3. ASSUME NEW i \in 1..(Len(q) - 1) PROVE Tail(q)[i] # q[1]
      BY <1>1, <2>1
  <2>4. QED BY <1>1, <2>2, <2>3 DEF ToSet
<1>7. QED BY <1>1, <1>5, <1>6

LEMMA RunnersFinite ==
    ASSUME NEW p \in Pools
    PROVE  IsFiniteSet(Runners(p)) /\ Cardinality(Runners(p)) \in Nat
<1>1. IsFiniteSet(Workers[p]) /\ Runners(p) \subseteq Workers[p]
    BY WorkerFacts DEF Runners
<1>2. QED BY <1>1, FS_Subset, FS_CardinalityType

(* A pool is as it was if its queue is, and its workers stay in their runs.*)
LEMMA QueueFrame ==
    ASSUME NEW p \in Pools, QueueInv(p), pool'[p] = pool[p], served'[p] = served[p],
           settings' = settings,
           \A t \in Workers[p] : /\ InRun(t)' <=> InRun(t)
                                 /\ InRun(t) => task'[t].org = task[t].org
                                 /\ task[t].at = "off" => task'[t].at = "off"
                                 /\ task'[t].at = "exited" =>
                                        task[t].at = "exited" \/ pool[p].todo = <<>>
    PROVE  QueueInv(p)'
<1>1. Runners(p)' = Runners(p)
    BY DEF Runners
<1>2. OrgsOf(Runners(p))' = OrgsOf(Runners(p))
  <2>1. \A t \in Runners(p) : task'[t].org = task[t].org
      BY DEF Runners
  <2>2. QED BY <1>1, <2>1 DEF OrgsOf
<1>3. Distinct(Runners(p)) => Distinct(Runners(p))'
  <2>1. \A t \in Runners(p) : task'[t].org = task[t].org
      BY DEF Runners
  <2>2. QED BY <1>1, <2>1 DEF Distinct
<1>4. QED BY <1>1, <1>2, <1>3 DEF QueueInv

LEMMA LockFrame ==
    ASSUME LockInv, locked' = locked,
           \A t \in Tasks : task'[t].at = "created" => task[t].at = "created" \/ t \in OnDemand,
           \A t \in OnDemand : /\ InRun(t)' <=> InRun(t)
                               /\ InRun(t) => task'[t].org = task[t].org
    PROVE  LockInv'
<1>1. Locking' = Locking /\ \A t \in Locking : task'[t].org = task[t].org
    BY DEF Locking
<1>2. OrgsOf(Locking)' = OrgsOf(Locking)
    BY <1>1 DEF OrgsOf
<1>3. Distinct(Locking)'
    BY <1>1 DEF Distinct, LockInv
<1>4. QED BY <1>2, <1>3 DEF LockInv

LEMMA TakeQueue ==
    ASSUME Shape, NEW p \in Pools, NEW t \in Tasks, QueueInv(p), Takes(p, t),
           settings' = settings, \A u \in Tasks \ {t} : task'[u] = task[u]
    PROVE  QueueInv(p)'
<1> DEFINE q == pool[p].todo
           S == Runners(p)
<1>1. /\ q \in Seq(Orgs) /\ q # <<>> /\ t \in Workers[p] /\ t \notin S
      /\ pool[p].at = "open"
    BY DEF Shape, PoolType, Takes, QueueInv, Runners, InRun
<1>2. /\ pool'[p].at = pool[p].at /\ pool'[p].todo = Tail(q) /\ pool'[p].left = pool[p].left
      /\ served' = served
    BY TakenPool DEF Takes
<1>3. Runners(p)' = S \cup {t} /\ task'[t].org = Head(q) /\ \A u \in S : task'[u].org = task[u].org
    BY <1>1, WorkerFacts DEF Takes, Runners, InRun
<1>4. /\ Len(Tail(q)) = Len(q) - 1 /\ ToSet(q) = {Head(q)} \cup ToSet(Tail(q))
      /\ IsInjective(Tail(q)) /\ Head(q) \notin ToSet(Tail(q))
    BY <1>1, TailFacts DEF QueueInv
<1>5. Cardinality(S \cup {t}) = Cardinality(S) + 1 /\ Cardinality(S) \in Nat
    BY <1>1, RunnersFinite, FS_AddElement
<1>6. OrgsOf(Runners(p))' = OrgsOf(S) \cup {Head(q)}
    BY <1>3 DEF OrgsOf
<1>7. Distinct(Runners(p))'
    BY <1>1, <1>3, <1>4 DEF Distinct, QueueInv, OrgsOf
<1>8. pool'[p].left = Len(Tail(q)) + Cardinality(Runners(p)')
    BY <1>1, <1>2, <1>3, <1>4, <1>5 DEF QueueInv
<1>9. /\ OrgsOf(Runners(p))' \cap ToSet(Tail(q)) = {}
      /\ served[p] \cup OrgsOf(Runners(p))' \cup ToSet(Tail(q)) = ToSet(settings.orgs)
    BY <1>1, <1>4, <1>6 DEF QueueInv
<1>10. \A u \in Workers[p] : /\ u \notin settings.crew => task'[u].at = "off"
                            /\ task'[u].at # "exited"
  <2>1. t \in settings.crew /\ task'[t].at = "next"
      BY <1>1 DEF Takes, QueueInv
  <2>2. \A u \in Workers[p] : /\ u \notin settings.crew => task[u].at = "off"
                              /\ task[u].at # "exited"
      BY <1>1 DEF QueueInv
  <2>3. QED BY <2>1, <2>2, WorkerFacts
<1>11. QED BY <1>1, <1>2, <1>4, <1>7, <1>8, <1>9, <1>10 DEF QueueInv

LEMMA EndQueue ==
    ASSUME Shape, NEW p \in Pools, NEW t \in Workers[p], QueueInv(p), Ends(t),
           settings' = settings, \A u \in Tasks \ {t} : task'[u] = task[u]
    PROVE  QueueInv(p)'
<1> DEFINE S == Runners(p)
<1>1. t \in S /\ pool[p].at = "open"
    BY DEF Ends, QueueInv, Runners, InRun
<1>2. /\ pool'[p].at = pool[p].at /\ pool'[p].todo = pool[p].todo
      /\ pool'[p].left = pool[p].left - 1
      /\ served'[p] = served[p] \cup {task[t].org}
    BY CountedPool DEF Ends
<1>3. Runners(p)' = S \ {t} /\ \A u \in S \ {t} : task'[u].org = task[u].org
    BY <1>1, WorkerFacts DEF Ends, Runners, InRun
<1>4. Cardinality(S \ {t}) = Cardinality(S) - 1 /\ Cardinality(S) \in Nat
    BY <1>1, RunnersFinite, FS_RemoveElement
<1>5. OrgsOf(Runners(p))' \cup {task[t].org} = OrgsOf(S) /\ OrgsOf(Runners(p))' \subseteq OrgsOf(S)
    BY <1>1, <1>3 DEF OrgsOf
<1>6. Distinct(Runners(p))'
    BY <1>1, <1>3 DEF Distinct, QueueInv
<1>7. pool'[p].left = Len(pool'[p].todo) + Cardinality(Runners(p)')
  <2>1. Len(pool[p].todo) \in Nat /\ pool[p].left = Len(pool[p].todo) + Cardinality(S)
      BY <1>1 DEF Shape, PoolType, QueueInv
  <2>2. QED BY <1>2, <1>3, <1>4, <2>1
<1>8. /\ OrgsOf(Runners(p))' \cap ToSet(pool[p].todo) = {}
      /\ served'[p] \cup OrgsOf(Runners(p))' \cup ToSet(pool[p].todo) = ToSet(settings.orgs)
    BY <1>1, <1>2, <1>5 DEF QueueInv
<1>9. \A u \in Workers[p] : /\ u \notin settings.crew => task'[u].at = "off"
                            /\ task'[u].at = "exited" => pool[p].todo = <<>>
  <2>1. t \in settings.crew /\ task'[t].at # "exited"
      BY <1>1 DEF Ends, QueueInv, Runners, InRun
  <2>2. \A u \in Workers[p] : /\ u \notin settings.crew => task[u].at = "off"
                              /\ task[u].at = "exited" => pool[p].todo = <<>>
      BY DEF QueueInv
  <2>3. QED BY <2>1, <2>2, WorkerFacts
<1>10. QED BY <1>1, <1>2, <1>6, <1>7, <1>8, <1>9 DEF QueueInv

LEMMA WakeQueue ==
    ASSUME Shape, NEW p \in Pools, QueueInv(p), Wake, pool[p].at = "off"
    PROVE  QueueInv(p)'
<1>1. /\ pool'[p].at = "open" /\ pool'[p].todo = settings.orgs
      /\ pool'[p].left = Len(settings.orgs)
      /\ served'[p] = {} /\ settings' = settings
    BY WakeChange DEF Wake
<1>2. \A t \in Workers[p] : /\ task'[t].at \in {"off", "free"}
                            /\ t \notin settings.crew => task'[t].at = "off"
  <2>1. \A t \in Workers[p] : t \in Tasks /\ task[t].at = "off"
      BY WorkerFacts DEF QueueInv
  <2>2. \A t \in Workers[p] : t \notin settings.crew => task'[t] = task[t]
      BY <2>1 DEF Wake, Hired
  <2>3. QED BY <2>1, <2>2, WakeChange
<1>3. Runners(p)' = {}
    BY <1>2 DEF Runners, InRun
<1>4. Cardinality({}) = 0
    BY FS_EmptySet
<1>5. OrgsOf(Runners(p))' = {} /\ Distinct(Runners(p))'
    BY <1>3 DEF OrgsOf, Distinct
<1>6. IsInjective(settings.orgs) /\ Len(settings.orgs) \in Nat
    BY SettingsFacts DEF Shape
<1>7. pool'[p].left = Len(pool'[p].todo) + Cardinality(Runners(p)')
    BY <1>1, <1>3, <1>4, <1>6
<1>8. QED BY <1>1, <1>2, <1>5, <1>6, <1>7 DEF QueueInv

LEMMA JoinQueue ==
    ASSUME Shape, NEW p \in Pools, QueueInv(p), Join(p)
    PROVE  QueueInv(p)'
<1>1. pool[p].at = "open" /\ pool[p].left = 0 /\ pool[p].todo \in Seq(Orgs)
    BY DEF Join, Shape, PoolType
<1>2. Len(pool[p].todo) \in Nat /\ Len(pool[p].todo) + Cardinality(Runners(p)) = 0
    BY <1>1 DEF QueueInv
<1>3. Len(pool[p].todo) = 0 /\ Runners(p) = {}
    BY <1>2, RunnersFinite, FS_EmptySet
<1>4. ToSet(pool[p].todo) = {} /\ OrgsOf(Runners(p)) = {}
    BY <1>1, <1>3 DEF ToSet, OrgsOf
<1>5. served[p] = ToSet(settings.orgs) /\ served' = served /\ settings' = settings
    BY <1>1, <1>4 DEF QueueInv, Join, history
<1>6. pool'[p].at = "joined" /\ pool'[p].left = 0 /\ \A t \in Workers[p] : task'[t].at = "off"
  <2>1. pool'[p].at = "joined" /\ \A t \in Workers[p] : task'[t].at = "off"
      BY JoinChange, WorkerFacts
  <2>2. pool'[p].left = pool[p].left
      BY DEF Join, Shape, PoolType
  <2>3. QED BY <1>1, <2>1, <2>2
<1>7. QED BY <1>5, <1>6 DEF QueueInv

LEMMA OffQueue ==
    ASSUME NEW p \in Pools, pool'[p] = NoPool, \A t \in Workers[p] : task'[t].at = "off"
    PROVE  QueueInv(p)'
BY PoolRecords DEF QueueInv, NoPool

(* An on-demand sync that ends gives back the lock that it alone holds.    *)
LEMMA EndLock ==
    ASSUME Shape, LockInv, NEW t \in OnDemand, Ends(t), \A u \in Tasks \ {t} : task'[u] = task[u]
    PROVE  LockInv'
<1>1. t \in Locking /\ t \in Tasks /\ task'[t].at = "off"
    BY WorkerFacts, SchedulerAssumption DEF Ends, Locking
<1>2. Locking' = Locking \ {t} /\ \A u \in Locking \ {t} : task'[u] = task[u]
    BY <1>1, WorkerFacts DEF Locking, InRun
<1>3. locked' = OrgsOf(Locking) \ {task[t].org}
    BY DEF Ends, LockInv
<1>4. OrgsOf(Locking)' = OrgsOf(Locking) \ {task[t].org}
    BY <1>1, <1>2 DEF OrgsOf, LockInv, Distinct
<1>5. Distinct(Locking)'
    BY <1>2 DEF Distinct, LockInv
<1>6. \A u \in Tasks : task'[u].at = "created" => u \in OnDemand
    BY <1>1 DEF LockInv
<1>7. QED BY <1>3, <1>4, <1>5, <1>6 DEF LockInv

LEMMA EnterLock ==
    ASSUME Shape, LockInv, NEW t \in Tasks, Enters(t), \A u \in Tasks \ {t} : task'[u] = task[u]
    PROVE  LockInv'
<1>1. t \in OnDemand /\ t \notin Locking
    BY DEF Enters, LockInv, Locking, InRun
<1>2. CASE task[t].org \in locked
    BY <1>1, <1>2, LockFrame, WorkerFacts DEF Enters, InRun
<1>3. CASE task[t].org \notin locked
  <2>1. Locking' = Locking \cup {t} /\ task'[t].org = task[t].org
        /\ \A u \in Locking : task'[u].org = task[u].org
      BY <1>1, <1>3, WorkerFacts DEF Enters, Locking, InRun
  <2>2. OrgsOf(Locking)' = OrgsOf(Locking) \cup {task[t].org}
      BY <2>1 DEF OrgsOf
  <2>3. Distinct(Locking)'
      BY <1>1, <1>3, <2>1 DEF Distinct, LockInv, OrgsOf
  <2>4. \A u \in Tasks : task'[u].at = "created" => u \in OnDemand
      BY <1>1 DEF LockInv
  <2>5. QED BY <1>3, <2>2, <2>3, <2>4 DEF LockInv, Enters
<1>4. QED BY <1>2, <1>3

LEMMA TaskRuns ==
    ASSUME RunInv, NEW t \in Tasks, OneTask(t)
    PROVE  RunInv'
<1>1. ASSUME NEW p \in Pools PROVE QueueInv(p)'
  <2>1. CASE t \notin Workers[p]
    <3>1. pool'[p] = pool[p] /\ served'[p] = served[p]
      <4>1. CASE Ends(t)
          BY <2>1, <4>1 DEF Ends, Counted
      <4>2. ASSUME NEW q \in Pools, Takes(q, t) PROVE pool'[p] = pool[p] /\ served'[p] = served[p]
          BY <2>1, <4>2, TakenPool DEF Takes, RunInv
      <4>3. QED BY <4>1, <4>2 DEF OneTask, GoesOn, Enters, Exits
    <3>2. QED BY <2>1, <3>1, QueueFrame, WorkerFacts DEF OneTask, RunInv, InRun
  <2>2. CASE t \in Workers[p]
    <3>1. CASE GoesOn(t)
        BY <2>2, <3>1, QueueFrame, WorkerFacts DEF GoesOn, OneTask, RunInv, InRun
    <3>2. CASE Ends(t)
        BY <2>2, <3>2, EndQueue DEF OneTask, RunInv
    <3>3. ~ Enters(t)
        BY <2>2, WorkerFacts DEF Enters, RunInv, LockInv
    <3>4. ASSUME NEW q \in Pools, Takes(q, t) PROVE QueueInv(p)'
      <4>1. q = p
          BY <2>2, <3>4, WorkerFacts DEF Takes
      <4>2. QED BY <3>4, <4>1, TakeQueue DEF OneTask, RunInv
    <3>5. ASSUME NEW q \in Pools, Exits(q, t) PROVE QueueInv(p)'
      <4>1. q = p
          BY <2>2, <3>5, WorkerFacts DEF Exits
      <4>2. QED BY <2>2, <3>5, <4>1, QueueFrame, WorkerFacts DEF Exits, OneTask, RunInv, InRun
    <3>6. QED BY <3>1, <3>2, <3>3, <3>4, <3>5 DEF OneTask
  <2>3. QED BY <2>1, <2>2
<1>2. LockInv'
  <2>1. CASE GoesOn(t)
      BY <2>1, LockFrame, WorkerFacts DEF GoesOn, OneTask, RunInv, InRun
  <2>2. CASE Ends(t) /\ t \in OnDemand
      BY <2>2, EndLock DEF OneTask, RunInv
  <2>3. CASE Ends(t) /\ t \notin OnDemand
      BY <2>3, LockFrame, WorkerFacts DEF Ends, OneTask, RunInv, InRun
  <2>4. CASE Enters(t)
      BY <2>4, EnterLock DEF OneTask, RunInv
  <2>5. ASSUME NEW p \in Pools, Takes(p, t) \/ Exits(p, t) PROVE LockInv'
    <3>1. t \notin OnDemand
        BY <2>5, WorkerFacts DEF Takes, Exits
    <3>2. QED BY <2>5, <3>1, LockFrame, WorkerFacts DEF Takes, Exits, OneTask, RunInv, InRun
  <2>6. QED BY <2>1, <2>2, <2>3, <2>4, <2>5 DEF OneTask
<1>3. LoopInv'
  <2>1. \A p \in Pools : pool[p].at = "off" => pool'[p].at = "off"
    <3>1. CASE Ends(t)
        BY <3>1, CountedPool DEF Ends, RunInv
    <3>2. ASSUME NEW q \in Pools, Takes(q, t), NEW p \in Pools, pool[p].at = "off"
          PROVE pool'[p].at = "off"
        BY <3>2, TakenPool DEF Takes, RunInv
    <3>3. QED BY <3>1, <3>2 DEF OneTask, GoesOn, Enters, Exits
  <2>2. t \in OnDemand /\ task[t].at = "off" => FALSE
      BY WorkerFacts DEF OneTask, GoesOn, Ends, Enters, Takes, Exits, InRun
  <2>3. QED BY <2>1, <2>2, WorkerFacts DEF OneTask, RunInv, LoopInv
<1>4. QED BY <1>1, <1>2, <1>3, TaskShape DEF RunInv

LEMMA BesideRuns ==
    ASSUME RunInv, NEW o \in Orgs, Trigger(o) \/ \E t \in Requests : Replay(t, o)
    PROVE  RunInv'
<1>1. /\ UNCHANGED <<settings, loop, pool, locked, served>> /\ Shape' /\ loop # "stopped"
    BY BesideChange DEF RunInv, Running
<1>2. PICK t \in (OnDemand \cup Requests) \cap Tasks :
        /\ task[t].at = "off"
        /\ IF t \in OnDemand THEN task'[t].at = "created" ELSE task'[t].at = "next"
        /\ \A u \in Tasks \ {t} : task'[u] = task[u]
    BY BesideChange DEF RunInv
<1>3. ASSUME NEW p \in Pools PROVE QueueInv(p)'
  <2>1. \A u \in Workers[p] : task'[u] = task[u]
      BY <1>2, WorkerFacts
  <2>2. QED BY <1>1, <2>1, QueueFrame DEF RunInv, InRun
<1>4. LockInv'
    BY <1>1, <1>2, LockFrame, WorkerFacts DEF RunInv, InRun
<1>5. QED BY <1>1, <1>3, <1>4 DEF RunInv, LoopInv

LEMMA LoopRuns ==
    ASSUME RunInv, LoopStep
    PROVE  RunInv'
<1>1. CASE Wake
  <2>1. \A p \in Pools : QueueInv(p)'
      BY <1>1, WakeQueue DEF RunInv, LoopInv, Wake
  <2>2. \A t \in OnDemand : task'[t] = task[t]
      BY <1>1, WorkerFacts DEF Wake, Hired
  <2>3. LockInv'
      BY <1>1, <2>2, LockFrame, WakeChange DEF RunInv, Wake, memory, InRun
  <2>4. QED BY <1>1, <2>1, <2>3, WakeChange DEF RunInv, LoopInv, Wake
<1>2. ASSUME NEW p \in Pools, Join(p) PROVE RunInv'
  <2>1. QueueInv(p)'
      BY <1>2, JoinQueue DEF RunInv
  <2>2. ASSUME NEW q \in Pools \ {p} PROVE QueueInv(q)'
    <3>1. \A t \in Workers[q] : task'[t] = task[t]
        BY <1>2, JoinChange, WorkerFacts DEF RunInv
    <3>2. QED BY <1>2, <3>1, QueueFrame, JoinChange DEF RunInv, Join, history, InRun
  <2>3. \A t \in OnDemand : task'[t] = task[t]
      BY <1>2, JoinChange, WorkerFacts DEF RunInv
  <2>4. LockInv'
      BY <1>2, <2>3, LockFrame, JoinChange DEF RunInv, Join, memory, InRun
  <2>5. loop = "round" /\ loop' = loop
    <3>1. pool[p].at # "off"
        BY <1>2 DEF Join
    <3>2. QED BY <1>2, <3>1 DEF RunInv, LoopInv, Join
  <2>6. QED BY <1>2, <2>1, <2>2, <2>4, <2>5, JoinChange DEF RunInv, LoopInv
<1>3. CASE EndRound
  <2>1. \A p \in Pools : QueueInv(p)'
    <3>1. \A p \in Pools : \A t \in Workers[p] : task[t].at = "off"
        BY <1>3 DEF EndRound, RunInv, QueueInv
    <3>2. QED BY <1>3, <3>1, EndRoundChange, OffQueue DEF RunInv
  <2>2. LockInv'
      BY <1>3, LockFrame, EndRoundChange DEF RunInv, EndRound, memory, InRun
  <2>3. LoopInv'
      BY <1>3, EndRoundChange, PoolRecords DEF RunInv, EndRound, LoopInv
  <2>4. QED BY <1>3, <2>1, <2>2, <2>3, EndRoundChange DEF RunInv
<1>4. QED BY <1>1, <1>2, <1>3 DEF LoopStep

LEMMA StopRuns ==
    ASSUME RunInv, BeginStop \/ EndStop \/ Restart
    PROVE  RunInv'
<1>1. CASE BeginStop
  <2>1. /\ \A p \in Pools : pool'[p] = NoPool
        /\ \A t \in Tasks : IF t \in Syncers \cup Automators THEN task'[t].at = "off"
                            ELSE task'[t] = task[t]
        /\ Shape'
      BY <1>1, StopChange DEF RunInv
  <2>2. \A p \in Pools : QueueInv(p)'
      BY <2>1, OffQueue, WorkerFacts
  <2>3. \A t \in OnDemand : task'[t] = task[t]
      BY <2>1, WorkerFacts, SchedulerAssumption
  <2>4. LockInv'
      BY <1>1, <2>1, <2>3, LockFrame DEF RunInv, BeginStop, memory, InRun
  <2>5. QED BY <1>1, <2>1, <2>2, <2>4, PoolRecords DEF RunInv, LoopInv, BeginStop
<1>2. CASE EndStop
  <2>1. /\ pool' = pool /\ UNCHANGED <<settings, served>>
        /\ \A t \in Tasks : IF t \in OnDemand THEN task'[t].at = "off" ELSE task'[t] = task[t]
        /\ Shape'
      BY <1>2, EndStopChange DEF RunInv, EndStop, history
  <2>2. \A p \in Pools : QueueInv(p)'
      BY <2>1, QueueFrame, WorkerFacts DEF RunInv, InRun
  <2>3. Locking' = {}
      BY <2>1, WorkerFacts DEF Locking, InRun
  <2>4. locked' = {}
    <3>1. CASE GraceOver
        BY <3>1 DEF GraceOver
    <3>2. CASE AllDone
      <4>1. Locking = {}
          BY <3>2 DEF AllDone, Alive, Locking, InRun
      <4>2. QED BY <3>2, <4>1 DEF AllDone, RunInv, LockInv, OrgsOf
    <3>3. QED BY <1>2, <3>1, <3>2 DEF EndStop
  <2>5. LockInv'
    <3>1. OrgsOf(Locking)' = {} /\ Distinct(Locking)'
        BY <2>3 DEF OrgsOf, Distinct
    <3>2. \A t \in Tasks : task'[t].at = "created" => t \in OnDemand
        BY <2>1 DEF RunInv, LockInv
    <3>3. QED BY <2>4, <3>1, <3>2 DEF LockInv
  <2>6. LoopInv'
      BY <1>2, <2>1, WorkerFacts DEF RunInv, LoopInv, EndStop
  <2>7. QED BY <2>1, <2>2, <2>5, <2>6 DEF RunInv
<1>3. CASE Restart
  <2>1. /\ \A p \in Pools : pool'[p] = NoPool
        /\ \A t \in Tasks : task'[t].at = "off"
        /\ Shape'
      BY <1>3, RestartChange DEF RunInv
  <2>2. \A p \in Pools : QueueInv(p)'
      BY <2>1, OffQueue, WorkerFacts
  <2>3. Locking' = {}
      BY <2>1, WorkerFacts DEF Locking, InRun
  <2>4. LockInv'
      BY <1>3, <2>1, <2>3 DEF LockInv, OrgsOf, Distinct, Restart, Boot
  <2>5. QED BY <1>3, <2>1, <2>2, <2>4, PoolRecords DEF RunInv, LoopInv, Restart, Boot
<1>4. QED BY <1>1, <1>2, <1>3

LEMMA AlwaysRuns == Spec => []RunInv
<1>1. Init => RunInv
  <2> SUFFICES ASSUME Init PROVE RunInv
      OBVIOUS
  <2>1. Shape
      BY Records, PoolRecords DEF Init, Shape
  <2>2. \A t \in Tasks : task[t].at = "off"
      BY Records DEF Init
  <2>3. \A p \in Pools : pool[p] = NoPool
      BY DEF Init
  <2>4. \A p \in Pools : QueueInv(p)
      BY <2>2, <2>3, PoolRecords, WorkerFacts DEF QueueInv, NoPool
  <2>5. LockInv
      BY <2>2, WorkerFacts DEF Init, LockInv, Locking, OrgsOf, Distinct, InRun
  <2>6. QED BY <2>1, <2>3, <2>4, <2>5, PoolRecords DEF RunInv, LoopInv, Init
<1>2. RunInv /\ [Next]_vars => RunInv'
  <2> SUFFICES ASSUME RunInv, [Next]_vars PROVE RunInv'
      OBVIOUS
  <2>1. ASSUME NEW t \in Tasks, TaskStep(t) PROVE RunInv'
      BY <2>1, TaskKind, TaskRuns DEF RunInv
  <2>2. CASE \/ \E k \in Breakers : CoolDown(k)
             \/ \E o \in Orgs : StaleAgain(o)
             \/ UNCHANGED vars
    <3>1. UNCHANGED <<settings, loop, pool, task, locked, served>>
        BY <2>2 DEF CoolDown, StaleAgain, vars, memory, history
    <3>2. Shape' /\ LoopInv'
        BY <3>1 DEF RunInv, Shape, LoopInv
    <3>3. \A p \in Pools : QueueInv(p)'
        BY <3>1, QueueFrame DEF RunInv, InRun
    <3>4. LockInv'
        BY <3>1, LockFrame DEF RunInv, InRun
    <3>5. QED BY <3>2, <3>3, <3>4 DEF RunInv
  <2>3. QED BY <2>1, <2>2, BesideRuns, LoopRuns, StopRuns DEF Next
<1>3. QED BY <1>1, <1>2, PTL DEF Spec

(* No organization is synced by two workers, automated by two, or synced on*)
(* demand by two tasks, at the same time.                                  *)
THEOREM OneRun == Spec => []OneRunEach
<1>1. RunInv => OneRunEach
  <2> SUFFICES ASSUME RunInv PROVE OneRunEach
      OBVIOUS
  <2>1. ASSUME NEW p \in Pools, NEW t \in Workers[p], NEW u \in Workers[p],
               t # u, InRun(t), InRun(u)
        PROVE  task[t].org # task[u].org
    <3>1. pool[p].at = "open" /\ t \in Runners(p) /\ u \in Runners(p)
        BY <2>1 DEF RunInv, QueueInv, InRun, Runners
    <3>2. QED BY <2>1, <3>1 DEF RunInv, QueueInv, Distinct
  <2>2. ASSUME NEW t \in OnDemand, NEW u \in OnDemand, t # u, InRun(t), InRun(u)
        PROVE  task[t].org # task[u].org
      BY <2>2 DEF RunInv, LockInv, Distinct, Locking
  <2>3. "integrations" \in Pools /\ "automation" \in Pools
      BY DEF Pools
  <2>4. QED BY <2>1, <2>2, <2>3, WorkerFacts DEF OneRunEach
<1>2. QED BY <1>1, AlwaysRuns, PTL

(* A pool is joined only when every organization has been run.             *)
THEOREM NobodyDropped == Spec => []JoinedAfterAll
<1>1. RunInv => JoinedAfterAll
    BY DEF RunInv, QueueInv, JoinedAfterAll
<1>2. QED BY <1>1, AlwaysRuns, PTL

(* After the stop nothing that the scheduler started runs or holds a lock. *)
THEOREM StopsClean == Spec => []NothingAfterStop
<1>1. RunInv => NothingAfterStop
  <2> SUFFICES ASSUME RunInv, loop = "stopped"
               PROVE  (\A t \in Tasks \ Requests : task[t].at = "off") /\ locked = {}
      BY DEF NothingAfterStop
  <2>1. \A t \in OnDemand : task[t].at = "off"
      BY DEF RunInv, LoopInv
  <2>2. \A t \in Syncers \cup Automators : task[t].at = "off"
      BY WorkerFacts DEF RunInv, LoopInv, QueueInv
  <2>3. locked = {}
      BY <2>1 DEF RunInv, LockInv, OrgsOf, Locking, InRun
  <2>4. QED BY <2>1, <2>2, <2>3 DEF Tasks
<1>2. QED BY <1>1, AlwaysRuns, PTL

(* A pool with organizations waiting stands still only if all its workers  *)
(* have died.                                                              *)
THEOREM StandsStillWhenDead == Spec => []StuckMeansAllDied
<1>1. RunInv => StuckMeansAllDied
  <2> SUFFICES ASSUME RunInv, NEW p \in Pools, pool[p].at = "open", pool[p].left > 0,
                      \A t \in Hired(p) : task[t].at \in {"exited", "died"}
               PROVE  \A t \in Hired(p) : task[t].at = "died"
      BY DEF StuckMeansAllDied
  <2>1. \A t \in Workers[p] : task[t].at \in {"exited", "died", "off"}
      BY DEF RunInv, QueueInv, Hired
  <2>2. Runners(p) = {}
      BY <2>1 DEF Runners, InRun
  <2>3. Cardinality(Runners(p)) = 0
      BY <2>2, FS_EmptySet
  <2>4. pool[p].todo # <<>>
      BY <2>3 DEF RunInv, QueueInv
  <2>5. QED BY <2>4 DEF RunInv, QueueInv, Hired
<1>2. QED BY <1>1, AlwaysRuns, PTL

-----------------------------------------------------------------------------
(* Type correctness, from the invariants above and the types of the rest.  *)
Rest ==
    /\ loop \in {"sleep", "round", "stopping", "stopped"}
    /\ fresh \in SUBSET Orgs
    /\ served \in [Pools -> SUBSET Orgs]

LEMMA EndedRest ==
    ASSUME Shape, Rest, NEW t \in Tasks, NEW how, InRun(t), Ended(t, how)
    PROVE  Rest'
<1>1. task[t].org \in Orgs
    BY DEF Shape, InRun
<1>2. QED BY <1>1 DEF Rest, Ended

LEMMA RestStep == Shape /\ Rest /\ [Next]_vars => Rest'
<1> SUFFICES ASSUME Shape, Rest, [Next]_vars PROVE Rest'
    OBVIOUS
<1>1. ASSUME NEW t \in Tasks, TaskStep(t) PROVE Rest'
  <2>1. ASSUME NEW how, InRun(t), Ended(t, how) PROVE Rest'
      BY <2>1, EndedRest
  <2>2. CASE Fail(t)
    <3>1. PICK broken \in BOOLEAN :
            IF RecordRaises(t, broken)
            THEN Ended(t, "listed")
            ELSE UNCHANGED <<settings, loop, pool, fresh, locked, served>>
        BY <2>2 DEF Fail
    <3>2. QED BY <2>1, <2>2, <3>1 DEF Fail, InRun, Rest
  <2>3. CASE Raise(t) \/ Return(t)
      BY <2>1, <2>3 DEF Raise, Return, InRun
  <2>4. QED BY <1>1, <2>2, <2>3
            DEF TaskStep, Skip, Begin, Succeed, Enter, Take, Exit, memory, history, Rest
<1>2. ASSUME NEW o \in Orgs, Trigger(o) PROVE Rest'
    BY <1>2 DEF Trigger, Rest, history
<1>3. CASE Wake \/ Restart
    BY <1>3 DEF Wake, Restart, Boot, Rest, memory
<1>4. CASE \/ (\E p \in Pools : Join(p)) \/ EndRound \/ BeginStop \/ EndStop \/ UNCHANGED vars
           \/ \E k \in Breakers : CoolDown(k)
           \/ \E o \in Orgs : StaleAgain(o) \/ \E t \in Requests : Replay(t, o)
    BY <1>4 DEF Join, EndRound, BeginStop, EndStop, CoolDown, StaleAgain, Replay, vars,
       memory, history, Rest
<1>5. QED BY <1>1, <1>2, <1>3, <1>4 DEF Next, LoopStep

(* Every reachable state is well typed; above all, task_done is never      *)
(* called more often than there were organizations.                        *)
THEOREM TypeCorrect == Spec => []TypeOK
<1>1. Init => BreakerInv /\ Rest
    BY SchedulerAssumption DEF Init, BreakerInv, PausedAfterFailures, Rest
<1>2. RunInv /\ BreakerInv /\ Rest => TypeOK
  <2> SUFFICES ASSUME RunInv, BreakerInv, Rest PROVE TypeOK
      OBVIOUS
  <2>1. ASSUME NEW p \in Pools
        PROVE  /\ pool[p].at \in {"off", "open", "joined"}
               /\ pool[p].todo \in Seq(Orgs)
               /\ pool[p].left \in Nat
    <3>1. /\ pool[p].at \in {"off", "open", "joined"}
          /\ pool[p].todo \in Seq(Orgs)
          /\ Len(pool[p].todo) \in Nat
        BY DEF RunInv, Shape, PoolType
    <3>2. pool[p].left \in Nat
        BY <3>1, RunnersFinite DEF RunInv, QueueInv
    <3>3. QED BY <3>1, <3>2
  <2>2. locked \in SUBSET Orgs
      BY WorkerFacts DEF RunInv, LockInv, OrgsOf, Locking, InRun, Shape
  <2>3. QED BY <2>1, <2>2 DEF TypeOK, RunInv, Shape, BreakerInv, Rest
<1>3. QED BY <1>1, <1>2, AlwaysRuns, AlwaysShape, BreakerStep, RestStep, PTL DEF Spec

=============================================================================
