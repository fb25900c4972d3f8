------------------------ MODULE WorkflowOrder_proofs ------------------------
(* Proofs about WorkflowRun when one driver at a time works on the run:    *)
(* every action is performed under an execution of its own; and, if the    *)
(* key of the run is not used again, steps act in order and a completed    *)
(* run has no step left undone, whoever is killed and whatever pauses,     *)
(* cancels, retries and resumes.                                           *)
EXTENDS WorkflowRun_proofs

-----------------------------------------------------------------------------
(* Keys.  What is said of the steps, in the table or in the view of a      *)
(* driver: the executions of a step have the keys of its attempts so far,  *)
(* and an approval that was not used will find the key of the next one.    *)
KeyOK(s) ==
    \A i \in Steps :
        /\ \A a \in Approvals : Asked(a) /\ approval[a].step = i => execKey[a] <= s[i].tries
        /\ s[i].link # NoApproval /\ execKey[s[i].link] = 0 => s[i].key = s[i].tries + 1

ExecutionsOK ==
    /\ \A a \in Approvals : execKey[a] # 0 => approval[a].status = "approved"
    /\ \A a \in Approvals : Acted(a) => execKey[a] # 0
    /\ \A a, b \in Approvals :
           a # b /\ execKey[a] # 0 /\ approval[a].step = approval[b].step => execKey[a] # execKey[b]

(* Two versions of the steps that agree in the attempts, and in the links. *)
Attempts(s, t) == \A i \in Steps : s[i].tries = t[i].tries /\ s[i].key = t[i].key

Links(s, t) == \A i \in Steps : s[i].link = t[i].link

(* Attempts and links are written by the one who drives the run, and so    *)
(* are as he loaded or flushed them; whoever overwrites the status of the  *)
(* run leaves them alone.                                                  *)
Working == {"request", "approve", "create", "act"}
Loaded  == Working \cup {"resume", "finish"}

KeysHeld(l) ==
    /\ l.at # "act again"
    /\ l.at \in Loaded \cup {"overwrite"} =>
           l.view.run.status # "absent" /\ Attempts(l.view.step, l.base.step)
    /\ l.at = "overwrite" => Links(l.view.step, l.base.step)
    /\ l.at \in Loaded =>
           /\ Attempts(l.base.step, step)
           /\ Links(l.base.step, step)
           /\ KeyOK(l.view.step)
    /\ l.at \in {"approve", "create"} =>
           l.view.step[NextStep(l.plan)].link = l.job
    /\ l.at \in {"lookup", "create"} => execKey[l.job] = 0
    /\ l.at = "act" => execKey[l.job] # 0

OneDrives == \A d, e \in Drivers : Driving(d) /\ Driving(e) => d = e

(* Before the run exists, nothing does.                                    *)
AbsentOK ==
    run.status = "absent" =>
        /\ step = NewView.step
        /\ \A a \in Approvals : ~Asked(a)
        /\ \A d \in Drivers : driver[d].at \in {"idle", "insert"}

Keyed ==
    /\ OneDrives
    /\ KeyOK(step)
    /\ ExecutionsOK
    /\ AbsentOK
    /\ \A d \in Drivers : KeysHeld(driver[d])

-----------------------------------------------------------------------------
(* What a commit does to attempts, links and the status of the run.        *)

LEMMA WrittenColumns ==
    ASSUME NEW new \in StepType, NEW old \in StepType, NEW stored \in StepType
    PROVE  LET w == Written(new, old, stored) IN
           /\ w.tries = IF new.tries = old.tries THEN stored.tries ELSE new.tries
           /\ w.key = IF new.key = old.key THEN stored.key ELSE new.key
           /\ w.link = IF new.link = old.link THEN stored.link ELSE new.link
BY DEF Written, StepType

LEMMA CommitColumns ==
    ASSUME Inv, NEW view \in ViewType, NEW base \in ViewType, Commit(view, base), NEW i \in Steps
    PROVE  /\ step'[i].tries = IF view.step[i].tries = base.step[i].tries
                               THEN step[i].tries ELSE view.step[i].tries
           /\ step'[i].key = IF view.step[i].key = base.step[i].key
                             THEN step[i].key ELSE view.step[i].key
           /\ step'[i].link = IF view.step[i].link = base.step[i].link
                              THEN step[i].link ELSE view.step[i].link
<1>1. view.step[i] \in StepType /\ base.step[i] \in StepType /\ step[i] \in StepType
    BY DEF ViewType, Inv, TypeOK
<1>2. step'[i] = Written(view.step[i], base.step[i], step[i])
    BY DEF Commit
<1>3. QED BY <1>1, <1>2, WrittenColumns

(* Whoever drives writes what he has.                                      *)
LEMMA CommitDriven ==
    ASSUME Inv, NEW view \in ViewType, NEW base \in ViewType, Commit(view, base),
           Attempts(base.step, step), Links(base.step, step)
    PROVE  Attempts(view.step, step') /\ Links(view.step, step')
BY CommitColumns DEF Attempts, Links

LEMMA CommitBeside ==
    ASSUME Inv, NEW view \in ViewType, NEW base \in ViewType, Commit(view, base),
           Attempts(view.step, base.step), Links(view.step, base.step)
    PROVE  Attempts(step, step') /\ Links(step, step')
BY CommitColumns DEF Attempts, Links

LEMMA CommitRun ==
    ASSUME Inv, NEW view \in ViewType, NEW base \in ViewType, Commit(view, base)
    PROVE  run'.status = IF view.run.status = base.run.status THEN run.status ELSE view.run.status
<1>1. view.run \in RunType /\ base.run \in RunType /\ run \in RunType
    BY DEF ViewType, Inv, TypeOK
<1>2. QED BY <1>1 DEF Commit, Written, RunType

LEMMA SameKeys ==
    ASSUME NEW s, NEW t, KeyOK(s), Attempts(s, t), Links(s, t)
    PROVE  KeyOK(t)
BY DEF KeyOK, Attempts, Links

(* An execution has been asked for and approved.                           *)
LEMMA UnaskedUnkeyed ==
    ASSUME Keyed
    PROVE  \A a \in Approvals : ~Asked(a) => execKey[a] = 0
BY DEF Keyed, ExecutionsOK, Asked

(* Approvals are asked for, and stay what they are about.                  *)
AskedStay == \A a \in Approvals : Asked(a) => Asked(a)' /\ approval'[a].step = approval[a].step

LEMMA KeyStays ==
    ASSUME Keyed, NEW s \in [Steps -> StepType], KeyOK(s), AskedStay, execKey' = execKey
    PROVE  KeyOK(s)'
<1>1. ASSUME NEW i \in Steps, NEW a \in Approvals, approval'[a].step = i
      PROVE  execKey[a] <= s[i].tries
  <2>1. CASE Asked(a)
      BY <1>1, <2>1 DEF KeyOK, AskedStay
  <2>2. CASE ~Asked(a)
    <3>1. execKey[a] = 0 /\ s[i].tries \in Nat
        BY <2>2, UnaskedUnkeyed DEF StepType
    <3>2. QED BY <3>1
  <2>3. QED BY <2>1, <2>2
<1>2. QED BY <1>1 DEF KeyOK

-----------------------------------------------------------------------------
(* A driver that takes a step, and those beside it.                        *)

LEMMA DrivesAlone ==
    ASSUME Keyed, NEW d \in Drivers, NEW e \in Drivers, Driving(d), Driving(e)
    PROVE  d = e
BY DEF Keyed, OneDrives

DrivingSteps == {"insert", "decide", "lookup", "resume", "request", "approve", "create", "act",
                 "act again", "finish"}

LEMMA DrivingAt ==
    ASSUME NEW d \in Drivers
    PROVE  Driving(d) <=> driver[d].at \in DrivingSteps
BY DEF Driving, DrivingSteps

(* The new local state of a driver drives only if the old one did, or if   *)
(* nobody does.                                                            *)
MayBecome(d, l) == l.at \in DrivingSteps => Driving(d) \/ \A e \in Drivers : ~Driving(e)

(* A driver that works on the run is alone with it.                        *)
LEMMA BesideDriver ==
    ASSUME Inv, Keyed, NEW d \in Drivers, Driving(d), NEW e \in Drivers \ {d}
    PROVE  driver[e].at \in {"idle", "handover", "reject", "unlink", "overwrite"}
<1>1. ~Driving(e)
    BY DrivesAlone
<1>2. driver[e].at \in DriverSteps
    BY DEF Inv, TypeOK, DriverType
<1>3. QED BY <1>1, <1>2 DEF Driving, DriverSteps

LEMMA MovesAlone ==
    ASSUME Inv, Keyed, NEW d \in Drivers, NEW l, Become(d, l), MayBecome(d, l)
    PROVE  /\ OneDrives'
           /\ driver'[d] = l /\ \A e \in Drivers \ {d} : driver'[e] = driver[e]
<1>1. driver' = [driver EXCEPT ![d] = l] /\ driver \in [Drivers -> DriverType]
    BY DEF Become, Inv, TypeOK
<1>2. driver'[d] = l /\ \A e \in Drivers \ {d} : driver'[e] = driver[e]
    BY <1>1
<1>3. OneDrives'
  <2>1. SUFFICES ASSUME NEW e \in Drivers, NEW f \in Drivers, e # f,
                        driver'[e].at \in DrivingSteps, driver'[f].at \in DrivingSteps
                 PROVE  FALSE
      BY DEF OneDrives, Driving, DrivingSteps
  <2>2. \A g \in Drivers \ {d} : driver'[g].at \in DrivingSteps => Driving(g)
      BY <1>2, DrivingAt
  <2>3. CASE e = d
      BY <1>2, <2>1, <2>2, <2>3, DrivesAlone DEF MayBecome
  <2>4. CASE f = d
      BY <1>2, <2>1, <2>2, <2>4, DrivesAlone DEF MayBecome
  <2>5. CASE e # d /\ f # d
      BY <2>1, <2>2, <2>5, DrivesAlone
  <2>6. QED BY <2>3, <2>4, <2>5
<1>4. QED BY <1>2, <1>3

LEMMA KeysStayHeld ==
    ASSUME Inv, Keyed, NEW e \in Drivers, NEW k, k = driver[e], AskedStay, execKey' = execKey,
           Attempts(step, step'), Links(step, step')
    PROVE  KeysHeld(k)'
<1>1. KeysHeld(k) /\ k.view.step \in [Steps -> StepType]
    BY DriverFacts DEF Keyed
<1>2. k.at \in Loaded => KeyOK(k.view.step)'
    BY <1>1, KeyStays DEF KeysHeld
<1>3. k.at \in Loaded => Attempts(k.base.step, step') /\ Links(k.base.step, step')
    BY <1>1 DEF KeysHeld, Attempts, Links
<1>4. QED BY <1>1, <1>2, <1>3 DEF KeysHeld, Attempts, Links

LEMMA MovesKeyed ==
    ASSUME Inv, Keyed, NEW d \in Drivers, NEW l, Become(d, l), MayBecome(d, l),
           KeysHeld(l)', KeyOK(step)', ExecutionsOK', AbsentOK',
           \/ Driving(d)
           \/ AskedStay /\ execKey' = execKey /\ Attempts(step, step') /\ Links(step, step')
    PROVE  Keyed'
<1>1. OneDrives' /\ driver'[d] = l /\ \A e \in Drivers \ {d} : driver'[e] = driver[e]
    BY MovesAlone
<1>2. ASSUME NEW e \in Drivers PROVE KeysHeld(driver[e])'
  <2>1. CASE e = d
      BY <1>1, <2>1 DEF KeysHeld, KeyOK, Attempts, Links
  <2>2. CASE e # d
    <3>1. PICK k : k = driver[e]
        OBVIOUS
    <3>2. CASE Driving(d)
      <4>1. k.at \in {"idle", "handover", "reject", "unlink", "overwrite"} /\ KeysHeld(k)
          BY <2>2, <3>1, <3>2, BesideDriver DEF Keyed
      <4>2. KeysHeld(k)'
          BY <4>1 DEF KeysHeld, Loaded, Working, Attempts, Links
      <4>3. driver'[e] = k
          BY <1>1, <2>2, <3>1
      <4>4. QED BY <4>2, <4>3 DEF KeysHeld, KeyOK, Attempts, Links
    <3>3. CASE AskedStay /\ execKey' = execKey /\ Attempts(step, step') /\ Links(step, step')
      <4>1. KeysHeld(k)'
          BY <3>1, <3>3, KeysStayHeld
      <4>2. driver'[e] = k
          BY <1>1, <2>2, <3>1
      <4>3. QED BY <4>1, <4>2 DEF KeysHeld, KeyOK, Attempts, Links
    <3>4. QED BY <3>2, <3>3
  <2>3. QED BY <2>1, <2>2
<1>3. QED BY <1>1, <1>2 DEF Keyed

LEMMA BusyRun ==
    ASSUME Keyed, NEW d \in Drivers, driver[d].at \notin {"idle", "insert"}
    PROVE  run.status # "absent"
BY DEF Keyed, AbsentOK

LEMMA AskedOfRun ==
    ASSUME Keyed, NEW a \in Approvals, Asked(a)
    PROVE  run.status # "absent"
BY DEF Keyed, AbsentOK

(* Nothing changes but what the driver holds in memory, and the actions.   *)
LEMMA QuietActsKeyed ==
    ASSUME Inv, Keyed, NEW d \in Drivers, NEW l, Become(d, l), MayBecome(d, l), KeysHeld(l),
           rows' = rows, approval' = approval, execKey' = execKey, ExecutionsOK',
           run.status = "absent" => l.at \in {"idle", "insert"}
    PROVE  Keyed'
<1>1. run' = run /\ step' = step
    BY DEF rows
<1>2. KeyOK(step)'
    BY <1>1 DEF Keyed, KeyOK, Asked
<1>3. KeysHeld(l)'
    BY <1>1 DEF KeysHeld, KeyOK, Asked, Attempts, Links
<1>4. AbsentOK'
  <2>1. SUFFICES ASSUME run.status = "absent" PROVE AbsentOK'
      BY <1>1 DEF AbsentOK
  <2>2. driver'[d] = l /\ \A e \in Drivers \ {d} : driver'[e] = driver[e]
      BY MovesAlone
  <2>3. \A e \in Drivers : driver'[e].at \in {"idle", "insert"}
      BY <2>1, <2>2 DEF Keyed, AbsentOK
  <2>4. QED BY <1>1, <2>1, <2>3 DEF Keyed, AbsentOK, Asked
<1>5. AskedStay /\ Attempts(step, step') /\ Links(step, step')
    BY <1>1 DEF AskedStay, Asked, Attempts, Links
<1>6. QED BY <1>2, <1>3, <1>4, <1>5, MovesKeyed

LEMMA QuietKeyed ==
    ASSUME Inv, Keyed, NEW d \in Drivers, NEW l, Become(d, l), MayBecome(d, l), KeysHeld(l),
           UNCHANGED <<rows, approval, execKey, history>>,
           run.status = "absent" => l.at \in {"idle", "insert"}
    PROVE  Keyed'
<1>1. rows' = rows /\ approval' = approval /\ execKey' = execKey /\ acts' = acts
    BY DEF history
<1>2. ExecutionsOK'
    BY <1>1 DEF Keyed, ExecutionsOK, Acted
<1>3. QED BY <1>1, <1>2, QuietActsKeyed

LEMMA IdleKeyed ==
    /\ Idle.at = "idle" /\ Idle.job = NoApproval
    /\ KeysHeld(Idle)
    /\ \A d : MayBecome(d, Idle)
<1>1. Idle.at = "idle" /\ Idle.job = NoApproval
    BY DEF Idle
<1>2. KeysHeld(Idle)
    BY <1>1 DEF KeysHeld, Loaded, Working
<1>3. \A d : MayBecome(d, Idle)
    BY <1>1 DEF MayBecome, DrivingSteps
<1>4. QED BY <1>1, <1>2, <1>3

LEMMA LeavesKeyed ==
    ASSUME Inv, Keyed, NEW d \in Drivers, Leave(d), UNCHANGED <<rows, approval, execKey, history>>
    PROVE  Keyed'
BY IdleKeyed, QuietKeyed DEF Leave

LEMMA MayEnter ==
    ASSUME OneDriver, MayDrive
    PROVE  \A e \in Drivers : ~Driving(e)
BY DEF MayDrive

LEMMA SameAttempts == \A s : Attempts(s, s) /\ Links(s, s)
BY DEF Attempts, Links

-----------------------------------------------------------------------------
(* One lemma per action: first those that only load and decide what to do. *)

(* Objects just loaded are those of the tables.                            *)
LEMMA CopyKeyed ==
    ASSUME Keyed, NEW l, l.at \in {"request", "resume", "finish", "overwrite"},
           l.view.step = step, l.base.step = step, l.view.run.status # "absent"
    PROVE  KeysHeld(l)
<1>1. KeyOK(step) /\ Attempts(step, step) /\ Links(step, step)
    BY SameAttempts DEF Keyed
<1>2. QED BY <1>1 DEF KeysHeld, Loaded, Working

LEMMA BeginRunKeyed ==
    ASSUME Inv, Keyed, OneDriver, NEW d \in Drivers, BeginRun(d)
    PROVE  Keyed'
<1>1. UNCHANGED <<rows, approval, execKey, history>> /\ \A e \in Drivers : ~Driving(e)
    BY MayEnter DEF BeginRun
<1>2. CASE run.status = "absent"
  <2>1. PICK l : l = [Idle EXCEPT !.at = "insert"]
      OBVIOUS
  <2>2. l.at = "insert" /\ Become(d, l)
      BY <1>2, <2>1 DEF Idle, BeginRun
  <2>3. KeysHeld(l) /\ MayBecome(d, l)
      BY <1>1, <2>2 DEF KeysHeld, Loaded, Working, MayBecome
  <2>4. QED BY <1>1, <2>2, <2>3, QuietKeyed
<1>3. CASE run.status # "absent"
  <2>1. PICK v : v = WithRun(Database, "running")
      OBVIOUS
  <2>2. v.step = step /\ v.run.status = "running" /\ Database.step = step
    <3>1. Database \in ViewType /\ Database.step = step
        BY DatabaseFacts
    <3>2. QED BY <2>1, <3>1 DEF WithRun, ViewType, RunType
  <2>3. PICK l : l = [[Idle EXCEPT !.at = "request", !.plan = Steps]
                          EXCEPT !.base = Database, !.view = v]
      OBVIOUS
  <2>4. l.at = "request" /\ l.view = v /\ l.base = Database
      BY <2>3 DEF Idle
  <2>5. KeysHeld(l) /\ MayBecome(d, l)
      BY <1>1, <2>2, <2>4, CopyKeyed DEF MayBecome
  <2>6. Become(d, l)
      BY <1>3, <2>1, <2>3 DEF BeginRun, Loading
  <2>7. QED BY <1>1, <1>3, <2>5, <2>6, QuietKeyed
<1>4. QED BY <1>2, <1>3

LEMMA DecidesKeyed ==
    ASSUME Inv, Keyed, OneDriver, NEW d \in Drivers, NEW a \in Approvals,
           BeginApprove(d, a) \/ BeginReject(d, a)
    PROVE  Keyed'
<1>1. approval[a].status = "pending" /\ UNCHANGED <<rows, approval, execKey, history>>
    BY DEF BeginApprove, BeginReject
<1>2. PICK at \in {"decide", "handover", "reject"} :
          /\ Become(d, [Idle EXCEPT !.at = at, !.job = a])
          /\ at = "decide" => \A e \in Drivers : ~Driving(e)
    BY MayEnter DEF BeginApprove, BeginReject
<1>3. PICK l : l = [Idle EXCEPT !.at = at, !.job = a]
    OBVIOUS
<1>4. l.at = at
    BY <1>3 DEF Idle
<1>5. KeysHeld(l) /\ MayBecome(d, l)
    BY <1>2, <1>4 DEF KeysHeld, Loaded, Working, MayBecome, DrivingSteps
<1>6. run.status # "absent"
    BY <1>1, AskedOfRun DEF Asked
<1>7. QED BY <1>1, <1>2, <1>3, <1>5, <1>6, QuietKeyed

LEMMA OverwritesKeyed ==
    ASSUME Inv, Keyed, NEW d \in Drivers, BeginPause(d) \/ BeginRetry(d) \/ BeginFailStuck(d)
    PROVE  Keyed'
<1>1. PICK status \in {"paused", "retry_wait", "failed"} : Overwrite(d, status)
    BY DEF BeginPause, BeginRetry, BeginFailStuck
<1>2. UNCHANGED <<rows, approval, execKey, history>> /\ run.status # "absent"
    BY DEF BeginPause, BeginRetry, BeginFailStuck, Stuck
<1>3. PICK v : v = WithRun(Database, status)
    OBVIOUS
<1>4. v.step = step /\ v.run.status = status /\ Database.step = step
  <2>1. Database \in ViewType /\ Database.step = step
      BY DatabaseFacts
  <2>2. QED BY <1>3, <2>1 DEF WithRun, ViewType, RunType
<1>5. PICK l : l = [Idle EXCEPT !.at = "overwrite", !.base = Database, !.view = v]
    OBVIOUS
<1>6. l.at = "overwrite" /\ l.base = Database /\ l.view = v
    BY <1>5 DEF Idle
<1>7. KeysHeld(l) /\ MayBecome(d, l)
    BY <1>4, <1>6, CopyKeyed DEF MayBecome, DrivingSteps
<1>8. Become(d, l)
    BY <1>1, <1>3, <1>5 DEF Overwrite
<1>9. QED BY <1>2, <1>7, <1>8, QuietKeyed

LEMMA BeginResumeKeyed ==
    ASSUME Inv, Keyed, OneDriver, NEW d \in Drivers, BeginResume(d)
    PROVE  Keyed'
<1>1. PICK l : l = [Idle EXCEPT !.at = "resume", !.base = Database, !.view = Database]
    OBVIOUS
<1>2. /\ l.at = "resume" /\ l.base.step = step /\ l.view.step = step /\ l.view.run = run
    BY <1>1, DatabaseFacts DEF Idle
<1>3. /\ Become(d, l) /\ UNCHANGED <<rows, approval, execKey, history>>
      /\ \A e \in Drivers : ~Driving(e)
      /\ run.status # "absent"
    BY <1>1, MayEnter DEF BeginResume, Resumable
<1>4. KeysHeld(l) /\ MayBecome(d, l)
    BY <1>2, <1>3, CopyKeyed DEF MayBecome
<1>5. QED BY <1>3, <1>4, QuietKeyed

LEMMA OnlyStep ==
    ASSUME NEW i \in Steps
    PROVE  NextStep({i}) = i
BY FirstStep

(* The first step that is linked to an approval.                           *)
LEMMA FirstLinked ==
    ASSUME NEW a, LinkedTo(a) # {}
    PROVE  NextStep(LinkedTo(a)) \in Steps /\ step[NextStep(LinkedTo(a))].link = a
<1>1. LinkedTo(a) \in SUBSET Steps
    BY DEF LinkedTo
<1>2. NextStep(LinkedTo(a)) \in LinkedTo(a)
    BY <1>1, FirstStep
<1>3. QED BY <1>2 DEF LinkedTo

LEMMA LookUpKeyed ==
    ASSUME Inv, Keyed, NEW d \in Drivers, LookUp(d)
    PROVE  Keyed'
<1>1. UNCHANGED <<rows, approval, execKey, history>> /\ driver[d].at = "lookup"
    BY DEF LookUp
<1>2. PICK k : k = driver[d]
    OBVIOUS
<1>3. k \in DriverType /\ KeysHeld(k) /\ k.at = "lookup" /\ k.job \in Approvals
    BY <1>1, <1>2, DriverFacts DEF Keyed, DriverOK, Deciding
<1>4. CASE LinkedTo(k.job) = {}
  <2>1. Leave(d)
      BY <1>2, <1>4 DEF LookUp
  <2>2. QED BY <1>1, <2>1, LeavesKeyed
<1>5. CASE LinkedTo(k.job) # {}
  <2>1. PICK i : i = NextStep(LinkedTo(k.job))
      OBVIOUS
  <2>2. i \in Steps /\ step[i].link = k.job
      BY <1>5, <2>1, FirstLinked
  <2>3. PICK v : v = WithRun(Database, "running")
      OBVIOUS
  <2>4. v.step = step /\ v.run.status = "running" /\ Database.step = step
    <3>1. Database \in ViewType /\ Database.step = step
        BY DatabaseFacts
    <3>2. QED BY <2>3, <3>1 DEF WithRun, ViewType, RunType
  <2>5. PICK l : l = [[k EXCEPT !.at = "create", !.mode = "approved", !.plan = {i}]
                          EXCEPT !.base = Database, !.view = v]
      OBVIOUS
  <2>6. l.at = "create" /\ l.view = v /\ l.base = Database /\ l.plan = {i} /\ l.job = k.job
      BY <1>3, <2>5 DEF DriverType
  <2>7. execKey[k.job] = 0 /\ KeyOK(step)
      BY <1>3 DEF KeysHeld, Keyed
  <2>8. NextStep(l.plan) = i
      BY <2>2, <2>6, OnlyStep
  <2>9. KeysHeld(l)
      BY <2>2, <2>4, <2>6, <2>7, <2>8, SameAttempts DEF KeysHeld, Loaded, Working
  <2>10. MayBecome(d, l)
      BY <1>1, <2>6, DrivingAt DEF MayBecome, DrivingSteps
  <2>11. Become(d, l) /\ run.status # "absent"
      BY <1>1, <1>2, <1>5, <2>1, <2>3, <2>5, BusyRun DEF LookUp, Loading
  <2>12. QED BY <1>1, <2>9, <2>10, <2>11, QuietKeyed
<1>6. QED BY <1>4, <1>5

LEMMA StatusKeepsTries ==
    ASSUME NEW v \in ViewType, NEW i \in Steps, NEW status \in StepStatuses
    PROVE  /\ WithStep(v, i, status).step[i].tries = v.step[i].tries
           /\ WithStep(v, i, status).step[i].key = v.step[i].key
BY DEF WithStep, ViewType, StepType

LEMMA LinkKeepsTries ==
    ASSUME NEW v \in ViewType, NEW i \in Steps, NEW a \in Approvals \cup {NoApproval}
    PROVE  /\ [v EXCEPT !.step[i].link = a].step[i].tries = v.step[i].tries
           /\ [v EXCEPT !.step[i].link = a].step[i].key = v.step[i].key
BY DEF ViewType, StepType

LEMMA CancelStepKeyed ==
    ASSUME Inv, Keyed, NEW d \in Drivers, CancelStep(d)
    PROVE  Keyed'
<1>1. UNCHANGED <<rows, approval, execKey, history>> /\ driver[d].at = "unlink"
    BY DEF CancelStep
<1>2. PICK k : k = driver[d]
    OBVIOUS
<1>3. k \in DriverType
    BY <1>2, DriverFacts
<1>4. CASE LinkedTo(k.job) = {}
  <2>1. Leave(d)
      BY <1>2, <1>4 DEF CancelStep
  <2>2. QED BY <1>1, <2>1, LeavesKeyed
<1>5. CASE LinkedTo(k.job) # {}
  <2>1. PICK i : i = NextStep(LinkedTo(k.job))
      OBVIOUS
  <2>2. i \in Steps
      BY <1>5, <2>1, FirstLinked
  <2>3. PICK u : u = WithStep(Database, i, "cancelled")
      OBVIOUS
  <2>4. PICK v : v = WithRun(u, "failed")
      OBVIOUS
  <2>5. /\ Attempts(v.step, Database.step) /\ Links(v.step, Database.step)
        /\ v.run.status = "failed"
    <3>1. Database \in ViewType
        BY DatabaseFacts
    <3>2. "cancelled" \in StepStatuses
        BY DEF StepStatuses
    <3>3. /\ u \in ViewType
          /\ u.step[i].link = Database.step[i].link /\ Elsewhere(Database.step, u.step, i)
        BY <2>2, <2>3, <3>1, <3>2, WithStepFacts
    <3>4. u.step[i].tries = Database.step[i].tries /\ u.step[i].key = Database.step[i].key
        BY <2>2, <2>3, <3>1, <3>2, StatusKeepsTries
    <3>5. v.step = u.step /\ v.run.status = "failed"
        BY <2>4, <3>3 DEF WithRun, ViewType, RunType
    <3>6. QED BY <3>3, <3>4, <3>5 DEF Attempts, Links, Elsewhere
  <2>6. PICK l : l = [k EXCEPT !.at = "overwrite", !.base = Database, !.view = v]
      OBVIOUS
  <2>7. l.at = "overwrite" /\ l.view = v /\ l.base = Database
      BY <1>3, <2>6 DEF DriverType
  <2>8. KeysHeld(l) /\ MayBecome(d, l)
      BY <2>5, <2>7 DEF KeysHeld, Loaded, Working, MayBecome, DrivingSteps
  <2>9. Become(d, l) /\ run.status # "absent"
      BY <1>1, <1>2, <1>5, <2>1, <2>3, <2>4, <2>6, BusyRun DEF CancelStep
  <2>10. QED BY <1>1, <2>8, <2>9, QuietKeyed
<1>6. QED BY <1>4, <1>5

(* The driver turns to the next step of its plan, or the run is complete.  *)
LEMMA OnwardKeyed ==
    ASSUME NEW m \in DriverType,
           Attempts(m.view.step, m.base.step), Attempts(m.base.step, step),
           Links(m.base.step, step), KeyOK(m.view.step),
           m.plan # {} => m.view.run.status # "absent"
    PROVE  KeysHeld(Onward(m)) /\ Onward(m).at \in {"finish", "request"}
<1>1. PICK l : l = Onward(m)
    OBVIOUS
<1>2. CASE m.plan = {}
  <2>1. PICK v : v = WithRun(m.view, "completed")
      OBVIOUS
  <2>2. v.step = m.view.step /\ v.run.status = "completed"
      BY <2>1 DEF WithRun, DriverType, ViewType, RunType
  <2>3. l = [m EXCEPT !.at = "finish", !.view = v]
      BY <1>1, <1>2, <2>1 DEF Onward
  <2>4. l.at = "finish" /\ l.view = v /\ l.base = m.base
      BY <2>3 DEF DriverType
  <2>5. QED BY <1>1, <2>2, <2>4 DEF KeysHeld, Loaded, Working
<1>3. CASE m.plan # {}
  <2>1. l = [m EXCEPT !.at = "request"]
      BY <1>1, <1>3 DEF Onward
  <2>2. l.at = "request" /\ l.view = m.view /\ l.base = m.base
      BY <2>1 DEF DriverType
  <2>3. QED BY <1>1, <1>3, <2>2 DEF KeysHeld, Loaded, Working
<1>4. QED BY <1>2, <1>3

LEMMA ResetFacts ==
    ASSUME Inv, NEW i \in Steps, NEW start \in 0..N
    PROVE  \/ Reset(i, start) = step[i] /\ (i >= start => step[i].status \notin {"failed", "running"})
           \/ /\ i >= start
              /\ Reset(i, start).status = "pending" /\ Reset(i, start).link = NoApproval
              /\ Reset(i, start).tries = step[i].tries /\ Reset(i, start).key = step[i].key
<1>1. step[i] \in StepType
    BY DEF Inv, TypeOK
<1>2. QED BY <1>1 DEF Reset, StepType

LEMMA ResetType ==
    ASSUME Inv, NEW start \in 0..N, NEW again,
           again = [run |-> [status |-> "running", current |-> start],
                    step |-> [i \in Steps |-> Reset(i, start)]]
    PROVE  again \in ViewType
<1>1. ASSUME NEW i \in Steps PROVE Reset(i, start) \in StepType
  <2>1. step[i] \in StepType
      BY DEF Inv, TypeOK
  <2>2. QED BY <2>1 DEF Reset, StepType, StepStatuses
<1>2. QED BY <1>1 DEF ViewType, RunType, RunStatuses

LEMMA ResumeRunKeyed ==
    ASSUME Inv, Keyed, NEW d \in Drivers, ResumeRun(d)
    PROVE  Keyed'
<1>1. UNCHANGED <<rows, approval, execKey, history>> /\ driver[d].at = "resume"
    BY DEF ResumeRun
<1>2. PICK k : k = driver[d]
    OBVIOUS
<1>3. k \in DriverType /\ k.base \in ViewType
    BY <1>2, DriverFacts
<1>4. PICK loaded : loaded = [run |-> k.base.run, step |-> step]
    OBVIOUS
<1>5. /\ loaded \in ViewType /\ loaded.step = step /\ k.base.run.current \in 0..N
    BY <1>3, <1>4 DEF ViewType, RunType, Inv, TypeOK
<1>6. PICK awaiting : awaiting = {i \in Steps : step[i].status = "awaiting_approval"}
    OBVIOUS
<1>7. PICK start : start = StartIndex(k.base.run.current)
    OBVIOUS
<1>8. start \in 0..N
    BY <1>5, <1>7, StartFacts
<1>9. run.status # "absent" /\ Driving(d) /\ KeyOK(step)
    BY <1>1, BusyRun, DrivingAt DEF DrivingSteps, Keyed
<1>10. CASE awaiting # {}
  <2>1. PICK v : v = [WithRun(loaded, "awaiting_approval")
                         EXCEPT !.run.current = NextStep(awaiting)]
      OBVIOUS
  <2>2. v.step = step /\ v.run.status = "awaiting_approval"
      BY <1>5, <2>1 DEF WithRun, ViewType, RunType
  <2>3. PICK l : l = [k EXCEPT !.at = "finish", !.base = loaded, !.view = v]
      OBVIOUS
  <2>4. l.at = "finish" /\ l.base = loaded /\ l.view = v
      BY <1>3, <2>3 DEF DriverType
  <2>5. KeysHeld(l) /\ MayBecome(d, l)
      BY <1>5, <1>9, <2>2, <2>4, CopyKeyed DEF MayBecome
  <2>6. Become(d, l)
      BY <1>2, <1>4, <1>6, <1>10, <2>1, <2>3 DEF ResumeRun
  <2>7. QED BY <1>1, <1>9, <2>5, <2>6, QuietKeyed
<1>11. CASE awaiting = {}
  <2>1. PICK again : again = [run |-> [status |-> "running", current |-> start],
                              step |-> [i \in Steps |-> Reset(i, start)]]
      OBVIOUS
  <2>2. PICK v : v = IF start = N THEN loaded ELSE again
      OBVIOUS
  <2>3. PICK P : P = {i \in Steps : i >= start}
      OBVIOUS
  <2>4. PICK m : m = [k EXCEPT !.base = loaded, !.plan = P, !.view = v]
      OBVIOUS
  <2>5. v \in ViewType
      BY <1>5, <1>8, <2>1, <2>2, ResetType
  <2>6. m \in DriverType /\ m.base = loaded /\ m.plan = P /\ m.view = v
      BY <1>3, <1>5, <2>3, <2>4, <2>5 DEF DriverType
  <2>7. KeyOK(v.step) /\ Attempts(v.step, step)
    <3>1. ASSUME NEW i \in Steps
          PROVE  /\ again.step[i].tries = step[i].tries /\ again.step[i].key = step[i].key
                 /\ again.step[i].link # NoApproval => again.step[i].link = step[i].link
        BY <1>8, <2>1, ResetFacts
    <3>2. KeyOK(again.step) /\ Attempts(again.step, step)
        BY <1>9, <3>1 DEF KeyOK, Attempts
    <3>3. QED BY <1>5, <1>9, <2>2, <3>2, SameAttempts
  <2>8. P # {} => v.run.status # "absent"
    <3>1. P # {} => start # N
      <4>1. \A i \in Steps : i \in Nat /\ i < N /\ N \in Nat
          BY WorkflowAssumption DEF Steps
      <4>2. QED BY <2>3, <4>1
    <3>2. QED BY <2>1, <2>2, <3>1
  <2>9. PICK l : l = Onward(m)
      OBVIOUS
  <2>10. KeysHeld(l) /\ l.at \in {"finish", "request"}
      BY <1>5, <2>6, <2>7, <2>8, <2>9, SameAttempts, OnwardKeyed
  <2>11. MayBecome(d, l)
      BY <1>9 DEF MayBecome
  <2>12. Become(d, l)
      BY <1>2, <1>4, <1>6, <1>7, <1>11, <2>1, <2>2, <2>3, <2>4, <2>9 DEF ResumeRun
  <2>13. QED BY <1>1, <1>9, <2>10, <2>11, <2>12, QuietKeyed
<1>12. QED BY <1>10, <1>11

-----------------------------------------------------------------------------
(* The handlers of steps.                                                  *)

(* A driver works on the first step of its plan, and so on a step.         *)
LEMMA WorkingStep ==
    ASSUME Inv, NEW d \in Drivers, driver[d].at \in Working
    PROVE  /\ NextStep(driver[d].plan) \in Steps
           /\ NextStep(driver[d].plan) \in driver[d].plan
           /\ \A j \in driver[d].plan : NextStep(driver[d].plan) <= j
<1>1. driver[d].plan \in SUBSET Steps /\ driver[d].plan # {}
    BY DriverFacts DEF DriverOK, Working, InHand
<1>2. QED BY <1>1, FirstStep

(* The view in which step i has ended in a status, under the approval a.   *)
Ended(v, i, status, a, done) ==
    /\ done \in ViewType
    /\ done.step[i].status = status /\ done.step[i].link = a
    /\ done.step[i].tries = v.step[i].tries /\ done.step[i].key = v.step[i].key
    /\ Elsewhere(v.step, done.step, i)

LEMMA CompletedView ==
    ASSUME NEW k \in DriverType, k.job \in Approvals, NEW i \in Steps, NEW x \in StepStatuses, NEW done,
           done = [WithStep(k.view, i, x) EXCEPT !.step[i].link = k.job, !.run.current = i + 1]
    PROVE  Ended(k.view, i, x, k.job, done) /\ done.run.status = k.view.run.status
<1>1. i + 1 \in 0..N
    BY WorkflowAssumption DEF Steps
<1>2. k.view \in ViewType /\ k.job \in Approvals \cup {NoApproval}
    BY DEF DriverType
<1>3. PICK u : u = WithStep(k.view, i, x)
    OBVIOUS
<1>4. PICK w : w = [u EXCEPT !.step[i].link = k.job]
    OBVIOUS
<1>5. /\ u \in ViewType /\ u.run = k.view.run
      /\ u.step[i].status = x /\ Elsewhere(k.view.step, u.step, i)
    BY <1>2, <1>3, WithStepFacts
<1>6. u.step[i].tries = k.view.step[i].tries /\ u.step[i].key = k.view.step[i].key
    BY <1>2, <1>3, StatusKeepsTries
<1>7. /\ w \in ViewType /\ w.run = u.run
      /\ w.step[i].status = u.step[i].status /\ w.step[i].link = k.job
      /\ Elsewhere(u.step, w.step, i)
    BY <1>2, <1>4, <1>5, WithLinkFacts
<1>8. w.step[i].tries = u.step[i].tries /\ w.step[i].key = u.step[i].key
    BY <1>2, <1>4, <1>5, LinkKeepsTries
<1>9. PICK e : e = [w EXCEPT !.run.current = i + 1]
    OBVIOUS
<1>10. e \in ViewType /\ e.step = w.step
    BY <1>1, <1>7, <1>9, WithCurrentFacts
<1>11. e.run.status = w.run.status
    BY <1>7, <1>9 DEF ViewType, RunType
<1>12. done = e
    BY <1>3, <1>4, <1>9
<1>13. Ended(k.view, i, x, k.job, e) /\ e.run.status = k.view.run.status
    BY <1>5, <1>6, <1>7, <1>8, <1>10, <1>11 DEF Ended, Elsewhere
<1>14. QED BY <1>12, <1>13

LEMMA FailedView ==
    ASSUME NEW k \in DriverType, k.job \in Approvals, NEW i \in Steps, NEW done,
           done = [WithRun(WithStep(k.view, i, "failed"), "failed") EXCEPT !.step[i].link = k.job]
    PROVE  Ended(k.view, i, "failed", k.job, done) /\ done.run.status = "failed"
<1>1. "failed" \in StepStatuses /\ "failed" \in RunStatuses
    BY DEF StepStatuses, RunStatuses
<1>2. k.view \in ViewType /\ k.job \in Approvals \cup {NoApproval}
    BY DEF DriverType
<1>3. PICK u : u = WithStep(k.view, i, "failed")
    OBVIOUS
<1>4. PICK r : r = WithRun(u, "failed")
    OBVIOUS
<1>5. /\ u \in ViewType
      /\ u.step[i].status = "failed" /\ Elsewhere(k.view.step, u.step, i)
    BY <1>1, <1>2, <1>3, WithStepFacts
<1>6. u.step[i].tries = k.view.step[i].tries /\ u.step[i].key = k.view.step[i].key
    BY <1>1, <1>2, <1>3, StatusKeepsTries
<1>7. r \in ViewType /\ r.step = u.step /\ r.run.status = "failed"
    BY <1>1, <1>4, <1>5 DEF WithRun, ViewType, RunType
<1>8. PICK e : e = [r EXCEPT !.step[i].link = k.job]
    OBVIOUS
<1>9. /\ e \in ViewType /\ e.run = r.run
      /\ e.step[i].status = r.step[i].status /\ e.step[i].link = k.job
      /\ Elsewhere(r.step, e.step, i)
    BY <1>2, <1>7, <1>8, WithLinkFacts
<1>10. e.step[i].tries = r.step[i].tries /\ e.step[i].key = r.step[i].key
    BY <1>2, <1>7, <1>8, LinkKeepsTries
<1>11. done = e
    BY <1>3, <1>4, <1>8
<1>12. Ended(k.view, i, "failed", k.job, e) /\ e.run.status = "failed"
    BY <1>5, <1>6, <1>7, <1>9, <1>10 DEF Ended, Elsewhere
<1>13. QED BY <1>11, <1>12

LEMMA EndedKeys ==
    ASSUME NEW v, NEW i \in Steps, NEW x, NEW a, NEW done, Ended(v, i, x, a, done),
           KeyOK(v.step), execKey[a] # 0
    PROVE  KeyOK(done.step) /\ Attempts(done.step, v.step)
BY DEF Ended, Elsewhere, KeyOK, Attempts

(* The action is on record before it happens.                              *)
LEMMA ActsKeyed ==
    ASSUME Inv, Keyed, NEW d \in Drivers, driver[d].at = "act",
           Dispatch(d) \/ UNCHANGED acts, approval' = approval, execKey' = execKey
    PROVE  ExecutionsOK'
<1>1. PICK a : a = driver[d].job
    OBVIOUS
<1>2. a \in Approvals /\ execKey[a] # 0
    BY <1>1, AtHandler DEF Keyed, KeysHeld
<1>3. acts' = acts \/ acts' = [acts EXCEPT ![a] = @ + 1]
    BY <1>1 DEF Dispatch, Perform
<1>4. acts \in [Approvals -> Nat]
    BY DEF Inv, TypeOK
<1>5. \A b \in Approvals : acts'[b] > 0 => b = a \/ acts[b] > 0
    BY <1>2, <1>3, <1>4
<1>6. \A b \in Approvals : acts'[b] > 0 => execKey[b] # 0
    BY <1>2, <1>5 DEF Keyed, ExecutionsOK, Acted
<1>7. QED BY <1>6 DEF Keyed, ExecutionsOK, Acted

LEMMA CompleteStepKeyed ==
    ASSUME Inv, Keyed, NEW d \in Drivers, CompleteStep(d)
    PROVE  Keyed'
<1>1. driver[d].at = "act" /\ rows' = rows /\ approval' = approval /\ execKey' = execKey
    BY DEF CompleteStep
<1>2. PICK k : k = driver[d]
    OBVIOUS
<1>3. PICK i : i = NextStep(k.plan)
    OBVIOUS
<1>4. /\ k \in DriverType /\ k.view \in ViewType /\ k.base \in ViewType
      /\ KeysHeld(k) /\ k.at = "act" /\ i \in Steps /\ k.job \in Approvals
    BY <1>1, <1>2, <1>3, AtHandler, DriverFacts DEF Keyed
<1>5. /\ k.view.run.status # "absent" /\ execKey[k.job] # 0
      /\ Attempts(k.view.step, k.base.step) /\ Attempts(k.base.step, step)
      /\ Links(k.base.step, step) /\ KeyOK(k.view.step)
    BY <1>4 DEF KeysHeld, Loaded, Working
<1>6. PICK x : x = IF i \in Handled THEN "succeeded" ELSE "skipped"
    OBVIOUS
<1>7. PICK done : done = [WithStep(k.view, i, x) EXCEPT !.step[i].link = k.job, !.run.current = i + 1]
    OBVIOUS
<1>8. Ended(k.view, i, x, k.job, done) /\ done.run.status = k.view.run.status
  <2>1. x \in StepStatuses
      BY <1>6 DEF StepStatuses
  <2>2. QED BY <1>4, <1>7, <2>1, CompletedView
<1>9. KeyOK(done.step) /\ Attempts(done.step, k.base.step)
  <2>1. KeyOK(done.step) /\ Attempts(done.step, k.view.step)
      BY <1>4, <1>5, <1>8, EndedKeys
  <2>2. QED BY <1>5, <2>1 DEF Attempts
<1>10. PICK rest : rest = [k EXCEPT !.view = done, !.plan = k.plan \ {i}]
    OBVIOUS
<1>11. rest \in DriverType /\ rest.view = done /\ rest.base = k.base
    BY <1>4, <1>8, <1>10 DEF DriverType, Ended
<1>12. PICK m : m = IF k.mode = "approved" THEN Relisted(rest, i) ELSE rest
    OBVIOUS
<1>13. /\ m \in DriverType /\ m.view.run.status # "absent"
       /\ Attempts(m.view.step, m.base.step) /\ Attempts(m.base.step, step)
       /\ Links(m.base.step, step) /\ KeyOK(m.view.step)
  <2>1. CASE k.mode # "approved"
      BY <1>5, <1>8, <1>9, <1>11, <1>12, <2>1
  <2>2. CASE k.mode = "approved"
    <3>1. PICK P : P = {j \in Steps : j > i /\ step[j].status = "pending"}
        OBVIOUS
    <3>2. PICK s : s = [j \in Steps |-> IF j = i THEN done.step[i] ELSE step[j]]
        OBVIOUS
    <3>3. PICK q : q = [j \in Steps |-> IF j = i THEN k.base.step[i] ELSE step[j]]
        OBVIOUS
    <3>4. s \in [Steps -> StepType] /\ q \in [Steps -> StepType]
        BY <1>4, <1>8, <3>2, <3>3 DEF Ended, ViewType, Inv, TypeOK
    <3>5. PICK v : v = [done EXCEPT !.step = s]
        OBVIOUS
    <3>6. PICK b : b = [k.base EXCEPT !.step = q]
        OBVIOUS
    <3>7. v \in ViewType /\ v.run = done.run /\ v.step = s /\ b \in ViewType /\ b.step = q
        BY <1>4, <1>8, <3>4, <3>5, <3>6 DEF Ended, ViewType
    <3>8. m = [rest EXCEPT !.mode = "remaining", !.base = b, !.view = v, !.plan = P]
        BY <1>11, <1>12, <2>2, <3>1, <3>2, <3>3, <3>5, <3>6 DEF Relisted
    <3>9. m \in DriverType /\ m.base = b /\ m.view = v
        BY <1>11, <3>1, <3>7, <3>8 DEF DriverType, Modes
    <3>10. KeyOK(step) /\ \A j \in Steps : j # i => s[j] = step[j] /\ q[j] = step[j]
        BY <3>2, <3>3 DEF Keyed
    <3>11. s[i] = done.step[i] /\ q[i] = k.base.step[i]
        BY <1>4, <3>2, <3>3
    <3>12. Attempts(s, q) /\ Attempts(q, step) /\ Links(q, step)
        BY <1>5, <1>9, <3>10, <3>11 DEF Attempts, Links
    <3>13. KeyOK(s)
        BY <1>9, <3>10, <3>11 DEF KeyOK
    <3>14. QED BY <1>5, <1>8, <3>7, <3>9, <3>12, <3>13
  <2>3. QED BY <2>1, <2>2
<1>14. PICK l : l = Onward(m)
    OBVIOUS
<1>15. KeysHeld(l) /\ l.at \in {"finish", "request"}
    BY <1>13, <1>14, OnwardKeyed
<1>16. MayBecome(d, l) /\ run.status # "absent"
    BY <1>1, BusyRun, DrivingAt DEF MayBecome, DrivingSteps
<1>17. Become(d, l) /\ Dispatch(d)
    BY <1>2, <1>3, <1>6, <1>7, <1>10, <1>12, <1>14 DEF CompleteStep
<1>18. ExecutionsOK'
    BY <1>1, <1>17, ActsKeyed
<1>19. QED BY <1>1, <1>15, <1>16, <1>17, <1>18, QuietActsKeyed

LEMMA FailStepKeyed ==
    ASSUME Inv, Keyed, NEW d \in Drivers, FailStep(d)
    PROVE  Keyed'
<1>1. driver[d].at = "act" /\ rows' = rows /\ approval' = approval /\ execKey' = execKey
    BY DEF FailStep
<1>2. PICK k : k = driver[d]
    OBVIOUS
<1>3. PICK i : i = NextStep(k.plan)
    OBVIOUS
<1>4. /\ k \in DriverType /\ k.view \in ViewType /\ KeysHeld(k) /\ k.at = "act"
      /\ i \in Steps /\ k.job \in Approvals
    BY <1>1, <1>2, <1>3, AtHandler, DriverFacts DEF Keyed
<1>5. PICK v : v = [WithRun(WithStep(k.view, i, "failed"), "failed") EXCEPT !.step[i].link = k.job]
    OBVIOUS
<1>6. Ended(k.view, i, "failed", k.job, v) /\ v.run.status = "failed"
    BY <1>4, <1>5, FailedView
<1>7. /\ execKey[k.job] # 0 /\ KeyOK(k.view.step)
      /\ Attempts(k.view.step, k.base.step) /\ Attempts(k.base.step, step)
      /\ Links(k.base.step, step)
    BY <1>4 DEF KeysHeld, Loaded, Working
<1>8. KeyOK(v.step) /\ Attempts(v.step, k.base.step)
  <2>1. KeyOK(v.step) /\ Attempts(v.step, k.view.step)
      BY <1>4, <1>6, <1>7, EndedKeys
  <2>2. QED BY <1>7, <2>1 DEF Attempts
<1>9. PICK l : l = [k EXCEPT !.at = "finish", !.view = v]
    OBVIOUS
<1>10. l.at = "finish" /\ l.view = v /\ l.base = k.base
    BY <1>4, <1>9 DEF DriverType
<1>11. KeysHeld(l)
    BY <1>6, <1>7, <1>8, <1>10 DEF KeysHeld, Loaded, Working
<1>12. MayBecome(d, l) /\ run.status # "absent"
    BY <1>1, BusyRun, DrivingAt DEF MayBecome, DrivingSteps
<1>13. Become(d, l) /\ (Dispatch(d) \/ UNCHANGED acts)
    BY <1>2, <1>3, <1>5, <1>9 DEF FailStep
<1>14. ExecutionsOK'
    BY <1>1, <1>13, ActsKeyed
<1>15. QED BY <1>1, <1>11, <1>12, <1>13, <1>14, QuietActsKeyed

(* Nobody acts a second time after a refused execution.                    *)
LEMMA NeverActsAgain ==
    ASSUME Keyed, NEW d \in Drivers
    PROVE  driver[d].at # "act again"
BY DEF Keyed, KeysHeld

LEMMA CrashKeyed ==
    ASSUME Inv, Keyed, NEW d \in Drivers, Crash(d)
    PROVE  Keyed'
<1>1. /\ rows' = rows /\ approval' = approval /\ execKey' = execKey /\ Become(d, Idle)
      /\ acts' = acts \/ (driver[d].at = "act" /\ Dispatch(d))
    BY NeverActsAgain DEF Crash, Leave
<1>2. ExecutionsOK'
  <2>1. CASE acts' = acts
      BY <1>1, <2>1 DEF Keyed, ExecutionsOK, Acted
  <2>2. CASE driver[d].at = "act" /\ Dispatch(d)
      BY <1>1, <2>2, ActsKeyed
  <2>3. QED BY <1>1, <2>1, <2>2
<1>3. QED BY <1>1, <1>2, IdleKeyed, QuietActsKeyed

-----------------------------------------------------------------------------
(* The actions that write to the tables.                                   *)

LEMMA InsertRunKeyed ==
    ASSUME Inv, Keyed, NEW d \in Drivers, InsertRun(d)
    PROVE  Keyed'
<1>1. driver[d].at = "insert" /\ UNCHANGED <<step, approval, execKey>> /\ acts' = acts
    BY DEF InsertRun, history
<1>2. CASE run.status # "absent"
  <2>1. Leave(d) /\ UNCHANGED <<rows, approval, execKey, history>>
      BY <1>2 DEF InsertRun, rows, history
  <2>2. QED BY <2>1, LeavesKeyed
<1>3. CASE run.status = "absent"
  <2>1. PICK n : n = WithRun(NewView, "pending")
      OBVIOUS
  <2>2. PICK v : v = WithRun(n, "running")
      OBVIOUS
  <2>3. step = NewView.step
      BY <1>3 DEF Keyed, AbsentOK
  <2>4. /\ n.step = step /\ n.run.status = "pending"
        /\ v.step = step /\ v.run.status = "running"
    <3>1. NewView \in ViewType
        BY NewViewFacts
    <3>2. n \in ViewType /\ n.step = step /\ n.run.status = "pending"
        BY <2>1, <2>3, <3>1 DEF WithRun, ViewType, RunType, RunStatuses
    <3>3. QED BY <2>2, <3>2 DEF WithRun, ViewType, RunType
  <2>5. PICK l : l = [Idle EXCEPT !.at = "request", !.plan = Steps, !.base = n, !.view = v]
      OBVIOUS
  <2>6. l.at = "request" /\ l.base = n /\ l.view = v
      BY <2>5 DEF Idle
  <2>7. run' = n.run /\ Become(d, l)
      BY <1>3, <2>1, <2>2, <2>5 DEF InsertRun
  <2>8. KeyOK(step)'
      BY <1>1 DEF Keyed, KeyOK, Asked
  <2>9. KeysHeld(l)'
    <3>1. KeysHeld(l)
        BY <2>4, <2>6, CopyKeyed
    <3>2. QED BY <1>1, <3>1 DEF KeysHeld, KeyOK, Asked, Attempts, Links
  <2>10. ExecutionsOK' /\ AbsentOK'
      BY <1>1, <2>4, <2>7 DEF Keyed, ExecutionsOK, Acted, AbsentOK
  <2>11. Driving(d) /\ MayBecome(d, l)
      BY <1>1, DrivingAt DEF MayBecome, DrivingSteps
  <2>12. QED BY <2>7, <2>8, <2>9, <2>10, <2>11, MovesKeyed
<1>4. QED BY <1>2, <1>3

(* Whoever writes his view of an existing run leaves it existing.          *)
LEMMA StaysPresent ==
    ASSUME Inv, Keyed, NEW d \in Drivers, driver[d].at \notin {"idle", "insert"},
           NEW view \in ViewType, view.run.status # "absent", Commit(view, driver[d].base)
    PROVE  AbsentOK'
<1>1. driver[d].base \in ViewType
    BY DriverFacts
<1>2. run'.status = IF view.run.status = driver[d].base.run.status THEN run.status
                    ELSE view.run.status
    BY <1>1, CommitRun
<1>3. run.status # "absent"
    BY BusyRun
<1>4. QED BY <1>2, <1>3 DEF AbsentOK

(* The step i is given the key of its next attempt; it is linked to the    *)
(* approval a; it waits for it.                                            *)
Requested(v, i, w) ==
    /\ w \in ViewType /\ w.run = v.run
    /\ w.step[i].status = v.step[i].status /\ w.step[i].link = v.step[i].link
    /\ w.step[i].tries = v.step[i].tries /\ w.step[i].key = v.step[i].tries + 1
    /\ Elsewhere(v.step, w.step, i)

Linked(v, i, a, w) ==
    /\ w \in ViewType /\ w.run = v.run /\ w.step = [v.step EXCEPT ![i].link = a]
    /\ w.step[i].status = v.step[i].status /\ w.step[i].link = a
    /\ w.step[i].tries = v.step[i].tries /\ w.step[i].key = v.step[i].key
    /\ Elsewhere(v.step, w.step, i)

Stopped(v, i, a, w) ==
    /\ w \in ViewType /\ w.run.status = "awaiting_approval"
    /\ w.step[i].status = "awaiting_approval" /\ w.step[i].link = a
    /\ w.step[i].tries = v.step[i].tries /\ w.step[i].key = v.step[i].key
    /\ Elsewhere(v.step, w.step, i)

LEMMA RequestedView ==
    ASSUME NEW k \in DriverType, NEW i \in Steps, NEW w,
           w = [k.view EXCEPT !.step[i].key = StepKey(k.view.step[i].tries)]
    PROVE  Requested(k.view, i, w)
<1>1. PICK n : n = k.view.step[i].tries + 1
    OBVIOUS
<1>2. k.view \in ViewType /\ k.view.step[i] \in StepType /\ n \in Nat \ {0}
  <2>1. k.view \in ViewType /\ k.view.step[i] \in StepType
      BY DEF DriverType, ViewType
  <2>2. k.view.step[i].tries \in Nat
      BY <2>1 DEF StepType
  <2>3. QED BY <1>1, <2>1, <2>2
<1>3. PICK e : e = [k.view EXCEPT !.step[i].key = n]
    OBVIOUS
<1>4. /\ e \in ViewType /\ e.run = k.view.run
      /\ e.step[i].status = k.view.step[i].status /\ e.step[i].link = k.view.step[i].link
      /\ Elsewhere(k.view.step, e.step, i)
    BY <1>2, <1>3, WithKeyFacts
<1>5. e.step[i].tries = k.view.step[i].tries /\ e.step[i].key = n
    BY <1>2, <1>3 DEF ViewType, StepType
<1>6. w = e
    BY <1>1, <1>3 DEF StepKey
<1>7. QED BY <1>1, <1>4, <1>5, <1>6 DEF Requested

LEMMA LinkedView ==
    ASSUME NEW v \in ViewType, NEW i \in Steps, NEW a \in Approvals
    PROVE  Linked(v, i, a, [v EXCEPT !.step[i].link = a])
<1>1. PICK e : e = [v EXCEPT !.step[i].link = a]
    OBVIOUS
<1>2. a \in Approvals \cup {NoApproval}
    OBVIOUS
<1>3. /\ e \in ViewType /\ e.run = v.run
      /\ e.step[i].status = v.step[i].status /\ e.step[i].link = a
      /\ Elsewhere(v.step, e.step, i)
    BY <1>1, <1>2, WithLinkFacts
<1>4. e.step[i].tries = v.step[i].tries /\ e.step[i].key = v.step[i].key
    BY <1>1, <1>2, LinkKeepsTries
<1>5. e.step = [v.step EXCEPT ![i].link = a]
    BY <1>1 DEF ViewType
<1>6. Linked(v, i, a, e)
    BY <1>3, <1>4, <1>5 DEF Linked
<1>7. QED BY <1>1, <1>6

LEMMA StoppedView ==
    ASSUME NEW v, NEW i \in Steps, NEW a, NEW w, Linked(v, i, a, w)
    PROVE  Stopped(v, i, a, [WithRun(WithStep(w, i, "awaiting_approval"), "awaiting_approval")
                                EXCEPT !.run.current = i])
<1>1. "awaiting_approval" \in StepStatuses /\ "awaiting_approval" \in RunStatuses /\ w \in ViewType
      /\ i \in 0..N
    BY WorkflowAssumption DEF StepStatuses, RunStatuses, Linked, Steps
<1>2. PICK u : u = WithStep(w, i, "awaiting_approval")
    OBVIOUS
<1>3. PICK r : r = WithRun(u, "awaiting_approval")
    OBVIOUS
<1>4. PICK e : e = [r EXCEPT !.run.current = i]
    OBVIOUS
<1>5. /\ u \in ViewType
      /\ u.step[i].status = "awaiting_approval" /\ u.step[i].link = w.step[i].link
      /\ Elsewhere(w.step, u.step, i)
    BY <1>1, <1>2, WithStepFacts
<1>6. u.step[i].tries = w.step[i].tries /\ u.step[i].key = w.step[i].key
    BY <1>1, <1>2, StatusKeepsTries
<1>7. r \in ViewType /\ r.step = u.step /\ r.run.status = "awaiting_approval"
    BY <1>1, <1>3, <1>5 DEF WithRun, ViewType, RunType
<1>8. e \in ViewType /\ e.step = r.step
    BY <1>1, <1>4, <1>7, WithCurrentFacts
<1>9. e.run.status = "awaiting_approval"
    BY <1>4, <1>7 DEF ViewType, RunType
<1>10. Stopped(v, i, a, e)
    BY <1>5, <1>6, <1>7, <1>8, <1>9 DEF Stopped, Linked, Elsewhere
<1>11. QED BY <1>2, <1>3, <1>4, <1>10

LEMMA RequestApprovalKeyed ==
    ASSUME Inv, Keyed, NEW d \in Drivers, NEW a \in Approvals, RequestApproval(d, a)
    PROVE  Keyed'
<1>1. driver[d].at = "request" /\ execKey' = execKey /\ acts' = acts /\ NextId(a)
    BY DEF RequestApproval, history
<1>2. PICK k : k = driver[d]
    OBVIOUS
<1>3. PICK i : i = NextStep(k.plan)
    OBVIOUS
<1>4. /\ k \in DriverType /\ k.at = "request" /\ k.view \in ViewType /\ k.base \in ViewType
      /\ KeysHeld(k) /\ i \in Steps
    BY <1>1, <1>2, <1>3, DriverFacts, WorkingStep DEF Keyed, Working
<1>5. /\ k.view.run.status # "absent" /\ KeyOK(k.view.step)
      /\ Attempts(k.base.step, step) /\ Links(k.base.step, step)
    BY <1>4 DEF KeysHeld, Loaded, Working
<1>6. PICK requested : requested = [k.view EXCEPT !.step[i].key = StepKey(k.view.step[i].tries)]
    OBVIOUS
<1>7. PICK linked : linked = [requested EXCEPT !.step[i].link = a]
    OBVIOUS
<1>8. PICK stopped : stopped = [WithRun(WithStep(linked, i, "awaiting_approval"), "awaiting_approval")
                                   EXCEPT !.run.current = i]
    OBVIOUS
<1>9. /\ requested \in ViewType
      /\ Requested(k.view, i, requested) /\ Linked(requested, i, a, linked)
      /\ Stopped(requested, i, a, stopped)
  <2>1. Requested(k.view, i, requested) /\ requested \in ViewType
      BY <1>4, <1>6, RequestedView DEF Requested
  <2>2. Linked(requested, i, a, linked)
      BY <1>4, <1>7, <2>1, LinkedView
  <2>3. QED BY <1>4, <1>8, <2>1, <2>2, StoppedView
<1>10. PICK l : l = IF MustAwait(i, k)
                    THEN [k EXCEPT !.at = "finish", !.base = requested, !.view = stopped]
                    ELSE [k EXCEPT !.at = "approve", !.job = a, !.base = requested,
                                   !.view = linked]
    OBVIOUS
<1>11. /\ Commit(requested, k.base)
       /\ approval' = [approval EXCEPT ![a] = [status |-> "pending", step |-> i]]
       /\ Become(d, l)
    BY <1>2, <1>3, <1>6, <1>7, <1>8, <1>10 DEF RequestApproval
<1>12. Attempts(requested.step, step') /\ Links(requested.step, step')
    BY <1>4, <1>5, <1>9, <1>11, CommitDriven
<1>13. AbsentOK'
    BY <1>1, <1>2, <1>5, <1>9, <1>11, StaysPresent DEF Requested
<1>14. /\ \A b \in Approvals \ {a} : approval'[b] = approval[b]
       /\ approval'[a].status = "pending" /\ approval'[a].step = i
       /\ ~Asked(a) /\ execKey[a] = 0
  <2>1. ~Asked(a)
      BY <1>1 DEF NextId, Fresh, Asked
  <2>2. QED BY <1>4, <1>11, <2>1, UnaskedUnkeyed DEF Inv, TypeOK
<1>15. AskedStay
    BY <1>14 DEF AskedStay, Asked
<1>16. PICK s : s = requested.step
    OBVIOUS
<1>17. s \in [Steps -> StepType] /\ KeyOK(s)'
  <2>1. KeyOK(s) /\ s \in [Steps -> StepType]
      BY <1>5, <1>9, <1>16 DEF Requested, KeyOK, Elsewhere, ViewType
  <2>2. QED BY <1>1, <1>15, <2>1, KeyStays
<1>18. KeyOK(step)'
    BY <1>12, <1>16, <1>17 DEF KeyOK, Attempts, Links
<1>19. ExecutionsOK'
    BY <1>1, <1>14 DEF Keyed, ExecutionsOK, Acted
<1>20. s[i].key = s[i].tries + 1
    BY <1>9, <1>16 DEF Requested
<1>21. KeyOK(linked.step)' /\ KeyOK(stopped.step)'
  <2>1. ASSUME NEW t, t[i].tries = s[i].tries, t[i].key = s[i].key, Elsewhere(s, t, i)
        PROVE  KeyOK(t)'
      BY <1>17, <1>20, <2>1 DEF KeyOK, Elsewhere
  <2>2. QED BY <1>9, <1>16, <2>1 DEF Linked, Stopped
<1>22. Attempts(linked.step, requested.step) /\ Attempts(stopped.step, requested.step)
    BY <1>9 DEF Linked, Stopped, Attempts, Elsewhere
<1>23. KeysHeld(l)' /\ l.at \in {"finish", "approve"}
  <2>1. CASE MustAwait(i, k)
    <3>1. l.at = "finish" /\ l.base = requested /\ l.view = stopped
        BY <1>4, <1>10, <2>1 DEF DriverType
    <3>2. stopped.run.status # "absent"
        BY <1>9 DEF Stopped
    <3>3. QED BY <1>12, <1>21, <1>22, <3>1, <3>2 DEF KeysHeld, Loaded, Working, Attempts, Links
  <2>2. CASE ~MustAwait(i, k)
    <3>1. /\ l.at = "approve" /\ l.job = a /\ l.base = requested /\ l.view = linked
          /\ l.plan = k.plan
        BY <1>4, <1>10, <2>2 DEF DriverType
    <3>2. linked.run.status # "absent" /\ linked.step[i].link = a
        BY <1>5, <1>9 DEF Linked, Requested
    <3>3. QED BY <1>3, <1>12, <1>21, <1>22, <3>1, <3>2 DEF KeysHeld, Loaded, Working, Attempts, Links
  <2>3. QED BY <2>1, <2>2
<1>24. Driving(d) /\ MayBecome(d, l)
    BY <1>1, DrivingAt DEF MayBecome, DrivingSteps
<1>25. QED BY <1>11, <1>13, <1>18, <1>19, <1>23, <1>24, MovesKeyed

LEMMA ApproveOwnKeyed ==
    ASSUME Inv, Keyed, NEW d \in Drivers, ApproveOwn(d)
    PROVE  Keyed'
<1>1. driver[d].at = "approve" /\ execKey' = execKey /\ acts' = acts
    BY DEF ApproveOwn, history
<1>2. PICK k : k = driver[d]
    OBVIOUS
<1>3. /\ k \in DriverType /\ k.at = "approve" /\ k.view \in ViewType /\ k.base \in ViewType
      /\ KeysHeld(k) /\ k.job \in Approvals
    BY <1>1, <1>2, DriverFacts DEF Keyed, DriverOK, InHand
<1>4. CASE ~Decidable(k.job)
  <2>1. Leave(d) /\ UNCHANGED <<rows, approval, execKey, history>>
      BY <1>2, <1>4 DEF ApproveOwn
  <2>2. QED BY <2>1, LeavesKeyed
<1>5. CASE Decidable(k.job)
  <2>1. /\ k.view.run.status # "absent" /\ KeyOK(k.view.step)
        /\ Attempts(k.base.step, step) /\ Links(k.base.step, step)
        /\ k.view.step[NextStep(k.plan)].link = k.job
      BY <1>3 DEF KeysHeld, Loaded, Working
  <2>2. PICK l : l = [k EXCEPT !.at = "create", !.base = k.view]
      OBVIOUS
  <2>3. /\ l.at = "create" /\ l.base = k.view /\ l.view = k.view /\ l.job = k.job /\ l.plan = k.plan
      BY <1>3, <2>2 DEF DriverType
  <2>4. /\ approval' = [approval EXCEPT ![k.job].status = "approved"]
        /\ Commit(k.view, k.base) /\ Become(d, l)
      BY <1>2, <1>5, <2>2 DEF ApproveOwn
  <2>5. Attempts(k.view.step, step') /\ Links(k.view.step, step')
      BY <1>3, <2>1, <2>4, CommitDriven
  <2>6. AbsentOK'
      BY <1>1, <1>2, <1>3, <2>1, <2>4, StaysPresent
  <2>7. /\ \A b \in Approvals : approval'[b].step = approval[b].step
        /\ \A b \in Approvals \ {k.job} : approval'[b] = approval[b]
        /\ approval'[k.job].status = "approved"
        /\ approval[k.job].status = "pending"
        /\ \A b \in Approvals : Asked(b) => Asked(b)'
      BY <1>3, <1>5, <2>4, DecidedFacts
  <2>8. execKey[k.job] = 0 /\ ExecutionsOK' /\ AskedStay
      BY <1>1, <1>3, <2>7 DEF Keyed, ExecutionsOK, Acted, AskedStay
  <2>9. KeyOK(k.view.step)'
    <3>1. k.view.step \in [Steps -> StepType]
        BY <1>3 DEF ViewType
    <3>2. QED BY <1>1, <2>1, <2>8, <3>1, KeyStays
  <2>10. KeyOK(step)'
      BY <2>5, <2>9 DEF KeyOK, Attempts, Links
  <2>11. KeysHeld(l)'
      BY <1>1, <2>1, <2>3, <2>5, <2>8, <2>9, SameAttempts DEF KeysHeld, Loaded, Working, Attempts, Links
  <2>12. Driving(d) /\ MayBecome(d, l)
      BY <1>1, DrivingAt DEF MayBecome, DrivingSteps
  <2>13. QED BY <2>4, <2>6, <2>8, <2>10, <2>11, <2>12, MovesKeyed
<1>6. QED BY <1>4, <1>5

(* The attempt that is about to start is counted.                          *)
LEMMA StartedView ==
    ASSUME NEW v \in ViewType, NEW i \in Steps, NEW w,
           w = [WithStep(v, i, "running") EXCEPT !.step[i].tries = v.step[i].tries + 1]
    PROVE  /\ w \in ViewType /\ w.run = v.run
           /\ w.step[i].status = "running" /\ w.step[i].link = v.step[i].link
           /\ w.step[i].tries = v.step[i].tries + 1 /\ w.step[i].key = v.step[i].key
           /\ Elsewhere(v.step, w.step, i)
<1>1. PICK u : u = WithStep(v, i, "running")
    OBVIOUS
<1>2. PICK n : n = v.step[i].tries + 1
    OBVIOUS
<1>3. PICK e : e = [u EXCEPT !.step[i].tries = n]
    OBVIOUS
<1>4. n \in Nat /\ "running" \in StepStatuses
  <2>1. v.step[i].tries \in Nat
      BY DEF ViewType, StepType
  <2>2. QED BY <1>2, <2>1 DEF StepStatuses
<1>5. /\ u \in ViewType /\ u.run = v.run
      /\ u.step[i].status = "running" /\ u.step[i].link = v.step[i].link
      /\ Elsewhere(v.step, u.step, i)
    BY <1>1, <1>4, WithStepFacts
<1>6. u.step[i].key = v.step[i].key
    BY <1>1, <1>4, StatusKeepsTries
<1>7. /\ e \in ViewType /\ e.run = u.run
      /\ e.step[i].status = u.step[i].status /\ e.step[i].link = u.step[i].link
      /\ Elsewhere(u.step, e.step, i)
    BY <1>3, <1>4, <1>5, WithTriesFacts
<1>8. e.step[i].tries = n /\ e.step[i].key = u.step[i].key
    BY <1>3, <1>5 DEF ViewType, StepType
<1>9. w = e
    BY <1>1, <1>2, <1>3
<1>10. /\ e \in ViewType /\ e.run = v.run
       /\ e.step[i].status = "running" /\ e.step[i].link = v.step[i].link
       /\ e.step[i].tries = n /\ e.step[i].key = v.step[i].key
       /\ Elsewhere(v.step, e.step, i)
    BY <1>5, <1>6, <1>7, <1>8 DEF Elsewhere
<1>11. QED BY <1>2, <1>9, <1>10

(* No execution of a step has the key of its next attempt: the INSERT      *)
(* never meets another row with the key.                                   *)
LEMMA NextKeyFree ==
    ASSUME Inv, Keyed, NEW d \in Drivers, driver[d].at = "create", NEW k, k = driver[d],
           NEW i, i = NextStep(k.plan)
    PROVE  /\ k.job \in Approvals /\ approval[k.job].step = i /\ approval[k.job].status = "approved"
           /\ k.view.step[i].link = k.job
           /\ k.view.step[i].tries \in Nat /\ k.view.step[i].key = k.view.step[i].tries + 1
           /\ \A b \in Approvals : approval[b].step = i => execKey[b] <= k.view.step[i].tries
           /\ execKey[k.job] = 0 /\ KeyFree(i, k.view.step[i].key)
<1>1. /\ k \in DriverType /\ k.at = "create" /\ k.view \in ViewType /\ KeysHeld(k) /\ i \in Steps
    BY DriverFacts, WorkingStep DEF Keyed, Working
<1>2. /\ execKey[k.job] = 0 /\ k.view.step[i].link = k.job /\ KeyOK(k.view.step)
    BY <1>1 DEF KeysHeld, Loaded, Working
<1>3. k.job \in Approvals /\ approval[k.job].step = i /\ approval[k.job].status = "approved"
  <2>1. k.job \in Approvals /\ approval[k.job].step = i
      BY <1>1, DriverFacts DEF DriverOK, InHand
  <2>2. Holds(driver[d], k.job)
      BY <1>1 DEF Holds
  <2>3. QED BY <2>1, <2>2 DEF Inv, Alone
<1>4. k.view.step[i].tries \in Nat /\ k.view.step[i].key = k.view.step[i].tries + 1
    BY <1>1, <1>2, <1>3, WorkflowAssumption DEF KeyOK, ViewType, StepType
<1>5. ASSUME NEW b \in Approvals, approval[b].step = i PROVE execKey[b] <= k.view.step[i].tries
  <2>1. CASE Asked(b)
      BY <1>1, <1>2, <1>5, <2>1 DEF KeyOK
  <2>2. CASE ~Asked(b)
      BY <1>4, <2>2, UnaskedUnkeyed
  <2>3. QED BY <2>1, <2>2
<1>6. KeyFree(i, k.view.step[i].key)
  <2>1. ASSUME NEW b \in Approvals, approval[b].step = i PROVE execKey[b] # k.view.step[i].key
    <3>1. execKey[b] \in Nat /\ execKey[b] <= k.view.step[i].tries
        BY <1>5, <2>1 DEF Inv, TypeOK
    <3>2. QED BY <1>4, <3>1
  <2>2. QED BY <2>1 DEF KeyFree
<1>7. QED BY <1>2, <1>3, <1>4, <1>5, <1>6

LEMMA CreateExecutionKeyed ==
    ASSUME Inv, Keyed, NEW d \in Drivers, CreateExecution(d)
    PROVE  Keyed'
<1>1. driver[d].at = "create" /\ approval' = approval /\ acts' = acts
    BY DEF CreateExecution, history
<1>2. PICK k : k = driver[d]
    OBVIOUS
<1>3. PICK i : i = NextStep(k.plan)
    OBVIOUS
<1>4. /\ k \in DriverType /\ k.at = "create" /\ k.view \in ViewType /\ k.base \in ViewType
      /\ KeysHeld(k) /\ i \in Steps /\ TrueSteps(k.view.step)
    BY <1>1, <1>2, <1>3, DriverFacts, WorkingStep DEF Keyed, Working
<1>5. /\ k.view.run.status # "absent" /\ KeyOK(k.view.step)
      /\ Attempts(k.base.step, step) /\ Links(k.base.step, step)
    BY <1>4 DEF KeysHeld, Loaded, Working
<1>6. PICK v : v = k.view
    OBVIOUS
<1>7. PICK n : n = v.step[i].key
    OBVIOUS
<1>8. /\ k.job \in Approvals /\ approval[k.job].step = i /\ approval[k.job].status = "approved"
      /\ v.step[i].link = k.job
      /\ v.step[i].tries \in Nat /\ n = v.step[i].tries + 1
      /\ \A b \in Approvals : approval[b].step = i => execKey[b] <= v.step[i].tries
      /\ execKey[k.job] = 0 /\ KeyFree(i, n)
    BY <1>1, <1>2, <1>3, <1>6, <1>7, NextKeyFree
<1>9. PICK started : started = [WithStep(v, i, "running") EXCEPT !.step[i].tries = v.step[i].tries + 1]
    OBVIOUS
<1>10. /\ started \in ViewType /\ started.run = v.run
       /\ started.step[i].link = k.job
       /\ started.step[i].tries = n
       /\ Elsewhere(v.step, started.step, i)
  <2>1. v \in ViewType /\ i \in Steps
      BY <1>4, <1>6
  <2>2. /\ started \in ViewType /\ started.run = v.run
        /\ started.step[i].link = v.step[i].link
        /\ started.step[i].tries = v.step[i].tries + 1
        /\ Elsewhere(v.step, started.step, i)
      BY <1>9, <2>1, StartedView
  <2>3. QED BY <1>8, <2>2
<1>11. PICK l : l = [k EXCEPT !.at = "act", !.base = started, !.view = started]
    OBVIOUS
<1>12. l.at = "act" /\ l.base = started /\ l.view = started /\ l.job = k.job
    BY <1>4, <1>11 DEF DriverType
<1>13. /\ execKey' = [execKey EXCEPT ![k.job] = n]
       /\ Commit(started, k.base) /\ Become(d, l)
    BY <1>2, <1>3, <1>6, <1>7, <1>8, <1>9, <1>11 DEF CreateExecution
<1>14. Attempts(started.step, step') /\ Links(started.step, step')
    BY <1>4, <1>5, <1>10, <1>13, CommitDriven
<1>15. AbsentOK'
    BY <1>1, <1>2, <1>5, <1>6, <1>10, <1>13, StaysPresent
<1>16. /\ execKey \in [Approvals -> Nat]
       /\ execKey'[k.job] = n /\ n # 0 /\ \A b \in Approvals \ {k.job} : execKey'[b] = execKey[b]
  <2>1. execKey \in [Approvals -> Nat]
      BY DEF Inv, TypeOK
  <2>2. QED BY <1>8, <1>13, <2>1
<1>17. KeyOK(started.step)'
  <2>1. ASSUME NEW j \in Steps, NEW a \in Approvals, Asked(a), approval[a].step = j
        PROVE  execKey'[a] <= started.step[j].tries
    <3>1. CASE j = i /\ a = k.job
        BY <1>8, <1>10, <1>16, <3>1
    <3>2. CASE j = i /\ a # k.job
      <4>1. execKey[a] <= v.step[i].tries /\ execKey[a] \in Nat
          BY <1>8, <1>16, <2>1, <3>2
      <4>2. QED BY <1>8, <1>10, <1>16, <3>2, <4>1
    <3>3. CASE j # i
        BY <1>5, <1>6, <1>8, <1>10, <1>16, <2>1, <3>3 DEF KeyOK, Elsewhere
    <3>4. QED BY <3>1, <3>2, <3>3
  <2>2. ASSUME NEW j \in Steps, started.step[j].link # NoApproval, execKey'[started.step[j].link] = 0
        PROVE  started.step[j].key = started.step[j].tries + 1
    <3>1. j # i /\ started.step[j] = v.step[j]
        BY <1>10, <1>16, <2>2 DEF Elsewhere
    <3>2. v.step[j].link \in Approvals
        BY <1>4, <1>6, <2>2, <3>1 DEF ViewType, StepType
    <3>3. v.step[j].link # k.job
        BY <1>4, <1>6, <1>8, <2>2, <3>1 DEF TrueSteps
    <3>4. execKey[v.step[j].link] = 0
        BY <1>16, <2>2, <3>1, <3>2, <3>3
    <3>5. QED BY <1>5, <1>6, <2>2, <3>1, <3>4 DEF KeyOK
  <2>3. QED BY <1>1, <2>1, <2>2 DEF KeyOK, Asked
<1>18. KeyOK(step)'
    BY <1>14, <1>17 DEF KeyOK, Attempts, Links
<1>19. ExecutionsOK'
  <2>1. ExecutionsOK
      BY DEF Keyed
  <2>2. \A b \in Approvals : execKey'[b] # 0 => approval[b].status = "approved"
      BY <1>8, <1>16, <2>1 DEF ExecutionsOK
  <2>3. \A b \in Approvals : Acted(b) => execKey'[b] # 0
      BY <1>16, <2>1 DEF ExecutionsOK
  <2>4. ASSUME NEW b \in Approvals, b # k.job, approval[b].step = i
        PROVE  execKey'[b] # execKey'[k.job]
    <3>1. execKey[b] \in Nat /\ execKey[b] <= v.step[i].tries
        BY <1>8, <1>16, <2>4
    <3>2. QED BY <1>8, <1>16, <2>4, <3>1
  <2>5. ASSUME NEW a \in Approvals, NEW b \in Approvals,
               a # b, execKey'[a] # 0, approval[a].step = approval[b].step
        PROVE  execKey'[a] # execKey'[b]
    <3>1. CASE a = k.job
        BY <1>8, <2>4, <2>5, <3>1
    <3>2. CASE b = k.job
        BY <1>8, <2>4, <2>5, <3>2
    <3>3. CASE a # k.job /\ b # k.job
        BY <1>16, <2>1, <2>5, <3>3 DEF ExecutionsOK
    <3>4. QED BY <3>1, <3>2, <3>3
  <2>6. QED BY <1>1, <2>2, <2>3, <2>5 DEF ExecutionsOK, Acted
<1>20. KeysHeld(l)'
  <2>1. execKey'[l.job] # 0 /\ started.run.status # "absent"
      BY <1>5, <1>6, <1>10, <1>12, <1>16
  <2>2. QED BY <1>12, <1>14, <1>17, <2>1, SameAttempts DEF KeysHeld, Loaded, Working, Attempts, Links
<1>21. Driving(d) /\ MayBecome(d, l)
    BY <1>1, DrivingAt DEF MayBecome, DrivingSteps
<1>22. QED BY <1>13, <1>15, <1>18, <1>19, <1>20, <1>21, MovesKeyed

LEMMA CommitAndLeaveKeyed ==
    ASSUME Inv, Keyed, NEW d \in Drivers, CommitAndLeave(d)
    PROVE  Keyed'
<1>1. /\ driver[d].at \in {"finish", "overwrite"} /\ Commit(driver[d].view, driver[d].base)
      /\ Become(d, Idle) /\ approval' = approval /\ execKey' = execKey /\ acts' = acts
    BY DEF CommitAndLeave, Leave, history
<1>2. PICK k : k = driver[d]
    OBVIOUS
<1>3. /\ k.at \in {"finish", "overwrite"} /\ k.view \in ViewType /\ k.base \in ViewType
      /\ KeysHeld(k) /\ Commit(k.view, k.base)
    BY <1>1, <1>2, DriverFacts DEF Keyed
<1>4. KeysHeld(Idle)' /\ MayBecome(d, Idle) /\ ExecutionsOK'
    BY <1>1, IdleKeyed DEF KeysHeld, Loaded, Working, Keyed, ExecutionsOK, Acted
<1>5. AbsentOK'
  <2>1. k.view.run.status # "absent"
      BY <1>3 DEF KeysHeld, Loaded
  <2>2. QED BY <1>1, <1>2, <1>3, <2>1, StaysPresent
<1>6. CASE k.at = "finish"
  <2>1. KeyOK(k.view.step) /\ Attempts(k.base.step, step) /\ Links(k.base.step, step)
      BY <1>3, <1>6 DEF KeysHeld, Loaded
  <2>2. Attempts(k.view.step, step') /\ Links(k.view.step, step')
      BY <1>3, <2>1, CommitDriven
  <2>3. KeyOK(step)'
      BY <1>1, <2>1, <2>2 DEF KeyOK, Attempts, Links, Asked
  <2>4. Driving(d)
      BY <1>2, <1>6, DrivingAt DEF DrivingSteps
  <2>5. QED BY <1>1, <1>4, <1>5, <2>3, <2>4, MovesKeyed
<1>7. CASE k.at = "overwrite"
  <2>1. Attempts(k.view.step, k.base.step) /\ Links(k.view.step, k.base.step)
      BY <1>3, <1>7 DEF KeysHeld
  <2>2. Attempts(step, step') /\ Links(step, step')
      BY <1>3, <2>1, CommitBeside
  <2>3. KeyOK(step)'
      BY <1>1, <2>2 DEF Keyed, KeyOK, Attempts, Links, Asked
  <2>4. AskedStay
      BY <1>1 DEF AskedStay, Asked
  <2>5. QED BY <1>1, <1>4, <1>5, <2>2, <2>3, <2>4, MovesKeyed
<1>8. QED BY <1>3, <1>6, <1>7

-----------------------------------------------------------------------------
(* Deciding an approval.                                                   *)
LEMMA DecisionKeyed ==
    ASSUME Inv, Keyed, NEW a \in Approvals, Decidable(a), NEW status \in {"approved", "rejected"},
           approval' = [approval EXCEPT ![a].status = status],
           run' = run, step' = step, execKey' = execKey, acts' = acts
    PROVE  /\ AskedStay /\ Attempts(step, step') /\ Links(step, step')
           /\ KeyOK(step)' /\ ExecutionsOK' /\ AbsentOK'
           /\ execKey[a] = 0
<1>1. /\ \A b \in Approvals : approval'[b].step = approval[b].step
      /\ \A b \in Approvals \ {a} : approval'[b] = approval[b]
      /\ approval[a].status = "pending"
      /\ \A b \in Approvals : Asked(b) => Asked(b)'
    BY DecidedFacts
<1>2. execKey[a] = 0 /\ ExecutionsOK' /\ AskedStay
    BY <1>1 DEF Keyed, ExecutionsOK, Acted, AskedStay
<1>3. AbsentOK'
  <2>1. run.status # "absent"
      BY <1>1, AskedOfRun DEF Asked
  <2>2. QED BY <2>1 DEF AbsentOK
<1>4. PICK s : s = step
    OBVIOUS
<1>5. KeyOK(s)'
    BY <1>2, <1>4, KeyStays DEF Inv, TypeOK, Keyed
<1>6. KeyOK(step)' /\ Attempts(step, step') /\ Links(step, step')
    BY <1>4, <1>5 DEF KeyOK, Attempts, Links
<1>7. QED BY <1>2, <1>3, <1>6

LEMMA ApproveKeyed ==
    ASSUME Inv, Keyed, NEW d \in Drivers, Approve(d)
    PROVE  Keyed'
<1>1. /\ driver[d].at \in {"decide", "handover"}
      /\ run' = run /\ step' = step /\ execKey' = execKey /\ acts' = acts /\ refused' = refused
    BY DEF Approve, rows
<1>2. PICK k : k = driver[d]
    OBVIOUS
<1>3. k \in DriverType /\ k.at \in {"decide", "handover"} /\ k.job \in Approvals
    BY <1>1, <1>2, DriverFacts DEF DriverOK, Deciding
<1>4. CASE ~Decidable(k.job)
  <2>1. Leave(d) /\ UNCHANGED <<rows, approval, execKey, history>>
      BY <1>1, <1>2, <1>4 DEF Approve, rows, history
  <2>2. QED BY <2>1, LeavesKeyed
<1>5. CASE Decidable(k.job)
  <2>1. PICK l : l = IF k.at = "decide" THEN [k EXCEPT !.at = "lookup"] ELSE Idle
      OBVIOUS
  <2>2. approval' = [approval EXCEPT ![k.job].status = "approved"] /\ Become(d, l)
      BY <1>2, <1>3, <1>5, <2>1 DEF Approve, Leave
  <2>3. /\ AskedStay /\ Attempts(step, step') /\ Links(step, step')
        /\ KeyOK(step)' /\ ExecutionsOK' /\ AbsentOK'
        /\ execKey[k.job] = 0
      BY <1>1, <1>3, <1>5, <2>2, DecisionKeyed
  <2>4. KeysHeld(l)' /\ MayBecome(d, l)
    <3>1. CASE k.at = "decide"
      <4>1. l.at = "lookup" /\ l.job = k.job
          BY <1>3, <2>1, <3>1 DEF DriverType
      <4>2. Driving(d)
          BY <1>2, <3>1, DrivingAt DEF DrivingSteps
      <4>3. QED BY <1>1, <2>3, <4>1, <4>2 DEF KeysHeld, Loaded, Working, MayBecome
    <3>2. CASE k.at = "handover"
        BY <2>1, <3>2, IdleKeyed DEF KeysHeld, Loaded, Working
    <3>3. QED BY <1>3, <3>1, <3>2
  <2>5. QED BY <1>1, <2>2, <2>3, <2>4, MovesKeyed
<1>6. QED BY <1>4, <1>5

LEMMA RejectKeyed ==
    ASSUME Inv, Keyed, NEW d \in Drivers, Reject(d)
    PROVE  Keyed'
<1>1. /\ driver[d].at = "reject"
      /\ run' = run /\ step' = step /\ execKey' = execKey /\ acts' = acts /\ granted' = granted
    BY DEF Reject, rows
<1>2. PICK k : k = driver[d]
    OBVIOUS
<1>3. k \in DriverType /\ k.at = "reject" /\ k.job \in Approvals
    BY <1>1, <1>2, DriverFacts DEF DriverOK, Deciding
<1>4. CASE ~Decidable(k.job)
  <2>1. Leave(d) /\ UNCHANGED <<rows, approval, execKey, history>>
      BY <1>1, <1>2, <1>4 DEF Reject, rows, history
  <2>2. QED BY <2>1, LeavesKeyed
<1>5. CASE Decidable(k.job)
  <2>1. PICK l : l = [k EXCEPT !.at = "unlink"]
      OBVIOUS
  <2>2. approval' = [approval EXCEPT ![k.job].status = "rejected"] /\ Become(d, l)
      BY <1>2, <1>5, <2>1 DEF Reject
  <2>3. /\ AskedStay /\ Attempts(step, step') /\ Links(step, step')
        /\ KeyOK(step)' /\ ExecutionsOK' /\ AbsentOK'
      BY <1>1, <1>3, <1>5, <2>2, DecisionKeyed
  <2>4. l.at = "unlink"
      BY <1>3, <2>1 DEF DriverType
  <2>5. KeysHeld(l)' /\ MayBecome(d, l)
      BY <2>4 DEF KeysHeld, Loaded, Working, MayBecome, DrivingSteps
  <2>6. QED BY <1>1, <2>2, <2>3, <2>5, MovesKeyed
<1>6. QED BY <1>4, <1>5

LEMMA ExpireKeyed ==
    ASSUME Inv, Keyed, NEW a \in Approvals, Expire(a)
    PROVE  Keyed'
<1>1. /\ Decidable(a) /\ approval' = [approval EXCEPT ![a].status = "rejected"]
      /\ run' = run /\ step' = step /\ execKey' = execKey /\ acts' = acts /\ driver' = driver
    BY DEF Expire, Decidable, rows
<1>2. /\ AskedStay /\ Attempts(step, step') /\ Links(step, step')
      /\ KeyOK(step)' /\ ExecutionsOK' /\ AbsentOK'
    BY <1>1, DecisionKeyed
<1>3. OneDrives'
    BY <1>1 DEF Keyed, OneDrives, Driving
<1>4. ASSUME NEW e \in Drivers PROVE KeysHeld(driver[e])'
  <2>1. PICK c : c = driver[e]
      OBVIOUS
  <2>2. KeysHeld(c)'
      BY <1>1, <1>2, <2>1, KeysStayHeld
  <2>3. QED BY <1>1, <2>1, <2>2 DEF KeysHeld, KeyOK, Attempts, Links
<1>5. QED BY <1>2, <1>3, <1>4 DEF Keyed

-----------------------------------------------------------------------------
(* The keys of executions, in every behaviour.                             *)
LEMMA InitKeyed ==
    ASSUME Init
    PROVE  Keyed
<1>1. /\ step = NewView.step /\ \A i \in Steps : step[i] = NewStep
    BY NewViewFacts DEF Init
<1>2. \A d \in Drivers : driver[d] = Idle
    BY DEF Init
<1>3. \A a \in Approvals : ~Asked(a) /\ execKey[a] = 0 /\ ~Acted(a)
    BY DEF Init, Asked, Acted
<1>4. OneDrives
    BY <1>2, IdleKeyed DEF OneDrives, Driving
<1>5. KeyOK(step) /\ ExecutionsOK
    BY <1>1, <1>3 DEF KeyOK, NewStep, ExecutionsOK
<1>6. AbsentOK
    BY <1>1, <1>2, <1>3, IdleKeyed DEF AbsentOK
<1>7. QED BY <1>2, <1>4, <1>5, <1>6, IdleKeyed DEF Keyed

LEMMA StutterKeyed ==
    ASSUME Inv, Keyed, UNCHANGED vars
    PROVE  Keyed'
<1>1. UNCHANGED <<run, step, approval, execKey, driver, acts>>
    BY DEF vars, rows, history
<1>2. KeyOK(step)' /\ ExecutionsOK' /\ AbsentOK' /\ OneDrives'
    BY <1>1 DEF Keyed, KeyOK, Asked, ExecutionsOK, Acted, AbsentOK, OneDrives, Driving
<1>3. AskedStay /\ Attempts(step, step') /\ Links(step, step')
    BY <1>1 DEF AskedStay, Asked, Attempts, Links
<1>4. ASSUME NEW e \in Drivers PROVE KeysHeld(driver[e])'
  <2>1. PICK c : c = driver[e]
      OBVIOUS
  <2>2. KeysHeld(c)'
      BY <1>1, <1>3, <2>1, KeysStayHeld
  <2>3. QED BY <1>1, <2>1, <2>2 DEF KeysHeld, KeyOK, Attempts, Links
<1>5. QED BY <1>2, <1>4 DEF Keyed

LEMMA NextKeyed ==
    ASSUME OneDriver, Inv, Keyed, [Next]_vars
    PROVE  Keyed'
<1>1. ASSUME NEW a \in Approvals, Expire(a) PROVE Keyed'
    BY <1>1, ExpireKeyed
<1>2. ASSUME NEW d \in Drivers, Begin(d) PROVE Keyed'
  <2>1. CASE BeginRun(d)
      BY <2>1, BeginRunKeyed
  <2>2. CASE BeginPause(d) \/ BeginRetry(d)
      BY <2>2, OverwritesKeyed
  <2>3. ASSUME NEW a \in Approvals, BeginApprove(d, a) \/ BeginReject(d, a) PROVE Keyed'
      BY <2>3, DecidesKeyed
  <2>4. QED BY <1>2, <2>1, <2>2, <2>3 DEF Begin
<1>3. ASSUME NEW d \in Drivers, Recover(d) PROVE Keyed'
    BY <1>3, OverwritesKeyed, BeginResumeKeyed DEF Recover
<1>4. ASSUME NEW d \in Drivers, Continue(d) PROVE Keyed'
  <2>1. CASE InsertRun(d) \/ ApproveOwn(d) \/ CreateExecution(d)
      BY <2>1, InsertRunKeyed, ApproveOwnKeyed, CreateExecutionKeyed
  <2>2. ASSUME NEW a \in Approvals, RequestApproval(d, a) PROVE Keyed'
      BY <2>2, RequestApprovalKeyed
  <2>3. CASE CompleteStep(d) \/ FailStep(d)
      BY <2>3, CompleteStepKeyed, FailStepKeyed
  <2>4. CASE ActAgain(d)
      BY <2>4, NeverActsAgain DEF ActAgain
  <2>5. CASE Approve(d) \/ LookUp(d) \/ Reject(d) \/ CancelStep(d)
      BY <2>5, ApproveKeyed, LookUpKeyed, RejectKeyed, CancelStepKeyed
  <2>6. CASE ResumeRun(d)
      BY <2>6, ResumeRunKeyed
  <2>7. CASE CommitAndLeave(d)
      BY <2>7, CommitAndLeaveKeyed
  <2>8. QED BY <1>4, <2>1, <2>2, <2>3, <2>4, <2>5, <2>6, <2>7 DEF Continue
<1>5. ASSUME NEW d \in Drivers, Crash(d) PROVE Keyed'
    BY <1>5, CrashKeyed
<1>6. CASE UNCHANGED vars
    BY <1>6, StutterKeyed
<1>7. QED BY <1>1, <1>2, <1>3, <1>4, <1>5, <1>6 DEF Next

(* One driver at a time keeps the keys in step with the attempts, also     *)
(* when the key of the run is used again, and whoever is killed: the       *)
(* executions of a step have the keys of its attempts so far.              *)
THEOREM KeysInvariance ==
    ASSUME OneDriver
    PROVE  Spec => []Keyed
<1>1. Init => Keyed
    BY InitKeyed
<1>2. Inv /\ Keyed /\ [Next]_vars => Keyed'
    BY NextKeyed
<1>3. Spec => []Inv
    BY Invariance
<1>4. QED BY <1>1, <1>2, <1>3, PTL DEF Spec

(* _execute_approved_step: every action is recorded by an execution of its *)
(* own, and no other action of the step has the key of that execution.     *)
THEOREM OneKeyEach ==
    ASSUME OneDriver
    PROVE  Spec => []KeyActsOnce
<1>1. Keyed => KeyActsOnce
    BY DEF Keyed, ExecutionsOK, KeyActsOnce
<1>2. Spec => []Keyed
    BY KeysInvariance
<1>3. QED BY <1>1, <1>2, PTL

-----------------------------------------------------------------------------
(* Order.  What is said of the steps, in the table or in the view of a     *)
(* driver: everything before i is done, nothing after it is under way.     *)
Ready(s, i) ==
    \A j \in Steps :
        /\ j < i => s[j].status \in Done
        /\ j > i => s[j].status \in Done \cup {"pending"}

(* A step waits only when its turn has come, and while its approval is     *)
(* not granted nothing but a rejection takes it out of that.               *)
AwaitOK(s) ==
    \A i \in Steps :
        /\ s[i].status = "awaiting_approval" => Ready(s, i)
        /\ s[i].link # NoApproval =>
            /\ approval[s[i].link].status = "pending" => s[i].status = "awaiting_approval"
            /\ approval[s[i].link].status = "rejected" =>
                   s[i].status \in {"awaiting_approval", "cancelled"}

SkipOK(s) == \A i \in Steps : s[i].status = "skipped" => i \notin Handled

Orderly(s) == AwaitOK(s) /\ SkipOK(s)

NoneAwaits(s) == \A j \in Steps : s[j].status # "awaiting_approval"

(* A driver at work: nobody else has changed the steps since they were     *)
(* loaded or flushed, and none of them waits, but the one whose approval   *)
(* was just granted.                                                       *)
WorkOK(l) ==
    LET i == NextStep(l.plan) IN
    /\ l.base.step = step
    /\ l.view.run.status = "running"
    /\ Ready(l.view.step, i)
    /\ l.mode # "approved" => \A j \in Steps \ l.plan : l.view.step[j].status \in Done
    /\ \A j \in Steps : step[j].status = "awaiting_approval" => l.at = "create" /\ j = i
    /\ l.at = "request" => Orderly(l.view.step) /\ NoneAwaits(l.view.step)
    /\ l.at = "approve" => l.view.step = [step EXCEPT ![i].link = l.job]
    /\ l.at \in {"create", "act"} => l.view.step = step

(* A driver about to leave writes what is in order, or only that the run   *)
(* is still waiting.                                                       *)
FinishOK(l) ==
    /\ l.view.run.status \in {"completed", "failed", "awaiting_approval"}
    /\ l.view.run.status = "completed" => \A i \in Steps : l.view.step[i].status \in Done
    /\ \/ l.view.step = l.base.step /\ l.view.run.status = "awaiting_approval"
       \/ l.base.step = step /\ Orderly(l.view.step) /\ NoneAwaits(step)

(* Whoever overwrites the status of the run changes no step, unless he     *)
(* cancels the one whose approval he rejected; that step still waits.      *)
OverwriteOK(l) ==
    /\ l.view.run.status \in {"paused", "retry_wait", "failed"}
    /\ \A i \in Steps : l.view.step[i] # l.base.step[i] =>
           /\ l.view.step[i] = [l.base.step[i] EXCEPT !.status = "cancelled"]
           /\ l.job # NoApproval
           /\ step[i].status = "awaiting_approval" /\ step[i].link = l.job

SessionOK(l) ==
    /\ l.at \in Loaded /\ run.status = "completed" => l.base.run.status = "completed"
    /\ l.at = "lookup" =>
           \A i \in Steps : step[i].link = l.job => step[i].status = "awaiting_approval"
    /\ l.at \in Working => WorkOK(l)
    /\ l.at = "finish" => FinishOK(l)
    /\ l.at = "overwrite" => OverwriteOK(l)
    /\ l.at \in {"unlink", "overwrite"} /\ l.job # NoApproval =>
           approval[l.job].status = "rejected"

Cancelling(l) == l.at \in {"unlink", "overwrite"} /\ l.job # NoApproval

OneCancels ==
    \A d, e \in Drivers :
        Cancelling(driver[d]) /\ Cancelling(driver[e]) /\ driver[d].job = driver[e].job => d = e

Order ==
    /\ OneCancels
    /\ Orderly(step)
    /\ CompletedMeansDone
    /\ \A d \in Drivers : SessionOK(driver[d])

-----------------------------------------------------------------------------
(* Commits of exact copies.                                                *)

LEMMA WrittenBack ==
    ASSUME NEW new \in StepType, NEW old \in StepType
    PROVE  Written(new, old, old) = new
<1>1. DOMAIN old = {"status", "link", "tries", "key"}
    BY DEF StepType
<1>2. Written(new, old, old) = [f \in {"status", "link", "tries", "key"} |-> new[f]]
    BY <1>1 DEF Written
<1>3. [f \in {"status", "link", "tries", "key"} |-> new[f]] = new
    BY DEF StepType
<1>4. QED BY <1>2, <1>3

LEMMA CommitExact ==
    ASSUME Inv, NEW view \in ViewType, NEW base \in ViewType, base.step = step,
           Commit(view, base)
    PROVE  step' = view.step
<1>1. ASSUME NEW i \in Steps PROVE step'[i] = view.step[i]
  <2>1. view.step[i] \in StepType /\ base.step[i] \in StepType /\ base.step[i] = step[i]
      BY DEF ViewType
  <2>2. step'[i] = Written(view.step[i], base.step[i], base.step[i])
      BY <2>1 DEF Commit
  <2>3. QED BY <2>1, <2>2, WrittenBack
<1>2. step' = [i \in Steps |-> step'[i]]
    BY DEF Commit
<1>3. view.step = [i \in Steps |-> view.step[i]]
    BY DEF ViewType
<1>4. QED BY <1>1, <1>2, <1>3

(* The approvals go on: a pending one may be decided, nothing else.        *)
OnlyDecided ==
    \A a \in Approvals :
        /\ Asked(a) => Asked(a)' /\ approval'[a].step = approval[a].step
        /\ approval'[a].status \in {"pending", "rejected"} =>
               \/ approval[a].status = approval'[a].status
               \/ approval[a].status = "pending"
               \/ ~Asked(a)

LEMMA OrderlyStays ==
    ASSUME NEW s \in [Steps -> StepType], TrueSteps(s), Orderly(s), OnlyDecided
    PROVE  Orderly(s)'
<1>1. ASSUME NEW i \in Steps, s[i].link # NoApproval
      PROVE  /\ approval'[s[i].link].status = "pending" => s[i].status = "awaiting_approval"
             /\ approval'[s[i].link].status = "rejected" =>
                    s[i].status \in {"awaiting_approval", "cancelled"}
  <2>1. PICK a : a = s[i].link
      OBVIOUS
  <2>2. a \in Approvals /\ Asked(a)
      BY <1>1, <2>1 DEF StepType, TrueSteps
  <2>3. /\ approval[a].status = "pending" => s[i].status = "awaiting_approval"
        /\ approval[a].status = "rejected" => s[i].status \in {"awaiting_approval", "cancelled"}
      BY <1>1, <2>1 DEF Orderly, AwaitOK
  <2>4. QED BY <2>1, <2>2, <2>3 DEF OnlyDecided
<1>2. AwaitOK(s)'
    BY <1>1 DEF Orderly, AwaitOK, Ready
<1>3. QED BY <1>2 DEF Orderly, SkipOK

-----------------------------------------------------------------------------
(* A driver that takes a step, and those beside it.                        *)

(* The new local state cancels only what nobody else cancels.              *)
Enters(d, l) ==
    Cancelling(l) => \A e \in Drivers \ {d} : Cancelling(driver[e]) => driver[e].job # l.job

OthersKeep(d) == \A e \in Drivers \ {d} : \A k : k = driver[e] => SessionOK(k)'

LEMMA MovesInOrder ==
    ASSUME Inv, Order, NEW d \in Drivers, NEW l, Become(d, l), Enters(d, l),
           SessionOK(l)', OthersKeep(d), Orderly(step)', CompletedMeansDone'
    PROVE  Order'
<1>1. driver' = [driver EXCEPT ![d] = l] /\ driver \in [Drivers -> DriverType]
    BY DEF Become, Inv, TypeOK
<1>2. driver'[d] = l /\ \A e \in Drivers \ {d} : driver'[e] = driver[e]
    BY <1>1
<1>3. OneCancels'
  <2>1. SUFFICES ASSUME NEW e \in Drivers, NEW f \in Drivers, e # f,
                        Cancelling(driver'[e]), Cancelling(driver'[f]),
                        driver'[e].job = driver'[f].job
                 PROVE  FALSE
      BY DEF OneCancels, Cancelling
  <2>2. CASE e = d
      BY <1>2, <2>1, <2>2 DEF Enters
  <2>3. CASE f = d
      BY <1>2, <2>1, <2>3 DEF Enters
  <2>4. CASE e # d /\ f # d
      BY <1>2, <2>1, <2>4 DEF Order, OneCancels
  <2>5. QED BY <2>2, <2>3, <2>4
<1>4. ASSUME NEW e \in Drivers PROVE SessionOK(driver[e])'
  <2>1. CASE e = d
      BY <1>2, <2>1 DEF SessionOK, WorkOK, FinishOK, OverwriteOK
  <2>2. CASE e # d
    <3>1. PICK k : k = driver[e]
        OBVIOUS
    <3>2. SessionOK(k)' /\ driver'[e] = k
        BY <1>2, <2>2, <3>1 DEF OthersKeep
    <3>3. QED BY <3>2 DEF SessionOK, WorkOK, FinishOK, OverwriteOK
  <2>3. QED BY <2>1, <2>2
<1>5. QED BY <1>3, <1>4 DEF Order

LEMMA SameTables ==
    ASSUME NEW k, SessionOK(k), rows' = rows, approval' = approval
    PROVE  SessionOK(k)'
<1>1. run' = run /\ step' = step
    BY DEF rows
<1>2. \A s : Orderly(s)' <=> Orderly(s)
    BY DEF Orderly, AwaitOK, SkipOK, Ready
<1>3. k.at \in Working => WorkOK(k)'
    BY <1>1, <1>2 DEF SessionOK, WorkOK, Ready
<1>4. k.at = "finish" => FinishOK(k)'
    BY <1>1, <1>2 DEF SessionOK, FinishOK
<1>5. k.at = "overwrite" => OverwriteOK(k)'
    BY <1>1 DEF SessionOK, OverwriteOK
<1>6. QED BY <1>1, <1>3, <1>4, <1>5 DEF SessionOK

(* Nothing changes but what the driver holds in memory, and the actions.   *)
LEMMA Quiet ==
    ASSUME Inv, Order, NEW d \in Drivers, NEW l, Become(d, l), Enters(d, l), SessionOK(l),
           rows' = rows, approval' = approval
    PROVE  Order'
<1>1. run' = run /\ step' = step
    BY DEF rows
<1>2. SessionOK(l)' /\ OthersKeep(d)
    BY SameTables DEF Order, OthersKeep
<1>3. Orderly(step)'
    BY <1>1 DEF Order, Orderly, AwaitOK, SkipOK, Ready
<1>4. CompletedMeansDone'
    BY <1>1 DEF Order, CompletedMeansDone
<1>5. QED BY <1>2, <1>3, <1>4, MovesInOrder

LEMMA IdleInOrder ==
    /\ SessionOK(Idle)
    /\ \A d : Enters(d, Idle)
<1>1. Idle.at = "idle" /\ Idle.job = NoApproval
    BY DEF Idle
<1>2. QED BY <1>1 DEF SessionOK, Loaded, Working, Enters, Cancelling

LEMMA LeavesInOrder ==
    ASSUME Inv, Order, NEW d \in Drivers, Leave(d), rows' = rows, approval' = approval
    PROVE  Order'
BY IdleInOrder, Quiet DEF Leave

(* Whoever is beside a driver at work has nothing to write of the steps.   *)
LEMMA BesideCommit ==
    ASSUME Inv, Keyed, Order, NEW d \in Drivers, Driving(d),
           \A a \in Approvals : approval[a].status = "rejected" => approval'[a].status = "rejected",
           \/ step' = step
           \/ \A i \in Steps : step[i].status = "awaiting_approval" =>
                  approval[step[i].link].status # "rejected"
    PROVE  OthersKeep(d)
<1>1. SUFFICES ASSUME NEW e \in Drivers \ {d}, NEW k, k = driver[e] PROVE SessionOK(k)'
    BY DEF OthersKeep
<1>2. /\ k.at \in {"idle", "handover", "reject", "unlink", "overwrite"}
      /\ SessionOK(k) /\ k \in DriverType
    BY <1>1, BesideDriver DEF Order, Inv, TypeOK
<1>3. Cancelling(k) => k.job \in Approvals /\ approval[k.job].status = "rejected"
    BY <1>2 DEF SessionOK, Cancelling, DriverType
<1>4. Cancelling(k) => approval'[k.job].status = "rejected"
    BY <1>3
<1>5. ASSUME k.at = "overwrite" PROVE OverwriteOK(k)'
  <2>1. OverwriteOK(k)
      BY <1>2, <1>5 DEF SessionOK
  <2>2. CASE step' = step
      BY <2>1, <2>2 DEF OverwriteOK
  <2>3. CASE step' # step
    <3>1. \A i \in Steps : k.view.step[i] = k.base.step[i]
      <4>1. SUFFICES ASSUME NEW i \in Steps, k.view.step[i] # k.base.step[i] PROVE FALSE
          OBVIOUS
      <4>2. step[i].status = "awaiting_approval" /\ step[i].link = k.job /\ k.job # NoApproval
          BY <2>1, <4>1 DEF OverwriteOK
      <4>3. approval[k.job].status = "rejected"
          BY <1>3, <1>5, <4>2 DEF Cancelling
      <4>4. QED BY <2>3, <4>2, <4>3
    <3>2. QED BY <2>1, <3>1 DEF OverwriteOK
  <2>4. QED BY <2>2, <2>3
<1>6. QED BY <1>2, <1>4, <1>5 DEF SessionOK, Loaded, Working, Cancelling

-----------------------------------------------------------------------------
(* One lemma per action: first those that only load and decide what to do. *)

LEMMA BeginRunInOrder ==
    ASSUME Inv, Order, ~Rerun, NEW d \in Drivers, BeginRun(d)
    PROVE  Order'
<1>1. /\ Become(d, [Idle EXCEPT !.at = "insert"])
      /\ rows' = rows /\ approval' = approval
    BY DEF BeginRun
<1>2. PICK l : l = [Idle EXCEPT !.at = "insert"]
    OBVIOUS
<1>3. l.at = "insert"
    BY <1>2 DEF Idle
<1>4. SessionOK(l) /\ Enters(d, l)
    BY <1>3 DEF SessionOK, Loaded, Working, Enters, Cancelling
<1>5. QED BY <1>1, <1>2, <1>4, Quiet

LEMMA DecidesInOrder ==
    ASSUME Inv, Order, NEW d \in Drivers, NEW a \in Approvals,
           BeginApprove(d, a) \/ BeginReject(d, a)
    PROVE  Order'
<1>1. rows' = rows /\ approval' = approval
    BY DEF BeginApprove, BeginReject
<1>2. PICK at \in {"decide", "handover", "reject"} : Become(d, [Idle EXCEPT !.at = at, !.job = a])
    BY DEF BeginApprove, BeginReject
<1>3. PICK l : l = [Idle EXCEPT !.at = at, !.job = a]
    OBVIOUS
<1>4. l.at = at
    BY <1>3 DEF Idle
<1>5. SessionOK(l) /\ Enters(d, l)
    BY <1>4 DEF SessionOK, Loaded, Working, Enters, Cancelling
<1>6. QED BY <1>1, <1>2, <1>3, <1>5, Quiet

LEMMA OverwritesInOrder ==
    ASSUME Inv, Order, NEW d \in Drivers, BeginPause(d) \/ BeginRetry(d) \/ BeginFailStuck(d)
    PROVE  Order'
<1>1. PICK status \in {"paused", "retry_wait", "failed"} : Overwrite(d, status)
    BY DEF BeginPause, BeginRetry, BeginFailStuck
<1>2. rows' = rows /\ approval' = approval
    BY DEF BeginPause, BeginRetry, BeginFailStuck
<1>3. PICK v : v = WithRun(Database, status)
    OBVIOUS
<1>4. v.step = step /\ v.run.status = status /\ Database.step = step
  <2>1. Database \in ViewType /\ Database.step = step
      BY DatabaseFacts
  <2>2. QED BY <1>3, <2>1 DEF WithRun, ViewType, RunType
<1>5. PICK l : l = [Idle EXCEPT !.at = "overwrite", !.base = Database, !.view = v]
    OBVIOUS
<1>6. l.at = "overwrite" /\ l.job = NoApproval /\ l.base = Database /\ l.view = v
    BY <1>5 DEF Idle
<1>7. OverwriteOK(l)
    BY <1>4, <1>6 DEF OverwriteOK
<1>8. SessionOK(l) /\ Enters(d, l)
    BY <1>6, <1>7 DEF SessionOK, Loaded, Working, Enters, Cancelling
<1>9. Become(d, l)
    BY <1>1, <1>3, <1>5 DEF Overwrite
<1>10. QED BY <1>2, <1>8, <1>9, Quiet

LEMMA BeginResumeInOrder ==
    ASSUME Inv, Order, NEW d \in Drivers, BeginResume(d)
    PROVE  Order'
<1>1. PICK l : l = [Idle EXCEPT !.at = "resume", !.base = Database, !.view = Database]
    OBVIOUS
<1>2. l.at = "resume" /\ l.base.run = run
    BY <1>1, DatabaseFacts DEF Idle
<1>3. Become(d, l) /\ rows' = rows /\ approval' = approval
    BY <1>1 DEF BeginResume
<1>4. SessionOK(l) /\ Enters(d, l)
    BY <1>2 DEF SessionOK, Loaded, Working, Enters, Cancelling
<1>5. QED BY <1>3, <1>4, Quiet

(* Two steps never wait at once.                                           *)
LEMMA OneAwaits ==
    ASSUME NEW s, AwaitOK(s), NEW i \in Steps, NEW j \in Steps,
           s[i].status = "awaiting_approval", s[j].status = "awaiting_approval"
    PROVE  i = j
<1>1. i \in Nat /\ j \in Nat
    BY WorkflowAssumption DEF Steps
<1>2. ~ (i < j) /\ ~ (j < i)
    BY DEF AwaitOK, Ready, Done
<1>3. QED BY <1>1, <1>2

LEMMA LookUpInOrder ==
    ASSUME Inv, Order, NEW d \in Drivers, LookUp(d)
    PROVE  Order'
<1>1. rows' = rows /\ approval' = approval
    BY DEF LookUp
<1>2. PICK k : k = driver[d]
    OBVIOUS
<1>3. k \in DriverType /\ SessionOK(k) /\ k.at = "lookup"
    BY <1>2, DriverFacts DEF Order, LookUp
<1>4. CASE LinkedTo(k.job) = {}
  <2>1. Leave(d)
      BY <1>2, <1>4 DEF LookUp
  <2>2. QED BY <1>1, <2>1, LeavesInOrder
<1>5. CASE LinkedTo(k.job) # {}
  <2>1. PICK i : i = NextStep(LinkedTo(k.job))
      OBVIOUS
  <2>2. i \in Steps /\ step[i].link = k.job
      BY <1>5, <2>1, FirstLinked
  <2>3. PICK v : v = WithRun(Database, "running")
      OBVIOUS
  <2>4. v.step = step /\ v.run.status = "running" /\ Database.step = step /\ Database.run = run
    <3>1. Database \in ViewType /\ Database.step = step /\ Database.run = run
        BY DatabaseFacts
    <3>2. QED BY <2>3, <3>1 DEF WithRun, ViewType, RunType
  <2>5. PICK l : l = [[k EXCEPT !.at = "create", !.mode = "approved", !.plan = {i}]
                          EXCEPT !.base = Database, !.view = v]
      OBVIOUS
  <2>6. /\ l.mode = "approved" /\ l.at = "create" /\ l.view = v /\ l.base = Database
        /\ l.plan = {i}
      BY <1>3, <2>5 DEF DriverType
  <2>7. step[i].status = "awaiting_approval" /\ AwaitOK(step)
      BY <1>3, <2>2 DEF SessionOK, Order, Orderly
  <2>8. Ready(step, i) /\ \A j \in Steps : step[j].status = "awaiting_approval" => j = i
      BY <2>2, <2>7, OneAwaits DEF AwaitOK
  <2>9. NextStep(l.plan) = i
      BY <2>2, <2>6, OnlyStep
  <2>10. WorkOK(l)
      BY <2>4, <2>6, <2>8, <2>9 DEF WorkOK
  <2>11. SessionOK(l) /\ Enters(d, l)
      BY <2>4, <2>6, <2>10 DEF SessionOK, Loaded, Working, Enters, Cancelling
  <2>12. Become(d, l)
      BY <1>2, <1>5, <2>1, <2>3, <2>5 DEF LookUp, Loading
  <2>13. QED BY <1>1, <2>11, <2>12, Quiet
<1>6. QED BY <1>4, <1>5

LEMMA CancelStepInOrder ==
    ASSUME Inv, Order, NEW d \in Drivers, CancelStep(d)
    PROVE  Order'
<1>1. rows' = rows /\ approval' = approval
    BY DEF CancelStep
<1>2. PICK k : k = driver[d]
    OBVIOUS
<1>3. k \in DriverType /\ SessionOK(k) /\ k.at = "unlink" /\ k.job \in Approvals
    BY <1>2, DriverFacts DEF CancelStep, Order, DriverOK, Deciding
<1>4. CASE LinkedTo(k.job) = {}
  <2>1. Leave(d)
      BY <1>2, <1>4 DEF CancelStep
  <2>2. QED BY <1>1, <2>1, LeavesInOrder
<1>5. CASE LinkedTo(k.job) # {}
  <2>1. PICK i : i = NextStep(LinkedTo(k.job))
      OBVIOUS
  <2>2. i \in Steps /\ step[i].link = k.job
      BY <1>5, <2>1, FirstLinked
  <2>3. k.job # NoApproval /\ approval[k.job].status = "rejected"
      BY <1>3, WorkflowAssumption DEF SessionOK
  <2>4. step[i].status \in {"awaiting_approval", "cancelled"}
      BY <2>2, <2>3 DEF Order, Orderly, AwaitOK
  <2>5. PICK v : v = WithRun(WithStep(Database, i, "cancelled"), "failed")
      OBVIOUS
  <2>6. /\ v.step = [step EXCEPT ![i].status = "cancelled"] /\ v.run.status = "failed"
        /\ Database.step = step
    <3>1. Database \in ViewType /\ Database.step = step
        BY DatabaseFacts
    <3>2. QED BY <2>5, <3>1 DEF WithRun, WithStep, ViewType, RunType
  <2>7. PICK l : l = [k EXCEPT !.at = "overwrite", !.base = Database, !.view = v]
      OBVIOUS
  <2>8. l.at = "overwrite" /\ l.view = v /\ l.base = Database /\ l.job = k.job
      BY <1>3, <2>7 DEF DriverType
  <2>9. step \in [Steps -> StepType]
      BY DEF Inv, TypeOK
  <2>10. ASSUME NEW j \in Steps, v.step[j] # step[j]
         PROVE  /\ v.step[j] = [step[j] EXCEPT !.status = "cancelled"]
                /\ step[j].status = "awaiting_approval" /\ step[j].link = k.job
    <3>1. j = i
        BY <2>6, <2>9, <2>10
    <3>2. v.step[i] = [step[i] EXCEPT !.status = "cancelled"]
        BY <2>2, <2>6, <2>9
    <3>3. step[i].status # "cancelled"
      <4>1. step[i] \in StepType
          BY <2>2, <2>9
      <4>2. step[i].status = "cancelled" => [step[i] EXCEPT !.status = "cancelled"] = step[i]
          BY <4>1 DEF StepType
      <4>3. QED BY <2>10, <3>1, <3>2, <4>2
    <3>4. QED BY <2>2, <2>4, <3>1, <3>2, <3>3
  <2>11. OverwriteOK(l)
      BY <2>3, <2>6, <2>8, <2>10 DEF OverwriteOK
  <2>12. SessionOK(l)
      BY <2>3, <2>8, <2>11 DEF SessionOK, Loaded, Working
  <2>13. Enters(d, l)
    <3>1. Cancelling(driver[d])
        BY <1>2, <1>3, <2>3 DEF Cancelling
    <3>2. \A e \in Drivers \ {d} : Cancelling(driver[e]) => driver[e].job # driver[d].job
        BY <3>1 DEF Order, OneCancels
    <3>3. QED BY <1>2, <2>8, <3>2 DEF Enters
  <2>14. Become(d, l)
      BY <1>2, <1>5, <2>1, <2>5, <2>7 DEF CancelStep
  <2>15. QED BY <1>1, <2>12, <2>13, <2>14, Quiet
<1>6. QED BY <1>4, <1>5

(* The driver turns to the next step of its plan, or the run is complete.  *)
LEMMA OnwardInOrder ==
    ASSUME Inv, NEW m \in DriverType, m.mode = "planned" \/ m.mode = "remaining",
           m.base.step = step, Orderly(m.view.step),
           run.status = "completed" => m.base.run.status = "completed",
           NoneAwaits(step),
           \A j \in Steps \ m.plan : m.view.step[j].status \in Done,
           m.plan # {} => /\ m.view.run.status = "running"
                          /\ Ready(m.view.step, NextStep(m.plan))
                          /\ NoneAwaits(m.view.step)
    PROVE  SessionOK(Onward(m)) /\ Onward(m).at \in {"finish", "request"}
<1>1. PICK l : l = Onward(m)
    OBVIOUS
<1>2. m.view \in ViewType
    BY DEF DriverType
<1>3. CASE m.plan = {}
  <2>1. PICK v : v = WithRun(m.view, "completed")
      OBVIOUS
  <2>2. v.step = m.view.step /\ v.run.status = "completed"
      BY <1>2, <2>1 DEF WithRun, ViewType, RunType
  <2>3. l = [m EXCEPT !.at = "finish", !.view = v]
      BY <1>1, <1>3, <2>1 DEF Onward
  <2>4. l.at = "finish" /\ l.view = v /\ l.base = m.base
      BY <2>3 DEF DriverType
  <2>5. \A j \in Steps : l.view.step[j].status \in Done
      BY <1>3, <2>2, <2>4
  <2>6. FinishOK(l)
      BY <2>2, <2>4, <2>5 DEF FinishOK
  <2>7. QED BY <1>1, <2>4, <2>6 DEF SessionOK, Loaded, Working
<1>4. CASE m.plan # {}
  <2>1. l = [m EXCEPT !.at = "request"]
      BY <1>1, <1>4 DEF Onward
  <2>2. l.at = "request" /\ l.view = m.view /\ l.base = m.base /\ l.plan = m.plan
      BY <2>1 DEF DriverType
  <2>3. WorkOK(l)
      BY <1>4, <2>2 DEF WorkOK, NoneAwaits
  <2>4. QED BY <1>1, <2>2, <2>3 DEF SessionOK, Loaded, Working
<1>5. QED BY <1>3, <1>4

(* The steps from one on begin with that one.                              *)
LEMMA FirstFrom ==
    ASSUME NEW i \in Steps
    PROVE  NextStep({j \in Steps : j >= i}) = i
<1>1. PICK P : P = {j \in Steps : j >= i}
    OBVIOUS
<1>2. Steps \subseteq Nat
    BY WorkflowAssumption DEF Steps
<1>3. P \in SUBSET Steps /\ i \in P
    BY <1>1, <1>2
<1>4. NextStep(P) \in P /\ NextStep(P) <= i
    BY <1>3, FirstStep
<1>5. NextStep(P) \in Nat /\ NextStep(P) >= i /\ i \in Nat
    BY <1>1, <1>2, <1>4
<1>6. NextStep(P) = i
    BY <1>4, <1>5
<1>7. QED BY <1>1, <1>6

LEMMA ResetOrderly ==
    ASSUME Inv, Order, NEW start \in 0..N,
           NoneAwaits(step)
    PROVE  /\ Orderly([i \in Steps |-> Reset(i, start)])
           /\ \A i \in Steps : i >= start =>
                  Reset(i, start).status \in Done \cup {"pending"} \/ step[i].status \in Done
<1>1. PICK t : t = [i \in Steps |-> Reset(i, start)]
    OBVIOUS
<1>2. \A i \in Steps : t[i] = Reset(i, start)
    BY <1>1
<1>3. Orderly(step)
    BY DEF Order
<1>4. AwaitOK(t)
  <2>1. ASSUME NEW i \in Steps
        PROVE  /\ t[i].status # "awaiting_approval"
               /\ t[i].link # NoApproval => t[i] = step[i]
      BY <1>2, ResetFacts DEF NoneAwaits
  <2>2. QED BY <1>3, <2>1 DEF AwaitOK, Orderly
<1>5. SkipOK(t)
  <2>1. ASSUME NEW i \in Steps, t[i].status = "skipped" PROVE i \notin Handled
      BY <1>2, <1>3, <2>1, ResetFacts DEF Orderly, SkipOK
  <2>2. QED BY <2>1 DEF SkipOK
<1>6. ASSUME NEW i \in Steps, i >= start
      PROVE  Reset(i, start).status \in Done \cup {"pending"} \/ step[i].status \in Done
  <2>1. step[i].status \in StepStatuses
      BY DEF Inv, TypeOK, StepType
  <2>2. QED BY <1>6, <2>1, ResetFacts DEF Done, StepStatuses, NoneAwaits
<1>7. QED BY <1>1, <1>4, <1>5, <1>6 DEF Orderly

LEMMA ResumeRunInOrder ==
    ASSUME Inv, Order, NEW d \in Drivers, ResumeRun(d)
    PROVE  Order'
<1>1. driver[d].at = "resume" /\ rows' = rows /\ approval' = approval
    BY DEF ResumeRun
<1>2. PICK k : k = driver[d]
    OBVIOUS
<1>3. /\ k \in DriverType /\ k.at = "resume" /\ k.mode = "planned" /\ k.base \in ViewType
      /\ SessionOK(k)
    BY <1>1, <1>2, DriverFacts DEF DriverOK, Order
<1>4. PICK loaded : loaded = [run |-> k.base.run, step |-> step]
    OBVIOUS
<1>5. /\ loaded \in ViewType /\ loaded.step = step /\ loaded.run = k.base.run
      /\ k.base.run.current \in 0..N
    BY <1>3, <1>4 DEF ViewType, RunType, Inv, TypeOK
<1>6. run.status = "completed" => loaded.run.status = "completed"
    BY <1>3, <1>5 DEF SessionOK, Loaded
<1>7. PICK awaiting : awaiting = {i \in Steps : step[i].status = "awaiting_approval"}
    OBVIOUS
<1>8. PICK start : start = StartIndex(k.base.run.current)
    OBVIOUS
<1>9. start \in 0..N
    BY <1>5, <1>8, StartFacts
<1>10. CASE awaiting # {}
  <2>1. PICK v : v = [WithRun(loaded, "awaiting_approval")
                         EXCEPT !.run.current = NextStep(awaiting)]
      OBVIOUS
  <2>2. v.step = step /\ v.run.status = "awaiting_approval"
      BY <1>5, <2>1 DEF WithRun, ViewType, RunType
  <2>3. PICK l : l = [k EXCEPT !.at = "finish", !.base = loaded, !.view = v]
      OBVIOUS
  <2>4. l.at = "finish" /\ l.base = loaded /\ l.view = v
      BY <1>3, <2>3 DEF DriverType
  <2>5. FinishOK(l)
      BY <1>5, <2>2, <2>4 DEF FinishOK
  <2>6. SessionOK(l) /\ Enters(d, l)
      BY <1>6, <2>4, <2>5 DEF SessionOK, Loaded, Working, Enters, Cancelling
  <2>7. Become(d, l)
      BY <1>2, <1>4, <1>7, <1>10, <2>1, <2>3 DEF ResumeRun
  <2>8. QED BY <1>1, <2>6, <2>7, Quiet
<1>11. CASE awaiting = {}
  <2>1. NoneAwaits(step)
      BY <1>7, <1>11 DEF NoneAwaits
  <2>2. PICK again : again = [run |-> [status |-> "running", current |-> start],
                              step |-> [i \in Steps |-> Reset(i, start)]]
      OBVIOUS
  <2>3. PICK v : v = IF start = N THEN loaded ELSE again
      OBVIOUS
  <2>4. PICK P : P = {i \in Steps : i >= start}
      OBVIOUS
  <2>5. PICK m : m = [k EXCEPT !.base = loaded, !.plan = P, !.view = v]
      OBVIOUS
  <2>6. v \in ViewType
      BY <1>5, <1>9, <2>2, <2>3, ResetType
  <2>7. /\ m \in DriverType /\ m.mode = "planned" /\ m.base = loaded /\ m.plan = P /\ m.view = v
      BY <1>3, <1>5, <2>4, <2>5, <2>6 DEF DriverType
  <2>8. Steps \subseteq Nat /\ \A i \in Steps : i < N
      BY WorkflowAssumption DEF Steps
  <2>9. \A j \in Steps : j < start => step[j].status \in Done
    <3>1. PICK U : U = {i \in Steps : step[i].status \notin Done}
        OBVIOUS
    <3>2. U \in SUBSET Steps /\ start = IF U = {} THEN k.base.run.current ELSE NextStep(U)
        BY <1>8, <3>1 DEF StartIndex
    <3>3. CASE U = {}
        BY <3>1, <3>3
    <3>4. CASE U # {}
      <4>1. NextStep(U) \in U /\ \A j \in U : NextStep(U) <= j
          BY <3>2, <3>4, FirstStep
      <4>2. QED BY <1>9, <2>8, <3>1, <3>2, <3>4, <4>1
    <3>5. QED BY <3>3, <3>4
  <2>10. Orderly(v.step)
    <3>1. Orderly(again.step)
        BY <1>9, <2>1, <2>2, ResetOrderly
    <3>2. QED BY <1>5, <2>3, <3>1 DEF Order
  <2>11. \A j \in Steps \ P : v.step[j].status \in Done
    <3>1. SUFFICES ASSUME NEW j \in Steps, j < start PROVE v.step[j].status \in Done
        BY <1>9, <2>4, <2>8
    <3>2. step[j].status \in Done
        BY <2>9, <3>1
    <3>3. Reset(j, start) = step[j]
        BY <1>9, <2>8, <3>1, ResetFacts
    <3>4. QED BY <1>5, <2>2, <2>3, <3>2, <3>3
  <2>12. P # {} => v.run.status = "running" /\ Ready(v.step, NextStep(P))
    <3>1. SUFFICES ASSUME P # {} PROVE v.run.status = "running" /\ Ready(v.step, NextStep(P))
        OBVIOUS
    <3>2. start \in Steps /\ start # N
        BY <1>9, <2>4, <2>8, <3>1, WorkflowAssumption DEF Steps
    <3>3. NextStep(P) = start
        BY <2>4, <3>2, FirstFrom
    <3>4. v = again
        BY <2>3, <3>2
    <3>5. ASSUME NEW j \in Steps, j < start PROVE v.step[j].status \in Done
        BY <1>9, <2>4, <2>8, <2>11, <3>5
    <3>6. ASSUME NEW j \in Steps, j > start PROVE v.step[j].status \in Done \cup {"pending"}
      <4>1. j >= start
          BY <1>9, <2>8, <3>6
      <4>2. Reset(j, start).status \in Done \cup {"pending"} \/ step[j].status \in Done
          BY <1>9, <2>1, <4>1, ResetOrderly
      <4>3. Reset(j, start) = step[j] \/ Reset(j, start).status = "pending"
          BY <1>9, ResetFacts
      <4>4. QED BY <2>2, <3>4, <4>2, <4>3
    <3>7. QED BY <2>2, <3>3, <3>4, <3>5, <3>6 DEF Ready
  <2>13. PICK l : l = Onward(m)
      OBVIOUS
  <2>14. NoneAwaits(step) /\ NoneAwaits(v.step)
      BY <1>5, <1>9, <2>1, <2>2, <2>3, ResetFacts DEF NoneAwaits
  <2>15. SessionOK(l) /\ l.at \in {"finish", "request"}
      BY <1>5, <1>6, <2>7, <2>10, <2>11, <2>12, <2>13, <2>14, OnwardInOrder
  <2>16. Enters(d, l)
      BY <2>15 DEF Enters, Cancelling
  <2>17. Become(d, l)
      BY <1>2, <1>4, <1>7, <1>8, <1>11, <2>2, <2>3, <2>4, <2>5, <2>13 DEF ResumeRun
  <2>18. QED BY <1>1, <2>15, <2>16, <2>17, Quiet
<1>12. QED BY <1>10, <1>11

-----------------------------------------------------------------------------
(* The handlers of steps.                                                  *)

(* What is known when the handler of step i is called.                     *)
Called(k, i) ==
    /\ i \in Steps /\ i \in k.plan /\ i = NextStep(k.plan)
    /\ k \in DriverType /\ SessionOK(k)
    /\ k.job \in Approvals /\ approval[k.job].status = "approved"
    /\ k.view.step = step /\ k.base.step = step
    /\ k.view.run.status = "running"
    /\ Ready(step, i)
    /\ k.mode # "approved" => \A j \in Steps \ k.plan : step[j].status \in Done
    /\ NoneAwaits(step)

LEMMA AtCall ==
    ASSUME Inv, Order, NEW d \in Drivers, driver[d].at = "act"
    PROVE  Called(driver[d], NextStep(driver[d].plan))
<1>1. PICK k : k = driver[d]
    OBVIOUS
<1>2. k \in DriverType /\ SessionOK(k) /\ WorkOK(k) /\ k.at = "act"
    BY <1>1, DriverFacts DEF Order, SessionOK, Working
<1>3. k.job \in Approvals /\ approval[k.job].status = "approved"
    BY <1>1, <1>2, DriverFacts DEF DriverOK, InHand, Inv, Alone, Holds
<1>4. NextStep(k.plan) \in Steps /\ NextStep(k.plan) \in k.plan
    BY <1>1, <1>2, WorkingStep DEF Working
<1>5. QED BY <1>1, <1>2, <1>3, <1>4 DEF WorkOK, Called, NoneAwaits

(* The step in hand comes to an end in the view of its driver.             *)
LEMMA EndedOrderly ==
    ASSUME Inv, Order, NEW k, NEW i, Called(k, i),
           NEW x \in {"succeeded", "skipped", "failed"}, x = "skipped" => i \notin Handled,
           NEW done, Ended(k.view, i, x, k.job, done)
    PROVE  /\ Orderly(done.step) /\ NoneAwaits(done.step)
           /\ done \in ViewType
           /\ done.step[i].status = x
           /\ \A j \in Steps \ {i} : done.step[j] = step[j]
<1>1. PICK t : t = done.step
    OBVIOUS
<1>2. t[i].status = x /\ t[i].link = k.job /\ \A j \in Steps \ {i} : t[j] = step[j]
    BY <1>1 DEF Ended, Elsewhere, Called
<1>3. Orderly(step) /\ i \in Steps
    BY DEF Order, Called
<1>4. NoneAwaits(t)
    BY <1>2 DEF Called, NoneAwaits
<1>5. AwaitOK(t)
  <2>1. t[i].link # NoApproval => approval[t[i].link].status = "approved"
      BY <1>2 DEF Called
  <2>2. QED BY <1>2, <1>3, <1>4, <2>1 DEF AwaitOK, Orderly, NoneAwaits
<1>6. SkipOK(t)
    BY <1>2, <1>3 DEF SkipOK, Orderly
<1>7. QED BY <1>1, <1>2, <1>4, <1>5, <1>6 DEF Orderly, Ended

LEMMA CompleteStepInOrder ==
    ASSUME Inv, Order, NEW d \in Drivers, CompleteStep(d)
    PROVE  Order'
<1>1. driver[d].at = "act" /\ rows' = rows /\ approval' = approval
    BY DEF CompleteStep
<1>2. PICK k : k = driver[d]
    OBVIOUS
<1>3. PICK i : i = NextStep(k.plan)
    OBVIOUS
<1>4. Called(k, i) /\ k.base \in ViewType /\ k.at = "act"
    BY <1>1, <1>2, <1>3, AtCall, DriverFacts
<1>5. /\ i \in Steps /\ i \in k.plan /\ k \in DriverType /\ k.job \in Approvals
      /\ k.view.run.status = "running"
    BY <1>4 DEF Called
<1>6. PICK x : x = IF i \in Handled THEN "succeeded" ELSE "skipped"
    OBVIOUS
<1>7. PICK done : done = [WithStep(k.view, i, x) EXCEPT !.step[i].link = k.job, !.run.current = i + 1]
    OBVIOUS
<1>8. Ended(k.view, i, x, k.job, done) /\ done.run.status = "running"
  <2>1. x \in StepStatuses
      BY <1>6 DEF StepStatuses
  <2>2. QED BY <1>5, <1>7, <2>1, CompletedView
<1>9. PICK t : t = done.step
    OBVIOUS
<1>10. /\ Orderly(t) /\ NoneAwaits(t) /\ done \in ViewType /\ t \in [Steps -> StepType]
       /\ t[i].status \in Done /\ \A j \in Steps \ {i} : t[j] = step[j]
  <2>1. x \in {"succeeded", "skipped", "failed"} /\ (x = "skipped" => i \notin Handled)
      BY <1>6
  <2>2. /\ Orderly(t) /\ NoneAwaits(t) /\ done \in ViewType
        /\ t[i].status = x /\ \A j \in Steps \ {i} : t[j] = step[j]
      BY <1>4, <1>8, <1>9, <2>1, EndedOrderly
  <2>3. QED BY <1>6, <1>9, <2>2 DEF Done, ViewType
<1>11. PICK rest : rest = [k EXCEPT !.view = done, !.plan = k.plan \ {i}]
    OBVIOUS
<1>12. /\ rest \in DriverType /\ rest.view = done /\ rest.plan = k.plan \ {i}
       /\ rest.mode = k.mode /\ rest.base = k.base
    BY <1>5, <1>10, <1>11 DEF DriverType
<1>13. PICK m : m = IF k.mode = "approved" THEN Relisted(rest, i) ELSE rest
    OBVIOUS
<1>14. Steps \subseteq Nat
    BY WorkflowAssumption DEF Steps
<1>15. PICK later : later = {j \in Steps : j > i /\ step[j].status = "pending"}
    OBVIOUS
<1>16. /\ m \in DriverType
       /\ m.mode = "planned" \/ m.mode = "remaining"
       /\ m.view.step = t /\ m.view.run.status = "running"
       /\ m.base.step = step /\ m.base.run = k.base.run
       /\ \A j \in Steps \ m.plan : t[j].status \in Done
       /\ m.plan = IF k.mode = "approved" THEN later ELSE k.plan \ {i}
  <2>1. CASE k.mode # "approved"
    <3>1. k.mode \in Modes /\ k.base.step = step
        BY <1>4 DEF Called, DriverType
    <3>2. \A j \in Steps \ k.plan : step[j].status \in Done
        BY <1>4, <2>1 DEF Called
    <3>3. \A j \in Steps \ (k.plan \ {i}) : t[j].status \in Done
        BY <1>10, <3>2
    <3>4. QED BY <1>8, <1>9, <1>12, <1>13, <2>1, <3>1, <3>3 DEF Modes
  <2>2. CASE k.mode = "approved"
    <3>1. PICK s : s = [j \in Steps |-> IF j = i THEN done.step[i] ELSE step[j]]
        OBVIOUS
    <3>2. PICK q : q = [j \in Steps |-> IF j = i THEN k.base.step[i] ELSE step[j]]
        OBVIOUS
    <3>3. PICK v : v = [done EXCEPT !.step = s]
        OBVIOUS
    <3>4. PICK b : b = [k.base EXCEPT !.step = q]
        OBVIOUS
    <3>5. step \in [Steps -> StepType] /\ k.base.step = step
        BY <1>4 DEF Inv, TypeOK, Called
    <3>6. s = t
      <4>1. \A j \in Steps : t[j] = IF j = i THEN done.step[i] ELSE step[j]
          BY <1>9, <1>10
      <4>2. QED BY <1>10, <3>1, <4>1
    <3>7. v \in ViewType /\ v.run = done.run /\ v.step = t
        BY <1>9, <1>10, <3>3, <3>6 DEF ViewType
    <3>8. q = step
        BY <3>2, <3>5
    <3>9. b \in ViewType /\ b.run = k.base.run /\ b.step = step
        BY <1>4, <3>4, <3>5, <3>8 DEF ViewType
    <3>10. m = [rest EXCEPT !.mode = "remaining", !.base = b, !.view = v, !.plan = later]
        BY <1>12, <1>13, <1>15, <2>2, <3>1, <3>2, <3>3, <3>4 DEF Relisted
    <3>11. /\ m \in DriverType /\ m.mode = "remaining" /\ m.base = b /\ m.view = v
           /\ m.plan = later
        BY <1>12, <1>15, <3>7, <3>9, <3>10 DEF DriverType, Modes
    <3>12. \A j \in Steps \ later : t[j].status \in Done
      <4>1. SUFFICES ASSUME NEW j \in Steps, j \notin later, j # i PROVE step[j].status \in Done
          BY <1>10
      <4>2. j < i \/ j > i
          BY <1>5, <1>14, <4>1
      <4>3. Ready(step, i)
          BY <1>4 DEF Called
      <4>4. QED BY <1>15, <4>1, <4>2, <4>3 DEF Ready
    <3>13. QED BY <1>8, <2>2, <3>7, <3>9, <3>11, <3>12
  <2>3. QED BY <2>1, <2>2
<1>17. m.plan # {} => Ready(t, NextStep(m.plan))
  <2>1. SUFFICES ASSUME m.plan # {} PROVE Ready(t, NextStep(m.plan))
      OBVIOUS
  <2>2. PICK n : n = NextStep(m.plan)
      OBVIOUS
  <2>3. m.plan \in SUBSET Steps
      BY <1>16 DEF DriverType
  <2>4. n \in m.plan /\ \A j \in m.plan : n <= j
      BY <2>1, <2>2, <2>3, FirstStep
  <2>5. i < n
    <3>1. \A j \in k.plan : i <= j
        BY <1>1, <1>2, <1>3, WorkingStep DEF Working
    <3>2. n \in later \/ n \in k.plan \ {i}
        BY <1>16, <2>4
    <3>3. n \in Nat /\ i \in Nat
        BY <1>5, <1>14, <2>3, <2>4
    <3>4. QED BY <1>15, <3>1, <3>2, <3>3
  <2>6. ASSUME NEW j \in Steps, j < n PROVE t[j].status \in Done
    <3>1. j \notin m.plan
        BY <1>14, <2>3, <2>4, <2>6
    <3>2. QED BY <1>16, <3>1
  <2>7. ASSUME NEW j \in Steps, j > n PROVE t[j].status \in Done \cup {"pending"}
    <3>1. n \in Nat /\ i \in Nat /\ j \in Nat
        BY <1>5, <1>14, <2>3, <2>4
    <3>2. j > i /\ j # i
        BY <2>5, <2>7, <3>1
    <3>3. step[j].status \in Done \cup {"pending"}
        BY <1>4, <3>2 DEF Called, Ready
    <3>4. QED BY <1>10, <3>2, <3>3
  <2>8. QED BY <2>2, <2>6, <2>7 DEF Ready
<1>18. run.status = "completed" => m.base.run.status = "completed"
    BY <1>4, <1>16 DEF Called, SessionOK, Loaded, Working
<1>19. NoneAwaits(step)
    BY <1>4 DEF Called
<1>20. PICK l : l = Onward(m)
    OBVIOUS
<1>21. SessionOK(l) /\ l.at \in {"finish", "request"}
    BY <1>10, <1>16, <1>17, <1>18, <1>19, <1>20, OnwardInOrder
<1>22. Enters(d, l)
    BY <1>21 DEF Enters, Cancelling
<1>23. Become(d, l)
    BY <1>2, <1>3, <1>6, <1>7, <1>11, <1>13, <1>20 DEF CompleteStep
<1>24. QED BY <1>1, <1>21, <1>22, <1>23, Quiet

LEMMA FailStepInOrder ==
    ASSUME Inv, Order, NEW d \in Drivers, FailStep(d)
    PROVE  Order'
<1>1. driver[d].at = "act" /\ rows' = rows /\ approval' = approval
    BY DEF FailStep
<1>2. PICK k : k = driver[d]
    OBVIOUS
<1>3. PICK i : i = NextStep(k.plan)
    OBVIOUS
<1>4. Called(k, i) /\ k.at = "act"
    BY <1>1, <1>2, <1>3, AtCall
<1>5. PICK v : v = [WithRun(WithStep(k.view, i, "failed"), "failed") EXCEPT !.step[i].link = k.job]
    OBVIOUS
<1>6. Ended(k.view, i, "failed", k.job, v) /\ v.run.status = "failed"
    BY <1>4, <1>5, FailedView DEF Called
<1>7. Orderly(v.step)
    BY <1>4, <1>6, EndedOrderly
<1>8. PICK l : l = [k EXCEPT !.at = "finish", !.view = v]
    OBVIOUS
<1>9. l.at = "finish" /\ l.view = v /\ l.base = k.base
    BY <1>4, <1>8 DEF Called, DriverType
<1>10. FinishOK(l)
    BY <1>4, <1>6, <1>7, <1>9 DEF FinishOK, Called
<1>11. SessionOK(l)
    BY <1>4, <1>9, <1>10 DEF Called, SessionOK, Loaded, Working
<1>12. Enters(d, l)
    BY <1>9 DEF Enters, Cancelling
<1>13. Become(d, l)
    BY <1>2, <1>3, <1>5, <1>8 DEF FailStep
<1>14. QED BY <1>1, <1>11, <1>12, <1>13, Quiet

LEMMA CrashInOrder ==
    ASSUME Inv, Order, NEW d \in Drivers, Crash(d)
    PROVE  Order'
BY LeavesInOrder DEF Crash

-----------------------------------------------------------------------------
(* The actions that write to the tables.                                   *)

LEMMA InsertRunInOrder ==
    ASSUME Inv, Keyed, Order, NEW d \in Drivers, InsertRun(d)
    PROVE  Order'
<1>1. UNCHANGED <<step, approval>>
    BY DEF InsertRun
<1>2. CASE run.status # "absent"
  <2>1. Leave(d) /\ rows' = rows
      BY <1>2 DEF InsertRun, rows
  <2>2. QED BY <1>1, <2>1, LeavesInOrder
<1>3. CASE run.status = "absent"
  <2>1. PICK n : n = WithRun(NewView, "pending")
      OBVIOUS
  <2>2. PICK v : v = WithRun(n, "running")
      OBVIOUS
  <2>3. step = NewView.step /\ \A e \in Drivers : driver[e].at \in {"idle", "insert"}
      BY <1>3 DEF Keyed, AbsentOK
  <2>4. /\ n.step = step /\ n.run.status = "pending"
        /\ v.step = step /\ v.run.status = "running"
    <3>1. NewView \in ViewType
        BY NewViewFacts
    <3>2. n \in ViewType /\ n.step = step /\ n.run.status = "pending"
        BY <2>1, <2>3, <3>1 DEF WithRun, ViewType, RunType, RunStatuses
    <3>3. QED BY <2>2, <3>2 DEF WithRun, ViewType, RunType
  <2>5. PICK l : l = [Idle EXCEPT !.at = "request", !.plan = Steps, !.base = n, !.view = v]
      OBVIOUS
  <2>6. l.at = "request" /\ l.plan = Steps /\ l.base = n /\ l.view = v
      BY <2>5 DEF Idle
  <2>7. run' = n.run /\ Become(d, l)
      BY <1>3, <2>1, <2>2, <2>5 DEF InsertRun
  <2>8. \A j \in Steps : step[j].status = "pending"
      BY <2>3, NewViewFacts DEF NewStep
  <2>9. Orderly(step)'
      BY <1>1 DEF Order, Orderly, AwaitOK, SkipOK, Ready
  <2>10. WorkOK(l)'
    <3>1. Ready(step, NextStep(Steps))
      <4>1. PICK f : f = NextStep(Steps)
          OBVIOUS
      <4>2. f \in Nat /\ \A j \in Steps : j \in Nat /\ f <= j
        <5>1. NextStep(Steps) \in Steps /\ \A j \in Steps : NextStep(Steps) <= j
            BY SomeStep, FirstStep
        <5>2. Steps \subseteq Nat
            BY WorkflowAssumption DEF Steps
        <5>3. QED BY <4>1, <5>1, <5>2
      <4>3. \A j \in Steps : ~(j < f)
          BY <4>2
      <4>4. QED BY <2>8, <4>1, <4>3 DEF Ready
    <3>2. Orderly(l.view.step)'
        BY <1>1, <2>4, <2>6, <2>9 DEF Orderly, AwaitOK, SkipOK, Ready
    <3>3. NoneAwaits(step)
        BY <2>8 DEF NoneAwaits
    <3>4. QED BY <1>1, <2>4, <2>6, <3>1, <3>2, <3>3 DEF WorkOK, Ready, NoneAwaits
  <2>11. SessionOK(l)'
      BY <2>4, <2>6, <2>7, <2>10 DEF SessionOK, Loaded, Working
  <2>12. OthersKeep(d)
    <3>1. \A k : k.at \in {"idle", "insert"} => SessionOK(k)'
        BY DEF SessionOK, Loaded, Working
    <3>2. QED BY <2>3, <3>1 DEF OthersKeep
  <2>13. Enters(d, l)
      BY <2>6 DEF Enters, Cancelling
  <2>14. CompletedMeansDone'
      BY <2>4, <2>7 DEF CompletedMeansDone
  <2>15. QED BY <2>7, <2>9, <2>11, <2>12, <2>13, <2>14, MovesInOrder
<1>4. QED BY <1>2, <1>3

(* A driver at work commits: the steps become those of its view, and the   *)
(* run is not completed.                                                   *)
LEMMA CommitsInOrder ==
    ASSUME Inv, Order, NEW d \in Drivers, driver[d].at \in Working, NEW view \in ViewType,
           Commit(view, driver[d].base), view.run.status = "running"
    PROVE  step' = view.step /\ run'.status # "completed" /\ CompletedMeansDone'
<1>1. PICK k : k = driver[d]
    OBVIOUS
<1>2. k.base.step = step /\ k.base \in ViewType /\ k.at \in Working /\ SessionOK(k)
    BY <1>1, DriverFacts DEF Order, SessionOK, WorkOK
<1>3. run.status = "completed" => k.base.run.status = "completed"
    BY <1>2 DEF SessionOK, Loaded
<1>4. step' = view.step
    BY <1>1, <1>2, CommitExact
<1>5. run'.status = IF view.run.status = k.base.run.status THEN run.status ELSE view.run.status
    BY <1>1, <1>2, CommitRun
<1>6. run'.status # "completed"
    BY <1>3, <1>5
<1>7. QED BY <1>4, <1>6 DEF CompletedMeansDone

LEMMA ReadyElsewhere ==
    ASSUME NEW i \in Steps, NEW s, NEW t, Ready(s, i), Elsewhere(s, t, i)
    PROVE  Ready(t, i)
<1>1. i \in Nat
    BY WorkflowAssumption DEF Steps
<1>2. \A j \in Steps : j < i \/ j > i => j # i
    BY <1>1
<1>3. \A j \in Steps : j # i => t[j] = s[j]
    BY DEF Elsewhere
<1>4. QED BY <1>2, <1>3 DEF Ready

LEMMA RequestApprovalInOrder ==
    ASSUME Inv, Keyed, Order, NEW d \in Drivers, NEW a \in Approvals, RequestApproval(d, a)
    PROVE  Order'
<1>1. driver[d].at = "request" /\ NextId(a)
    BY DEF RequestApproval
<1>2. PICK k : k = driver[d]
    OBVIOUS
<1>3. /\ k \in DriverType /\ k.at = "request" /\ k.view \in ViewType /\ k.base \in ViewType
      /\ SessionOK(k) /\ WorkOK(k) /\ TrueSteps(k.view.step)
    BY <1>1, <1>2, DriverFacts DEF Order, SessionOK, Working
<1>4. PICK i : i = NextStep(k.plan)
    OBVIOUS
<1>5. i \in Steps /\ i \in k.plan
    BY <1>1, <1>2, <1>4, WorkingStep DEF Working
<1>6. PICK requested : requested = [k.view EXCEPT !.step[i].key = StepKey(k.view.step[i].tries)]
    OBVIOUS
<1>7. PICK linked : linked = [requested EXCEPT !.step[i].link = a]
    OBVIOUS
<1>8. PICK stopped : stopped = [WithRun(WithStep(linked, i, "awaiting_approval"), "awaiting_approval")
                                   EXCEPT !.run.current = i]
    OBVIOUS
<1>9. /\ requested \in ViewType
      /\ Requested(k.view, i, requested) /\ Linked(requested, i, a, linked)
      /\ Stopped(requested, i, a, stopped)
  <2>1. Requested(k.view, i, requested) /\ requested \in ViewType
      BY <1>3, <1>5, <1>6, RequestedView DEF Requested
  <2>2. Linked(requested, i, a, linked)
      BY <1>5, <1>7, <2>1, LinkedView
  <2>3. QED BY <1>5, <1>8, <2>1, <2>2, StoppedView
<1>10. PICK l : l = IF MustAwait(i, k)
                    THEN [k EXCEPT !.at = "finish", !.base = requested, !.view = stopped]
                    ELSE [k EXCEPT !.at = "approve", !.job = a, !.base = requested,
                                   !.view = linked]
    OBVIOUS
<1>11. /\ Commit(requested, k.base)
       /\ approval' = [approval EXCEPT ![a] = [status |-> "pending", step |-> i]]
       /\ Become(d, l)
    BY <1>2, <1>4, <1>6, <1>7, <1>8, <1>10 DEF RequestApproval
<1>12. /\ k.view.run.status = "running" /\ Ready(k.view.step, i)
       /\ Orderly(k.view.step) /\ NoneAwaits(k.view.step) /\ NoneAwaits(step)
       /\ k.mode # "approved" => \A j \in Steps \ k.plan : k.view.step[j].status \in Done
    BY <1>3, <1>4 DEF WorkOK, NoneAwaits
<1>13. PICK s : s = requested.step
    OBVIOUS
<1>14. /\ s \in [Steps -> StepType] /\ requested.run = k.view.run
       /\ \A j \in Steps : s[j].link = k.view.step[j].link /\ s[j].status = k.view.step[j].status
       /\ Elsewhere(k.view.step, s, i)
    BY <1>9, <1>13 DEF Requested, ViewType, Elsewhere
<1>15. step' = s /\ run'.status # "completed" /\ CompletedMeansDone'
    BY <1>1, <1>2, <1>9, <1>11, <1>12, <1>13, <1>14, CommitsInOrder DEF Working
<1>16. /\ \A b \in Approvals \ {a} : approval'[b] = approval[b]
       /\ approval'[a].status = "pending"
       /\ ~Asked(a) /\ approval[a].status = "absent"
  <2>1. approval[a].status = "absent"
      BY <1>1 DEF NextId, Fresh
  <2>2. QED BY <1>5, <1>11, <2>1 DEF Inv, TypeOK, Asked
<1>17. OnlyDecided
    BY <1>16 DEF OnlyDecided, Asked
<1>18. NoneAwaits(s) /\ \A j \in Steps : s[j].link # a
  <2>1. \A j \in Steps : k.view.step[j].link # a
      BY <1>3, <1>16, WorkflowAssumption DEF TrueSteps
  <2>2. QED BY <1>12, <1>14, <2>1 DEF NoneAwaits
<1>19. Orderly(s)'
  <2>1. AwaitOK(s)
      BY <1>12, <1>14, <1>18 DEF Orderly, AwaitOK, NoneAwaits
  <2>2. SkipOK(s)
      BY <1>12, <1>14 DEF Orderly, SkipOK
  <2>3. TrueSteps(s)
      BY <1>3, <1>14 DEF TrueSteps
  <2>4. QED BY <1>14, <1>17, <2>1, <2>2, <2>3, OrderlyStays DEF Orderly
<1>20. Orderly(step)'
    BY <1>15, <1>19 DEF Orderly, AwaitOK, SkipOK, Ready
<1>21. OthersKeep(d)
  <2>1. \A b \in Approvals : approval[b].status = "rejected" => approval'[b].status = "rejected"
      BY <1>16
  <2>2. Driving(d)
      BY <1>1, DrivingAt DEF DrivingSteps
  <2>3. QED BY <1>12, <2>1, <2>2, BesideCommit DEF NoneAwaits
<1>22. Ready(s, i)
    BY <1>5, <1>12, <1>14, ReadyElsewhere
<1>23. SessionOK(l)' /\ l.at \in {"finish", "approve"}
  <2>1. CASE MustAwait(i, k)
    <3>1. l.at = "finish" /\ l.base = requested /\ l.view = stopped
        BY <1>3, <1>10, <2>1 DEF DriverType
    <3>2. PICK x : x = stopped.step
        OBVIOUS
    <3>3. x[i].status = "awaiting_approval" /\ x[i].link = a /\ Elsewhere(s, x, i)
        BY <1>9, <1>13, <3>2 DEF Stopped
    <3>4. Ready(x, i)
        BY <1>5, <1>22, <3>3, ReadyElsewhere
    <3>5. \A j \in Steps : x[j].status = "awaiting_approval" => j = i
        BY <1>18, <3>3 DEF Elsewhere, NoneAwaits
    <3>6. AwaitOK(x)'
      <4>1. \A j \in Steps \ {i} : x[j] = s[j]
          BY <3>3 DEF Elsewhere
      <4>2. AwaitOK(s)'
          BY <1>19 DEF Orderly
      <4>3. QED BY <1>16, <3>3, <3>4, <3>5, <4>1, <4>2 DEF AwaitOK, Ready
    <3>7. SkipOK(x)'
      <4>1. SkipOK(s)'
          BY <1>19 DEF Orderly
      <4>2. QED BY <3>3, <4>1 DEF SkipOK, Elsewhere
    <3>8. FinishOK(l)'
      <4>1. l.base.step = step'
          BY <1>13, <1>15, <3>1
      <4>2. Orderly(l.view.step)'
          BY <3>1, <3>2, <3>6, <3>7 DEF Orderly, AwaitOK, SkipOK, Ready
      <4>3. NoneAwaits(step)'
          BY <1>15, <1>18 DEF NoneAwaits
      <4>4. l.view.run.status = "awaiting_approval"
          BY <1>9, <3>1 DEF Stopped
      <4>5. QED BY <4>1, <4>2, <4>3, <4>4 DEF FinishOK
    <3>9. QED BY <1>15, <3>1, <3>8 DEF SessionOK, Loaded, Working
  <2>2. CASE ~MustAwait(i, k)
    <3>1. /\ l.at = "approve" /\ l.job = a /\ l.base = requested /\ l.view = linked
          /\ l.plan = k.plan /\ l.mode = k.mode
        BY <1>3, <1>10, <2>2 DEF DriverType
    <3>2. PICK t : t = linked.step
        OBVIOUS
    <3>3. /\ t = [s EXCEPT ![i].link = a] /\ Elsewhere(s, t, i)
          /\ t[i].status = s[i].status /\ linked.run = k.view.run
        BY <1>9, <1>13, <1>14, <3>2 DEF Linked
    <3>4. Ready(t, i)
        BY <1>5, <1>22, <3>3, ReadyElsewhere
    <3>5. k.mode # "approved" => \A j \in Steps \ k.plan : t[j].status \in Done
        BY <1>5, <1>12, <1>14, <3>3 DEF Elsewhere
    <3>6. \A j \in Steps : step'[j].status # "awaiting_approval"
        BY <1>15, <1>18 DEF NoneAwaits
    <3>7. l.base.step = step' /\ l.view.step = [step' EXCEPT ![i].link = l.job]
        BY <1>13, <1>15, <3>1, <3>2, <3>3
    <3>8. l.view.run.status = "running" /\ l.view.step = t /\ NextStep(l.plan) = i
        BY <1>4, <1>12, <3>1, <3>2, <3>3
    <3>9. WorkOK(l)'
        BY <3>1, <3>4, <3>5, <3>6, <3>7, <3>8 DEF WorkOK, Ready
    <3>10. QED BY <1>15, <3>1, <3>9 DEF SessionOK, Loaded, Working
  <2>3. QED BY <2>1, <2>2
<1>24. Enters(d, l)
    BY <1>23 DEF Enters, Cancelling
<1>25. QED BY <1>11, <1>15, <1>20, <1>21, <1>23, <1>24, MovesInOrder

LEMMA ApproveOwnInOrder ==
    ASSUME Inv, Keyed, Order, NEW d \in Drivers, ApproveOwn(d)
    PROVE  Order'
<1>1. driver[d].at = "approve"
    BY DEF ApproveOwn
<1>2. PICK k : k = driver[d]
    OBVIOUS
<1>3. /\ k \in DriverType /\ k.at = "approve" /\ k.view \in ViewType /\ k.base \in ViewType
      /\ SessionOK(k) /\ WorkOK(k) /\ k.job \in Approvals
    BY <1>1, <1>2, DriverFacts DEF Order, SessionOK, Working, DriverOK, InHand
<1>4. CASE ~Decidable(k.job)
  <2>1. Leave(d) /\ rows' = rows /\ approval' = approval
      BY <1>2, <1>4 DEF ApproveOwn
  <2>2. QED BY <2>1, LeavesInOrder
<1>5. CASE Decidable(k.job)
  <2>1. PICK i : i = NextStep(k.plan)
      OBVIOUS
  <2>2. i \in Steps
      BY <1>2, <1>3, <2>1, WorkingStep DEF Working
  <2>3. PICK l : l = [k EXCEPT !.at = "create", !.base = k.view]
      OBVIOUS
  <2>4. /\ approval' = [approval EXCEPT ![k.job].status = "approved"]
        /\ Commit(k.view, k.base)
        /\ Become(d, l)
      BY <1>2, <1>5, <2>3 DEF ApproveOwn
  <2>5. /\ l.at = "create" /\ l.base = k.view /\ l.view = k.view /\ l.job = k.job
        /\ l.plan = k.plan /\ l.mode = k.mode
      BY <1>3, <2>3 DEF DriverType
  <2>6. PICK t : t = k.view.step
      OBVIOUS
  <2>7. /\ k.view.run.status = "running" /\ Ready(t, i)
        /\ t = [step EXCEPT ![i].link = k.job]
        /\ NoneAwaits(step)
        /\ k.mode # "approved" => \A j \in Steps \ k.plan : t[j].status \in Done
      BY <1>3, <2>1, <2>6 DEF WorkOK, NoneAwaits
  <2>8. PICK s : s = step
      OBVIOUS
  <2>9. /\ s \in [Steps -> StepType] /\ TrueSteps(s) /\ Orderly(s)
        /\ t[i].link = k.job /\ t[i].status = s[i].status
        /\ \A j \in Steps \ {i} : t[j] = s[j]
    <3>1. s \in [Steps -> StepType] /\ TrueSteps(s) /\ Orderly(s)
        BY <2>8 DEF Inv, TypeOK, Order
    <3>2. QED BY <2>2, <2>7, <2>8, <3>1 DEF StepType
  <2>10. NoneAwaits(t)
      BY <2>7, <2>8, <2>9 DEF NoneAwaits
  <2>11. step' = t /\ run'.status # "completed" /\ CompletedMeansDone'
      BY <1>2, <1>3, <2>4, <2>6, <2>7, CommitsInOrder DEF Working
  <2>12. /\ \A b \in Approvals : approval'[b].step = approval[b].step
         /\ \A b \in Approvals \ {k.job} : approval'[b] = approval[b]
         /\ approval'[k.job].status = "approved"
         /\ approval[k.job].status = "pending"
         /\ \A b \in Approvals : Asked(b) => Asked(b)'
      BY <1>3, <1>5, <2>4, DecidedFacts
  <2>13. Orderly(s)'
    <3>1. OnlyDecided
        BY <2>12 DEF OnlyDecided, Asked
    <3>2. QED BY <2>9, <3>1, OrderlyStays
  <2>14. AwaitOK(t)'
      BY <2>9, <2>10, <2>12, <2>13 DEF AwaitOK, Orderly, NoneAwaits
  <2>15. SkipOK(t)'
      BY <2>9, <2>13 DEF SkipOK, Orderly
  <2>16. Orderly(step)'
      BY <2>11, <2>14, <2>15 DEF Orderly, AwaitOK, SkipOK, Ready
  <2>17. OthersKeep(d)
    <3>1. \A b \in Approvals : approval[b].status = "rejected" => approval'[b].status = "rejected"
        BY <2>12
    <3>2. Driving(d)
        BY <1>1, DrivingAt DEF DrivingSteps
    <3>3. QED BY <2>7, <3>1, <3>2, BesideCommit DEF NoneAwaits
  <2>18. WorkOK(l)'
    <3>1. \A j \in Steps : step'[j].status # "awaiting_approval"
        BY <2>10, <2>11 DEF NoneAwaits
    <3>2. l.view.step = step' /\ l.base.step = step' /\ l.view.step = t
        BY <2>5, <2>6, <2>11
    <3>3. QED BY <2>1, <2>5, <2>7, <3>1, <3>2 DEF WorkOK, Ready
  <2>19. SessionOK(l)'
      BY <2>5, <2>11, <2>18 DEF SessionOK, Loaded, Working
  <2>20. Enters(d, l)
      BY <2>5 DEF Enters, Cancelling
  <2>21. QED BY <2>4, <2>11, <2>16, <2>17, <2>19, <2>20, MovesInOrder
<1>6. QED BY <1>4, <1>5

LEMMA CreateExecutionInOrder ==
    ASSUME Inv, Keyed, Order, NEW d \in Drivers, CreateExecution(d)
    PROVE  Order'
<1>1. driver[d].at = "create" /\ approval' = approval
    BY DEF CreateExecution
<1>2. PICK k : k = driver[d]
    OBVIOUS
<1>3. /\ k \in DriverType /\ k.at = "create" /\ k.view \in ViewType /\ k.base \in ViewType
      /\ SessionOK(k) /\ WorkOK(k)
    BY <1>1, <1>2, DriverFacts DEF Order, SessionOK, Working
<1>4. PICK i : i = NextStep(k.plan)
    OBVIOUS
<1>5. i \in Steps
    BY <1>2, <1>3, <1>4, WorkingStep DEF Working
<1>6. /\ k.view.run.status = "running" /\ Ready(step, i)
      /\ k.view.step = step /\ k.base.step = step
      /\ \A j \in Steps : step[j].status = "awaiting_approval" => j = i
      /\ k.mode # "approved" => \A j \in Steps \ k.plan : step[j].status \in Done
    BY <1>3, <1>4 DEF WorkOK
<1>7. /\ approval[k.job].status = "approved" /\ step[i].link = k.job
      /\ execKey[k.job] = 0 /\ KeyFree(i, k.view.step[i].key)
    BY <1>1, <1>2, <1>4, <1>6, NextKeyFree
<1>8. PICK started : started = [WithStep(k.view, i, "running")
                                   EXCEPT !.step[i].tries = k.view.step[i].tries + 1]
    OBVIOUS
<1>9. PICK t : t = started.step
    OBVIOUS
<1>10. /\ started \in ViewType /\ started.run = k.view.run
       /\ t[i].status = "running" /\ t[i].link = k.job
       /\ Elsewhere(step, t, i)
  <2>1. PICK v : v = k.view
      OBVIOUS
  <2>2. v \in ViewType /\ started = [WithStep(v, i, "running") EXCEPT !.step[i].tries = v.step[i].tries + 1]
      BY <1>3, <1>8, <2>1
  <2>3. /\ started \in ViewType /\ started.run = v.run
        /\ started.step[i].status = "running" /\ started.step[i].link = v.step[i].link
        /\ Elsewhere(v.step, started.step, i)
      BY <1>5, <2>2, StartedView
  <2>4. QED BY <1>6, <1>7, <1>9, <2>1, <2>3
<1>11. PICK l : l = [k EXCEPT !.at = "act", !.base = started, !.view = started]
    OBVIOUS
<1>12. /\ l.at = "act" /\ l.base = started /\ l.view = started /\ l.job = k.job
       /\ l.plan = k.plan /\ l.mode = k.mode
    BY <1>3, <1>11 DEF DriverType
<1>13. Commit(started, k.base) /\ Become(d, l)
    BY <1>2, <1>4, <1>7, <1>8, <1>11 DEF CreateExecution
<1>14. step' = t /\ run'.status # "completed" /\ CompletedMeansDone'
    BY <1>2, <1>3, <1>6, <1>9, <1>10, <1>13, CommitsInOrder DEF Working
<1>15. NoneAwaits(t)
    BY <1>6, <1>10 DEF Elsewhere, NoneAwaits
<1>16. AwaitOK(t)'
  <2>1. AwaitOK(step)
      BY DEF Order, Orderly
  <2>2. \A j \in Steps : t[j] = step[j] \/ t[j].link = k.job
      BY <1>10 DEF Elsewhere
  <2>3. QED BY <1>1, <1>7, <1>15, <2>1, <2>2 DEF AwaitOK, NoneAwaits
<1>17. SkipOK(t)'
    BY <1>10 DEF SkipOK, Elsewhere, Order, Orderly
<1>18. Orderly(step)'
    BY <1>14, <1>16, <1>17 DEF Orderly, AwaitOK, SkipOK, Ready
<1>19. OthersKeep(d)
  <2>1. \A j \in Steps : step[j].status = "awaiting_approval" =>
            approval[step[j].link].status # "rejected"
      BY <1>6, <1>7
  <2>2. Driving(d)
      BY <1>1, DrivingAt DEF DrivingSteps
  <2>3. QED BY <1>1, <2>1, <2>2, BesideCommit
<1>20. WorkOK(l)'
  <2>1. Ready(t, i)
      BY <1>5, <1>6, <1>10, ReadyElsewhere
  <2>2. k.mode # "approved" => \A j \in Steps \ k.plan : t[j].status \in Done
      BY <1>3, <1>5, <1>6, <1>2, <1>4, <1>10, WorkingStep DEF Elsewhere, Working
  <2>3. l.view.step = step' /\ l.base.step = step' /\ l.view.step = t
      BY <1>9, <1>12, <1>14
  <2>4. \A j \in Steps : step'[j].status # "awaiting_approval"
      BY <1>14, <1>15 DEF NoneAwaits
  <2>5. QED BY <1>4, <1>6, <1>10, <1>12, <2>1, <2>2, <2>3, <2>4 DEF WorkOK, Ready
<1>21. SessionOK(l)'
    BY <1>12, <1>14, <1>20 DEF SessionOK, Loaded, Working
<1>22. Enters(d, l)
    BY <1>12 DEF Enters, Cancelling
<1>23. QED BY <1>13, <1>14, <1>18, <1>19, <1>21, <1>22, MovesInOrder

(* What a session has not touched is not written.                          *)
LEMMA NothingWritten ==
    ASSUME NEW new, NEW old, NEW stored \in StepType, new = old
    PROVE  Written(new, old, stored) = stored
BY DEF Written, StepType

LEMMA CancelWritten ==
    ASSUME NEW old \in StepType, NEW stored \in StepType,
           NEW new, new = [old EXCEPT !.status = "cancelled"], new # old
    PROVE  Written(new, old, stored) = [stored EXCEPT !.status = "cancelled"]
<1>1. new.status = "cancelled" /\ old.status # "cancelled"
    BY DEF StepType
<1>2. new.link = old.link /\ new.tries = old.tries /\ new.key = old.key
    BY DEF StepType
<1>3. QED BY <1>1, <1>2 DEF Written, StepType

LEMMA FinishInOrder ==
    ASSUME Inv, Keyed, Order, NEW d \in Drivers, driver[d].at = "finish", CommitAndLeave(d)
    PROVE  Order'
<1>1. /\ approval' = approval /\ Become(d, Idle)
      /\ Commit(driver[d].view, driver[d].base)
    BY DEF CommitAndLeave, Leave
<1>2. PICK k : k = driver[d]
    OBVIOUS
<1>3. /\ k.at = "finish" /\ k.view \in ViewType /\ k.base \in ViewType
      /\ SessionOK(k) /\ FinishOK(k)
    BY <1>2, DriverFacts DEF Order, SessionOK
<1>4. Commit(k.view, k.base)
    BY <1>1, <1>2
<1>5. run'.status = IF k.view.run.status = k.base.run.status THEN run.status ELSE k.view.run.status
    BY <1>3, <1>4, CommitRun
<1>6. run.status = "completed" => k.base.run.status = "completed"
    BY <1>3 DEF SessionOK, Loaded
<1>7. k.base.step = step => step' = k.view.step
    BY <1>3, <1>4, CommitExact
<1>8. k.view.step = k.base.step => step' = step
  <2>1. SUFFICES ASSUME k.view.step = k.base.step PROVE step' = step
      OBVIOUS
  <2>2. step \in [Steps -> StepType]
      BY DEF Inv, TypeOK
  <2>3. step' = [i \in Steps |-> Written(k.view.step[i], k.base.step[i], step[i])]
      BY <1>4 DEF Commit
  <2>4. \A i \in Steps : Written(k.view.step[i], k.base.step[i], step[i]) = step[i]
      BY <2>1, <2>2, NothingWritten
  <2>5. QED BY <2>2, <2>3, <2>4
<1>9. CompletedMeansDone'
  <2>1. SUFFICES ASSUME run'.status = "completed" PROVE \A i \in Steps : step'[i].status \in Done
      BY DEF CompletedMeansDone
  <2>2. k.view.run.status = "completed"
      BY <1>5, <1>6, <2>1
  <2>3. k.base.step = step /\ \A i \in Steps : k.view.step[i].status \in Done
      BY <1>3, <2>2 DEF FinishOK
  <2>4. QED BY <1>7, <2>3
<1>10. PICK s : s = step'
    OBVIOUS
<1>11. Orderly(s)
    BY <1>3, <1>7, <1>8, <1>10 DEF FinishOK, Order
<1>12. Orderly(step)'
    BY <1>1, <1>10, <1>11 DEF Orderly, AwaitOK, SkipOK, Ready
<1>13. OthersKeep(d)
  <2>1. \/ step' = step
        \/ \A j \in Steps : step[j].status = "awaiting_approval" =>
               approval[step[j].link].status # "rejected"
      BY <1>3, <1>8 DEF FinishOK, NoneAwaits
  <2>2. Driving(d)
      BY DrivingAt DEF DrivingSteps
  <2>3. QED BY <1>1, <2>1, <2>2, BesideCommit
<1>14. SessionOK(Idle)'
    BY IdleKeyed DEF SessionOK, Loaded, Working
<1>15. QED BY <1>1, <1>9, <1>12, <1>13, <1>14, IdleInOrder, MovesInOrder

(* Step j waits for the approval a, which was rejected, and is cancelled.  *)
Cut(a, j) ==
    /\ a \in Approvals /\ approval[a].status = "rejected"
    /\ step[j].status = "awaiting_approval" /\ step[j].link = a
    /\ step'[j] = [step[j] EXCEPT !.status = "cancelled"]

LEMMA CutFacts ==
    ASSUME Inv, NEW a, NEW j \in Steps, Cut(a, j)
    PROVE  step'[j].status = "cancelled" /\ step'[j].link = step[j].link
<1>1. step[j] \in StepType
    BY DEF Inv, TypeOK
<1>2. QED BY <1>1 DEF Cut, StepType

(* Nobody else is about to use, or to cancel, a step that is cancelled.    *)
LEMMA BesideCut ==
    ASSUME Inv, Keyed, Order, NEW d \in Drivers, NEW e \in Drivers \ {d},
           driver[d].at = "overwrite",
           approval' = approval, run'.status = "completed" => run.status = "completed",
           \A j \in Steps : step'[j] = step[j] \/ Cut(driver[d].job, j),
           step' = step \/ \E j \in Steps : Cut(driver[d].job, j),
           NEW k, k = driver[e]
    PROVE  SessionOK(k)'
<1>1. SessionOK(k) /\ k \in DriverType
    BY DriverFacts DEF Order
<1>2. k.at \in Loaded /\ run'.status = "completed" => k.base.run.status = "completed"
    BY <1>1 DEF SessionOK
<1>3. \A j \in Steps : Cut(driver[d].job, j) =>
          ~ (k.at \in {"lookup", "create"} /\ step[j].link = k.job)
  <2>1. SUFFICES ASSUME NEW j \in Steps, Cut(driver[d].job, j), k.at \in {"lookup", "create"},
                        step[j].link = k.job
                 PROVE  FALSE
      OBVIOUS
  <2>2. Holds(driver[e], k.job) /\ k.job \in Approvals /\ approval[k.job].status = "rejected"
    <3>1. k.job = driver[d].job
        BY <2>1 DEF Cut
    <3>2. Holds(driver[e], k.job)
        BY <2>1 DEF Holds
    <3>3. QED BY <2>1, <3>1, <3>2 DEF Cut
  <2>3. QED BY <2>2 DEF Inv, Alone
<1>4. ASSUME NEW i \in Steps, step'[i].link = k.job, k.at = "lookup"
      PROVE  step'[i].status = "awaiting_approval"
  <2>1. step[i].link = step'[i].link
      BY CutFacts
  <2>2. step'[i] = step[i]
      BY <1>3, <1>4, <2>1
  <2>3. QED BY <1>1, <1>4, <2>2 DEF SessionOK
<1>5. \A s : Orderly(s) => Orderly(s)'
    BY DEF Orderly, AwaitOK, SkipOK, Ready
<1>6. ASSUME k.at \in Working PROVE WorkOK(k)'
  <2>1. WorkOK(k)
      BY <1>1, <1>6 DEF SessionOK
  <2>2. k.at = "create" => k.view.step[NextStep(k.plan)].link = k.job
      BY DEF Keyed, KeysHeld
  <2>3. \A j \in Steps : step[j].status = "awaiting_approval" =>
            k.at = "create" /\ step[j].link = k.job
      BY <2>1, <2>2 DEF WorkOK
  <2>4. \A j \in Steps : ~Cut(driver[d].job, j)
      BY <1>3, <2>3 DEF Cut
  <2>5. step' = step
      BY <2>4
  <2>6. QED BY <1>5, <2>1, <2>5 DEF WorkOK, Ready
<1>7. ASSUME k.at = "finish" PROVE FinishOK(k)'
  <2>1. FinishOK(k)
      BY <1>1, <1>7 DEF SessionOK
  <2>2. CASE k.view.step = k.base.step /\ k.view.run.status = "awaiting_approval"
      BY <2>1, <2>2 DEF FinishOK
  <2>3. CASE k.base.step = step /\ Orderly(k.view.step) /\ NoneAwaits(step)
    <3>1. step' = step
        BY <2>3 DEF Cut, NoneAwaits
    <3>2. QED BY <1>5, <2>1, <2>3, <3>1 DEF FinishOK, NoneAwaits
  <2>4. QED BY <2>1, <2>2, <2>3 DEF FinishOK
<1>8. ASSUME k.at = "overwrite" PROVE OverwriteOK(k)'
  <2>1. OverwriteOK(k)
      BY <1>1, <1>8 DEF SessionOK
  <2>2. ASSUME NEW i \in Steps, k.view.step[i] # k.base.step[i] PROVE step'[i] = step[i]
    <3>1. SUFFICES ASSUME Cut(driver[d].job, i) PROVE FALSE
        OBVIOUS
    <3>2. k.job = driver[d].job /\ k.job # NoApproval
        BY <2>1, <2>2, <3>1 DEF OverwriteOK, Cut
    <3>3. Cancelling(driver[d]) /\ Cancelling(driver[e])
        BY <1>8, <3>2 DEF Cancelling
    <3>4. QED BY <3>2, <3>3 DEF Order, OneCancels
  <2>3. QED BY <2>1, <2>2 DEF OverwriteOK
<1>9. QED BY <1>1, <1>2, <1>4, <1>6, <1>7, <1>8 DEF SessionOK

LEMMA OverwriteInOrder ==
    ASSUME Inv, Keyed, Order, NEW d \in Drivers, driver[d].at = "overwrite", CommitAndLeave(d)
    PROVE  Order'
<1>1. /\ approval' = approval /\ Become(d, Idle)
      /\ Commit(driver[d].view, driver[d].base)
    BY DEF CommitAndLeave, Leave
<1>2. PICK k : k = driver[d]
    OBVIOUS
<1>3. /\ k.at = "overwrite" /\ k.view \in ViewType /\ k.base \in ViewType
      /\ k.job \in Approvals \cup {NoApproval}
      /\ SessionOK(k) /\ OverwriteOK(k)
    BY <1>2, DriverFacts DEF Order, SessionOK, DriverType
<1>4. Commit(k.view, k.base)
    BY <1>1, <1>2
<1>5. run'.status = "completed" => run.status = "completed"
  <2>1. run'.status = IF k.view.run.status = k.base.run.status THEN run.status
                      ELSE k.view.run.status
      BY <1>3, <1>4, CommitRun
  <2>2. QED BY <1>3, <2>1 DEF OverwriteOK
<1>6. step \in [Steps -> StepType]
    BY DEF Inv, TypeOK
<1>7. step' = [i \in Steps |-> Written(k.view.step[i], k.base.step[i], step[i])]
    BY <1>4 DEF Commit
<1>8. ASSUME NEW j \in Steps PROVE step'[j] = step[j] \/ Cut(k.job, j)
  <2>1. k.view.step[j] \in StepType /\ k.base.step[j] \in StepType /\ step[j] \in StepType
      BY <1>3, <1>6 DEF ViewType
  <2>2. CASE k.view.step[j] = k.base.step[j]
      BY <1>7, <2>1, <2>2, NothingWritten
  <2>3. CASE k.view.step[j] # k.base.step[j]
    <3>1. /\ k.view.step[j] = [k.base.step[j] EXCEPT !.status = "cancelled"]
          /\ k.job # NoApproval
          /\ step[j].status = "awaiting_approval" /\ step[j].link = k.job
        BY <1>3, <2>3 DEF OverwriteOK
    <3>2. approval[k.job].status = "rejected"
        BY <1>3, <3>1 DEF SessionOK
    <3>3. step'[j] = [step[j] EXCEPT !.status = "cancelled"]
        BY <1>7, <2>1, <2>3, <3>1, CancelWritten
    <3>4. QED BY <1>3, <3>1, <3>2, <3>3 DEF Cut
  <2>4. QED BY <2>2, <2>3
<1>9. step' = step \/ \E j \in Steps : Cut(k.job, j)
  <2>1. SUFFICES ASSUME \A j \in Steps : step'[j] = step[j] PROVE step' = step
      BY <1>8
  <2>2. QED BY <1>6, <1>7, <2>1
<1>10. PICK s : s = step'
    OBVIOUS
<1>11. ASSUME NEW j \in Steps
       PROVE  /\ s[j].link = step[j].link
              /\ s[j] = step[j] \/ (s[j].status = "cancelled" /\ step[j].status = "awaiting_approval")
  <2>1. CASE s[j] = step[j]
      BY <2>1
  <2>2. CASE Cut(k.job, j)
    <3>1. step'[j].status = "cancelled" /\ step'[j].link = step[j].link
        BY <2>2, CutFacts
    <3>2. step[j].status = "awaiting_approval"
        BY <2>2 DEF Cut
    <3>3. QED BY <1>10, <3>1, <3>2
  <2>3. QED BY <1>8, <1>10, <2>1, <2>2
<1>12. AwaitOK(s)
  <2>1. AwaitOK(step)
      BY DEF Order, Orderly
  <2>2. ASSUME NEW i \in Steps, s[i].status = "awaiting_approval" PROVE Ready(s, i)
    <3>1. Ready(step, i)
        BY <1>11, <2>1, <2>2 DEF AwaitOK
    <3>2. QED BY <1>11, <3>1 DEF Ready, Done
  <2>3. ASSUME NEW i \in Steps, s[i].link # NoApproval
        PROVE  /\ approval[s[i].link].status = "pending" => s[i].status = "awaiting_approval"
               /\ approval[s[i].link].status = "rejected" =>
                      s[i].status \in {"awaiting_approval", "cancelled"}
    <3>1. CASE s[i] = step[i]
        BY <2>1, <2>3, <3>1 DEF AwaitOK
    <3>2. CASE Cut(k.job, i)
        BY <1>10, <3>2, CutFacts DEF Cut
    <3>3. QED BY <1>8, <1>10, <3>1, <3>2
  <2>4. QED BY <2>2, <2>3 DEF AwaitOK
<1>13. SkipOK(s)
    BY <1>11 DEF SkipOK, Order, Orderly
<1>14. Orderly(step)'
    BY <1>1, <1>10, <1>12, <1>13 DEF Orderly, AwaitOK, SkipOK, Ready
<1>15. CompletedMeansDone'
    BY <1>5, <1>10, <1>11 DEF Order, CompletedMeansDone, Done
<1>16. OthersKeep(d)
    BY <1>1, <1>2, <1>5, <1>8, <1>9, BesideCut DEF OthersKeep
<1>17. SessionOK(Idle)'
    BY IdleKeyed DEF SessionOK, Loaded, Working
<1>18. QED BY <1>1, <1>14, <1>15, <1>16, <1>17, IdleInOrder, MovesInOrder

-----------------------------------------------------------------------------
(* Deciding an approval changes nothing that anybody relies on.            *)

LEMMA DecisionKeeps ==
    ASSUME Inv, Order, NEW a \in Approvals, Decidable(a),
           NEW status \in {"approved", "rejected"},
           approval' = [approval EXCEPT ![a].status = status],
           run' = run, step' = step
    PROVE  /\ \A d \in Drivers : \A k : k = driver[d] => SessionOK(k)'
           /\ Orderly(step)' /\ CompletedMeansDone'
           /\ \A i \in Steps : step[i].link = a => step[i].status = "awaiting_approval"
           /\ \A d \in Drivers : Cancelling(driver[d]) => driver[d].job # a
<1>1. /\ \A b \in Approvals : approval'[b].step = approval[b].step
      /\ \A b \in Approvals \ {a} : approval'[b] = approval[b]
      /\ approval'[a].status = status /\ approval[a].status = "pending"
      /\ \A b \in Approvals : Asked(b) => Asked(b)'
    BY DecidedFacts
<1>2. OnlyDecided
    BY <1>1 DEF OnlyDecided
<1>3. ASSUME NEW s \in [Steps -> StepType], TrueSteps(s), Orderly(s) PROVE Orderly(s)'
    BY <1>2, <1>3, OrderlyStays
<1>4. Orderly(step)'
  <2>1. PICK s : s = step
      OBVIOUS
  <2>2. s \in [Steps -> StepType] /\ TrueSteps(s) /\ Orderly(s)
      BY <2>1 DEF Inv, TypeOK, Order
  <2>3. Orderly(s)'
      BY <1>3, <2>2
  <2>4. QED BY <2>1, <2>3 DEF Orderly, AwaitOK, SkipOK, Ready
<1>5. CompletedMeansDone'
    BY DEF CompletedMeansDone, Order
<1>6. \A d \in Drivers : Cancelling(driver[d]) => driver[d].job # a
    BY <1>1 DEF Cancelling, Order, SessionOK
<1>7. \A i \in Steps : step[i].link = a => step[i].status = "awaiting_approval"
    BY <1>1, WorkflowAssumption DEF Order, Orderly, AwaitOK
<1>8. ASSUME NEW d \in Drivers, NEW k, k = driver[d] PROVE SessionOK(k)'
  <2>1. /\ SessionOK(k) /\ k.view.step \in [Steps -> StepType] /\ TrueSteps(k.view.step)
        /\ k.job \in Approvals \cup {NoApproval}
      BY <1>8, DriverFacts DEF Order, DriverType
  <2>2. Orderly(k.view.step) => Orderly(k.view.step)'
      BY <1>3, <2>1
  <2>3. k.at \in Working => WorkOK(k)'
      BY <2>1, <2>2 DEF SessionOK, WorkOK, Ready
  <2>4. k.at = "finish" => FinishOK(k)'
      BY <2>1, <2>2 DEF SessionOK, FinishOK
  <2>5. k.at = "overwrite" => OverwriteOK(k)'
      BY <2>1 DEF SessionOK, OverwriteOK
  <2>6. k.at \in {"unlink", "overwrite"} /\ k.job # NoApproval => approval'[k.job].status = "rejected"
      BY <1>1, <2>1 DEF SessionOK
  <2>7. QED BY <2>1, <2>3, <2>4, <2>5, <2>6 DEF SessionOK
<1>9. QED BY <1>4, <1>5, <1>6, <1>7, <1>8

LEMMA ApproveInOrder ==
    ASSUME Inv, Order, NEW d \in Drivers, Approve(d)
    PROVE  Order'
<1>1. /\ driver[d].at \in {"decide", "handover"} /\ rows' = rows
      /\ run' = run /\ step' = step
    BY DEF Approve, rows
<1>2. PICK k : k = driver[d]
    OBVIOUS
<1>3. k \in DriverType /\ k.at \in {"decide", "handover"} /\ k.job \in Approvals
    BY <1>1, <1>2, DriverFacts DEF DriverOK, Deciding
<1>4. CASE ~Decidable(k.job)
  <2>1. Leave(d) /\ approval' = approval
      BY <1>2, <1>4 DEF Approve
  <2>2. QED BY <1>1, <2>1, LeavesInOrder
<1>5. CASE Decidable(k.job)
  <2>1. PICK l : l = IF k.at = "decide" THEN [k EXCEPT !.at = "lookup"] ELSE Idle
      OBVIOUS
  <2>2. approval' = [approval EXCEPT ![k.job].status = "approved"] /\ Become(d, l)
      BY <1>2, <1>3, <1>5, <2>1 DEF Approve, Leave
  <2>3. /\ \A e \in Drivers : \A c : c = driver[e] => SessionOK(c)'
        /\ Orderly(step)' /\ CompletedMeansDone'
        /\ \A i \in Steps : step[i].link = k.job => step[i].status = "awaiting_approval"
      BY <1>1, <1>3, <1>5, <2>2, DecisionKeeps
  <2>4. CASE k.at = "decide"
    <3>1. l.at = "lookup" /\ l.job = k.job
        BY <1>3, <2>1, <2>4 DEF DriverType
    <3>2. SessionOK(l)'
        BY <1>1, <2>3, <3>1 DEF SessionOK, Loaded, Working
    <3>3. Enters(d, l)
        BY <3>1 DEF Enters, Cancelling
    <3>4. QED BY <2>2, <2>3, <3>2, <3>3, MovesInOrder DEF OthersKeep
  <2>5. CASE k.at = "handover"
    <3>1. l = Idle
        BY <2>1, <2>5
    <3>2. SessionOK(l)'
        BY <3>1, IdleKeyed DEF SessionOK, Loaded, Working
    <3>3. QED BY <2>2, <2>3, <3>1, <3>2, IdleInOrder, MovesInOrder DEF OthersKeep
  <2>6. QED BY <1>3, <2>4, <2>5
<1>6. QED BY <1>4, <1>5

LEMMA RejectInOrder ==
    ASSUME Inv, Order, NEW d \in Drivers, Reject(d)
    PROVE  Order'
<1>1. driver[d].at = "reject" /\ rows' = rows /\ run' = run /\ step' = step
    BY DEF Reject, rows
<1>2. PICK k : k = driver[d]
    OBVIOUS
<1>3. k \in DriverType /\ k.at = "reject" /\ k.job \in Approvals
    BY <1>1, <1>2, DriverFacts DEF DriverOK, Deciding
<1>4. CASE ~Decidable(k.job)
  <2>1. Leave(d) /\ approval' = approval
      BY <1>2, <1>4 DEF Reject
  <2>2. QED BY <1>1, <2>1, LeavesInOrder
<1>5. CASE Decidable(k.job)
  <2>1. PICK l : l = [k EXCEPT !.at = "unlink"]
      OBVIOUS
  <2>2. approval' = [approval EXCEPT ![k.job].status = "rejected"] /\ Become(d, l)
      BY <1>2, <1>5, <2>1 DEF Reject
  <2>3. /\ \A e \in Drivers : \A c : c = driver[e] => SessionOK(c)'
        /\ Orderly(step)' /\ CompletedMeansDone'
        /\ \A e \in Drivers : Cancelling(driver[e]) => driver[e].job # k.job
      BY <1>1, <1>3, <1>5, <2>2, DecisionKeeps
  <2>4. l.at = "unlink" /\ l.job = k.job
      BY <1>3, <2>1 DEF DriverType
  <2>5. approval'[k.job].status = "rejected"
      BY <1>3, <2>2 DEF Inv, TypeOK
  <2>6. SessionOK(l)'
      BY <2>4, <2>5 DEF SessionOK, Loaded, Working
  <2>7. Enters(d, l)
      BY <2>3, <2>4 DEF Enters
  <2>8. QED BY <2>2, <2>3, <2>6, <2>7, MovesInOrder DEF OthersKeep
<1>6. QED BY <1>4, <1>5

LEMMA ExpireInOrder ==
    ASSUME Inv, Order, NEW a \in Approvals, Expire(a)
    PROVE  Order'
<1>1. /\ Decidable(a) /\ approval' = [approval EXCEPT ![a].status = "rejected"]
      /\ run' = run /\ step' = step /\ driver' = driver
    BY DEF Expire, Decidable, rows
<1>2. /\ \A e \in Drivers : \A c : c = driver[e] => SessionOK(c)'
      /\ Orderly(step)' /\ CompletedMeansDone'
    BY <1>1, DecisionKeeps
<1>3. OneCancels'
    BY <1>1 DEF Order, OneCancels, Cancelling
<1>4. ASSUME NEW e \in Drivers PROVE SessionOK(driver[e])'
  <2>1. PICK c : c = driver[e]
      OBVIOUS
  <2>2. SessionOK(c)'
      BY <1>2, <2>1
  <2>3. QED BY <1>1, <2>1, <2>2 DEF SessionOK, WorkOK, FinishOK, OverwriteOK
<1>5. QED BY <1>2, <1>3, <1>4 DEF Order

-----------------------------------------------------------------------------
(* Order, in every behaviour in which the key of the run is used once.     *)
LEMMA InitOrder ==
    ASSUME Init
    PROVE  Order
<1>1. /\ run.status = "absent" /\ \A i \in Steps : step[i] = NewStep
    BY NewViewFacts DEF Init, NewRun
<1>2. \A d \in Drivers : driver[d] = Idle
    BY DEF Init
<1>3. OneCancels
    BY <1>2, IdleKeyed DEF OneCancels, Cancelling
<1>4. Orderly(step)
    BY <1>1 DEF Orderly, AwaitOK, SkipOK, NewStep
<1>5. CompletedMeansDone
    BY <1>1 DEF CompletedMeansDone
<1>6. QED BY <1>2, <1>3, <1>4, <1>5, IdleInOrder DEF Order

LEMMA StutterInOrder ==
    ASSUME Order, UNCHANGED vars
    PROVE  Order'
<1>1. UNCHANGED <<run, step, approval, driver>>
    BY DEF vars, rows
<1>2. Orderly(step)' /\ CompletedMeansDone'
    BY <1>1 DEF Order, Orderly, AwaitOK, SkipOK, Ready, CompletedMeansDone
<1>3. OneCancels'
    BY <1>1 DEF Order, OneCancels, Cancelling
<1>4. ASSUME NEW e \in Drivers PROVE SessionOK(driver[e])'
  <2>1. PICK c : c = driver[e]
      OBVIOUS
  <2>2. SessionOK(c)'
      BY <1>1, <2>1, SameTables DEF Order, rows
  <2>3. QED BY <1>1, <2>1, <2>2 DEF SessionOK, WorkOK, FinishOK, OverwriteOK
<1>5. QED BY <1>2, <1>3, <1>4 DEF Order

LEMMA NextOrder ==
    ASSUME ~Rerun, Inv, Keyed, Order, [Next]_vars
    PROVE  Order'
<1>1. ASSUME NEW a \in Approvals, Expire(a) PROVE Order'
    BY <1>1, ExpireInOrder
<1>2. ASSUME NEW d \in Drivers, Begin(d) PROVE Order'
  <2>1. CASE BeginRun(d)
      BY <2>1, BeginRunInOrder
  <2>2. CASE BeginPause(d) \/ BeginRetry(d)
      BY <2>2, OverwritesInOrder
  <2>3. ASSUME NEW a \in Approvals, BeginApprove(d, a) \/ BeginReject(d, a) PROVE Order'
      BY <2>3, DecidesInOrder
  <2>4. QED BY <1>2, <2>1, <2>2, <2>3 DEF Begin
<1>3. ASSUME NEW d \in Drivers, Recover(d) PROVE Order'
    BY <1>3, OverwritesInOrder, BeginResumeInOrder DEF Recover
<1>4. ASSUME NEW d \in Drivers, Continue(d) PROVE Order'
  <2>1. CASE InsertRun(d) \/ ApproveOwn(d) \/ CreateExecution(d)
      BY <2>1, InsertRunInOrder, ApproveOwnInOrder, CreateExecutionInOrder
  <2>2. ASSUME NEW a \in Approvals, RequestApproval(d, a) PROVE Order'
      BY <2>2, RequestApprovalInOrder
  <2>3. CASE CompleteStep(d) \/ FailStep(d)
      BY <2>3, CompleteStepInOrder, FailStepInOrder
  <2>4. CASE ActAgain(d)
      BY <2>4, NeverActsAgain DEF ActAgain
  <2>5. CASE Approve(d) \/ LookUp(d) \/ Reject(d) \/ CancelStep(d)
      BY <2>5, ApproveInOrder, LookUpInOrder, RejectInOrder, CancelStepInOrder
  <2>6. CASE ResumeRun(d)
      BY <2>6, ResumeRunInOrder
  <2>7. CASE CommitAndLeave(d)
      BY <2>7, FinishInOrder, OverwriteInOrder DEF CommitAndLeave
  <2>8. QED BY <1>4, <2>1, <2>2, <2>3, <2>4, <2>5, <2>6, <2>7 DEF Continue
<1>5. ASSUME NEW d \in Drivers, Crash(d) PROVE Order'
    BY <1>5, CrashInOrder
<1>6. CASE UNCHANGED vars
    BY <1>6, StutterInOrder
<1>7. QED BY <1>1, <1>2, <1>3, <1>4, <1>5, <1>6 DEF Next

(* One driver at a time, of a run whose key is used once, sees the steps   *)
(* as they are: whoever is killed, pauses, cancels, retries or resumes,    *)
(* everything before the step in hand is done and nothing after it began.  *)
THEOREM OrderInvariance ==
    ASSUME OneDriver, ~Rerun
    PROVE  Spec => []Order
<1>1. Init => Order
    BY InitOrder
<1>2. Inv /\ Keyed /\ Order /\ [Next]_vars => Order'
    BY NextOrder
<1>3. Spec => []Inv /\ []Keyed
    BY Invariance, KeysInvariance
<1>4. QED BY <1>1, <1>2, <1>3, PTL DEF Spec

(* resume_existing_workflow_run, run_workflow_plan: a completed run has no *)
(* step left undone.                                                       *)
THEOREM NothingLeftUndone ==
    ASSUME OneDriver, ~Rerun
    PROVE  Spec => []CompletedMeansDone
<1>1. Order => CompletedMeansDone
    BY DEF Order
<1>2. Spec => []Order
    BY OrderInvariance
<1>3. QED BY <1>1, <1>2, PTL

(* Only the handler of the step in hand acts.                              *)
LEMMA ActsAtCall ==
    ASSUME Inv, Keyed, [Next]_vars, NEW a \in Approvals, acts'[a] > acts[a]
    PROVE  \E d \in Drivers : driver[d].at = "act" /\ driver[d].job = a
<1>1. acts' # acts
  <2>1. acts[a] \in Nat
      BY DEF Inv, TypeOK
  <2>2. QED BY <2>1
<1>2. \A d \in Drivers : driver[d].at # "act again"
    BY NeverActsAgain
<1>3. \E d \in Drivers : driver[d].at = "act" /\ Dispatch(d)
  <2>1. ~ UNCHANGED vars /\ \A b \in Approvals : ~Expire(b)
      BY <1>1 DEF vars, history, Expire
  <2>2. \A d \in Drivers : ~Begin(d) /\ ~Recover(d)
      BY <1>1 DEF Begin, Recover, BeginRun, BeginPause, BeginRetry, BeginApprove, BeginReject,
                  BeginFailStuck, BeginResume, history
  <2>3. ASSUME NEW d \in Drivers, Continue(d) PROVE driver[d].at = "act" /\ Dispatch(d)
      BY <1>1, <1>2, <2>3 DEF Continue, InsertRun, ApproveOwn, CreateExecution, RequestApproval,
              CompleteStep, FailStep, ActAgain, Approve, LookUp, Reject, CancelStep, ResumeRun,
              CommitAndLeave, history
  <2>4. ASSUME NEW d \in Drivers, Crash(d) PROVE driver[d].at = "act" /\ Dispatch(d)
      BY <1>1, <1>2, <2>4 DEF Crash
  <2>5. QED BY <2>1, <2>2, <2>3, <2>4 DEF Next
<1>4. PICK d \in Drivers : driver[d].at = "act" /\ Dispatch(d)
    BY <1>3
<1>5. acts' = [acts EXCEPT ![driver[d].job] = @ + 1]
    BY <1>1, <1>4 DEF Dispatch, Perform
<1>6. driver[d].job = a
  <2>1. acts \in [Approvals -> Nat]
      BY DEF Inv, TypeOK
  <2>2. driver[d].job # a => acts'[a] = acts[a]
      BY <1>5, <2>1
  <2>3. acts[a] \in Nat
      BY <2>1
  <2>4. QED BY <2>2, <2>3
<1>7. QED BY <1>4, <1>6

(* A step that is done has acted, has no handler or was cancelled.         *)
LEMMA DoneIsBehind ==
    ASSUME Inv, Order, NEW i \in Steps, step[i].status \in Done
    PROVE  Behind(i)
<1>1. CASE step[i].status = "succeeded"
    BY <1>1 DEF Inv, TrueSteps, ActedAt, Behind
<1>2. CASE step[i].status = "skipped"
    BY <1>2 DEF Order, Orderly, SkipOK, Behind
<1>3. CASE step[i].status = "cancelled"
    BY <1>3 DEF Behind
<1>4. QED BY <1>1, <1>2, <1>3 DEF Done

(* run_workflow_plan: when a handler acts, all steps before its own have   *)
(* acted, have no handler, or were cancelled by a rejection.               *)
THEOREM OneAfterTheOther ==
    ASSUME OneDriver, ~Rerun
    PROVE  Spec => ActsInOrder
<1>1. ASSUME Inv, Keyed, Order, [Next]_vars
      PROVE  [\A a \in Approvals : acts'[a] > acts[a] =>
                  \A i \in Steps : i < approval[a].step => Behind(i)]_vars
  <2>1. SUFFICES ASSUME NEW a \in Approvals, acts'[a] > acts[a],
                        NEW i \in Steps, i < approval[a].step
                 PROVE  Behind(i)
      OBVIOUS
  <2>2. PICK d \in Drivers : driver[d].at = "act" /\ driver[d].job = a
      BY <1>1, <2>1, ActsAtCall
  <2>3. approval[a].step = NextStep(driver[d].plan)
      BY <1>1, <2>2, DriverFacts DEF DriverOK, InHand
  <2>4. Ready(step, NextStep(driver[d].plan))
      BY <1>1, <2>2, AtCall DEF Called
  <2>5. step[i].status \in Done
      BY <2>1, <2>3, <2>4 DEF Ready
  <2>6. QED BY <1>1, <2>5, DoneIsBehind
<1>2. Spec => []Inv /\ []Keyed /\ []Order
    BY Invariance, KeysInvariance, OrderInvariance
<1>3. QED BY <1>1, <1>2, PTL DEF Spec, ActsInOrder

=============================================================================
