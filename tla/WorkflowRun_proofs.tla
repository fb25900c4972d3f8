------------------------- MODULE WorkflowRun_proofs -------------------------
(* Proofs about WorkflowRun, for any number of steps, approvals and        *)
(* drivers that work at the same time, and whoever of them is killed.      *)
EXTENDS WorkflowRun, WellFoundedInduction, TLAPS

(* A plan that is not empty has a first step.                              *)
LEMMA FirstStep ==
    ASSUME NEW P \in SUBSET Steps, P # {}
    PROVE  NextStep(P) \in P /\ \A j \in P : NextStep(P) <= j
<1>1. P \subseteq Nat
    BY WorkflowAssumption DEF Steps
<1>2. PICK i \in P : \A j \in P : ~ (<<j, i>> \in OpToRel(<, Nat))
    BY <1>1, WFMin, NatLessThanWellFounded
<1>3. ASSUME NEW j \in P, j < i PROVE FALSE
  <2>1. PICK p : p = <<j, i>>
      OBVIOUS
  <2>2. i \in Nat /\ j \in Nat
      BY <1>1
  <2>3. p \in Nat \X Nat /\ p[1] < p[2]
      BY <1>3, <2>1, <2>2
  <2>4. p \in OpToRel(<, Nat)
      BY <2>3, Zenon DEF OpToRel
  <2>5. QED BY <1>2, <2>1, <2>4, Zenon
<1>4. \A j \in P : i <= j
    BY <1>1, <1>3
<1>5. QED BY <1>1, <1>4 DEF NextStep

-----------------------------------------------------------------------------
(* What a session writes, and the views drivers work on.                   *)
LEMMA WrittenStep ==
    ASSUME NEW new \in StepType, NEW old \in StepType, NEW stored \in StepType
    PROVE  /\ Written(new, old, stored) \in StepType
           /\ Written(new, old, stored).status \in {new.status, stored.status}
           /\ Written(new, old, stored).link \in {new.link, stored.link}
BY DEF Written, StepType

LEMMA WrittenRun ==
    ASSUME NEW new \in RunType, NEW old \in RunType, NEW stored \in RunType
    PROVE  Written(new, old, stored) \in RunType
BY DEF Written, RunType

LEMMA WithRunFacts ==
    ASSUME NEW v \in ViewType, NEW status \in RunStatuses
    PROVE  /\ WithRun(v, status) \in ViewType
           /\ WithRun(v, status).step = v.step
           /\ WithRun(v, status).run.current = v.run.current
BY DEF WithRun, ViewType, RunType

(* t is s but for the step i.                                              *)
Elsewhere(s, t, i) == \A j \in Steps \ {i} : t[j] = s[j]

LEMMA WithStepFacts ==
    ASSUME NEW v \in ViewType, NEW i \in Steps, NEW status \in StepStatuses
    PROVE  /\ WithStep(v, i, status) \in ViewType
           /\ WithStep(v, i, status).run = v.run
           /\ WithStep(v, i, status).step[i].status = status
           /\ WithStep(v, i, status).step[i].link = v.step[i].link
           /\ Elsewhere(v.step, WithStep(v, i, status).step, i)
BY DEF WithStep, ViewType, StepType, Elsewhere

LEMMA WithLinkFacts ==
    ASSUME NEW v \in ViewType, NEW i \in Steps, NEW a \in Approvals \cup {NoApproval}
    PROVE  /\ [v EXCEPT !.step[i].link = a] \in ViewType
           /\ [v EXCEPT !.step[i].link = a].run = v.run
           /\ [v EXCEPT !.step[i].link = a].step[i].status = v.step[i].status
           /\ [v EXCEPT !.step[i].link = a].step[i].link = a
           /\ Elsewhere(v.step, [v EXCEPT !.step[i].link = a].step, i)
BY DEF ViewType, StepType, Elsewhere

LEMMA WithKeyFacts ==
    ASSUME NEW v \in ViewType, NEW i \in Steps, NEW n \in Nat \ {0}
    PROVE  /\ [v EXCEPT !.step[i].key = n] \in ViewType
           /\ [v EXCEPT !.step[i].key = n].run = v.run
           /\ [v EXCEPT !.step[i].key = n].step[i].status = v.step[i].status
           /\ [v EXCEPT !.step[i].key = n].step[i].link = v.step[i].link
           /\ Elsewhere(v.step, [v EXCEPT !.step[i].key = n].step, i)
BY DEF ViewType, StepType, Elsewhere

LEMMA WithTriesFacts ==
    ASSUME NEW v \in ViewType, NEW i \in Steps, NEW n \in Nat
    PROVE  /\ [v EXCEPT !.step[i].tries = n] \in ViewType
           /\ [v EXCEPT !.step[i].tries = n].run = v.run
           /\ [v EXCEPT !.step[i].tries = n].step[i].status = v.step[i].status
           /\ [v EXCEPT !.step[i].tries = n].step[i].link = v.step[i].link
           /\ Elsewhere(v.step, [v EXCEPT !.step[i].tries = n].step, i)
BY DEF ViewType, StepType, Elsewhere

LEMMA WithCurrentFacts ==
    ASSUME NEW v \in ViewType, NEW n \in 0..N
    PROVE  /\ [v EXCEPT !.run.current = n] \in ViewType
           /\ [v EXCEPT !.run.current = n].step = v.step
BY DEF ViewType, RunType

-----------------------------------------------------------------------------
(* The invariant.  Steps, in the table or in the view of a driver, are     *)
(* linked to approvals of their own and say they succeeded only if an      *)
(* action was performed.                                                   *)
Asked(a) == approval[a].status # "absent"

ActedAt(i) == \E a \in Approvals : Asked(a) /\ approval[a].step = i /\ Acted(a)

TrueSteps(s) ==
    \A i \in Steps :
        /\ s[i].link # NoApproval => Asked(s[i].link) /\ approval[s[i].link].step = i
        /\ s[i].status = "succeeded" => ActedAt(i)

(* A gated step is licensed by a grant of it or of an earlier one.         *)
Licensed(a) ==
    approval[a].step \in Gated => \E b \in granted : approval[b].step <= approval[a].step

(* A driver with a step in hand works on the first step of its plan, under *)
(* an approval of that step.                                               *)
InHand   == {"approve", "create", "act", "act again"}
Deciding == {"decide", "handover", "lookup", "reject", "unlink"}

DriverOK(l) ==
    /\ l \in DriverType
    /\ l.at \in InHand \cup {"request"} => l.plan # {}
    /\ l.at \in InHand \cup Deciding => l.job \in Approvals /\ Asked(l.job)
    /\ l.at \in InHand => approval[l.job].step = NextStep(l.plan) /\ Licensed(l.job)
    /\ l.mode = "approved" => l.at \in {"create", "act", "act again", "finish"}
    /\ l.at = "resume" => l.mode = "planned"
    /\ l.mode = "approved" \/ l.at = "lookup" => l.job \in granted
    /\ l.mode = "remaining" => \E b \in granted : \A i \in l.plan : approval[b].step <= i
    /\ TrueSteps(l.view.step)

(* An approval is used by one driver, and has not been used before.        *)
Holds(l, a) == l.at \in {"lookup", "create", "act", "act again"} /\ l.job = a

Used(a) == acts[a] <= 1 /\ (Acted(a) => approval[a].status = "approved" /\ Licensed(a))

Alone(a) ==
    \A d \in Drivers : Holds(driver[d], a) =>
        /\ approval[a].status = "approved" /\ acts[a] = 0
        /\ \A e \in Drivers : Holds(driver[e], a) => e = d

Inv ==
    /\ TypeOK
    /\ \A d \in Drivers : DriverOK(driver[d])
    /\ TrueSteps(step)
    /\ \A a \in Approvals : Used(a) /\ Alone(a)
    /\ \A b \in granted : approval[b].status = "approved"

-----------------------------------------------------------------------------
(* What was true of a step or of a driver stays true as approvals are      *)
(* added and decided and actions performed.                                *)
Later ==
    /\ \A a \in Approvals :
          /\ Asked(a) => Asked(a)' /\ approval'[a].step = approval[a].step
          /\ approval[a].status = "approved" => approval'[a].status = "approved"
          /\ Acted(a) => Acted(a)'
    /\ granted \subseteq granted'

LEMMA StillLicensed ==
    ASSUME Inv, Later, NEW a \in Approvals, Asked(a), Licensed(a)
    PROVE  Licensed(a)'
<1>1. \A b \in granted : b \in granted' /\ approval'[b].step = approval[b].step
    BY DEF Inv, TypeOK, Later, Asked
<1>2. QED BY <1>1 DEF Licensed, Later

LEMMA StillTrue ==
    ASSUME Inv, Later, NEW s \in [Steps -> StepType], TrueSteps(s)
    PROVE  TrueSteps(s)'
<1>1. \A i \in Steps : s[i].link \in Approvals \cup {NoApproval}
    BY DEF StepType
<1>2. \A i \in Steps : ActedAt(i) => ActedAt(i)'
    BY DEF ActedAt, Later
<1>3. QED BY <1>1, <1>2 DEF TrueSteps, Later

LEMMA StillOK ==
    ASSUME Inv, Later, NEW l, DriverOK(l)
    PROVE  DriverOK(l)'
<1>1. l \in DriverType /\ l.view.step \in [Steps -> StepType]
    BY DEF DriverOK, DriverType, ViewType
<1>2. TrueSteps(l.view.step)'
    BY <1>1, StillTrue DEF DriverOK
<1>3. l.at \in InHand => Licensed(l.job)' /\ approval'[l.job].step = NextStep(l.plan)
    BY StillLicensed DEF DriverOK, Later
<1>4. l.at \in InHand \cup Deciding => Asked(l.job)'
    BY DEF DriverOK, Later
<1>5. l.mode = "remaining" => \E b \in granted' : \A i \in l.plan : approval'[b].step <= i
  <2>1. \A b \in granted : b \in granted' /\ approval'[b].step = approval[b].step
      BY DEF Inv, TypeOK, Later, Asked
  <2>2. QED BY <2>1 DEF DriverOK
<1>6. l.mode = "approved" \/ l.at = "lookup" => l.job \in granted'
    BY DEF DriverOK, Later
<1>7. QED BY <1>1, <1>2, <1>3, <1>4, <1>5, <1>6 DEF DriverOK

-----------------------------------------------------------------------------
(* A driver that takes a step.                                             *)
Tables ==
    /\ run \in RunType
    /\ step \in [Steps -> StepType]
    /\ approval \in [Approvals -> [status : {"absent", "pending", "approved", "rejected"},
                                   step : Steps]]
    /\ execKey \in [Approvals -> Nat]
    /\ granted \in SUBSET Approvals
    /\ refused \in SUBSET Approvals
    /\ acts \in [Approvals -> Nat]

(* The new local state of a driver holds an approval only if the old one   *)
(* held it or nobody could.                                                *)
Takes(d, l) ==
    \A a \in Approvals : Holds(l, a) =>
        /\ approval'[a].status = "approved" /\ acts'[a] = 0
        /\ Holds(driver[d], a) \/ approval[a].status # "approved"

LEMMA Moves ==
    ASSUME Inv, Later, NEW d \in Drivers, NEW l,
           Become(d, l), DriverOK(l)', Takes(d, l), Tables', TrueSteps(step)',
           \A a \in Approvals : Used(a)',
           \A b \in granted' : approval'[b].status = "approved",
           \A a \in Approvals : acts'[a] # acts[a] => Holds(driver[d], a)
    PROVE  Inv'
<1>1. driver \in [Drivers -> DriverType] /\ l \in DriverType
    BY DEF Inv, TypeOK, DriverOK
<1>2. driver' = [driver EXCEPT ![d] = l]
    BY DEF Become
<1>3. driver' \in [Drivers -> DriverType]
    BY <1>1, <1>2
<1>4. driver'[d] = l /\ \A e \in Drivers \ {d} : driver'[e] = driver[e]
    BY <1>1, <1>2
<1>5. TypeOK'
    BY <1>3 DEF TypeOK, Tables
<1>6. \A e \in Drivers : DriverOK(driver[e])'
  <2>1. ASSUME NEW e \in Drivers, e # d PROVE DriverOK(driver[e])'
    <3>1. PICK k : k = driver[e]
        OBVIOUS
    <3>2. DriverOK(k)
        BY <3>1 DEF Inv
    <3>3. DriverOK(k)'
        BY <3>2, StillOK
    <3>4. driver'[e] = k
        BY <3>1, <1>4, <2>1
    <3>5. QED BY <3>3, <3>4 DEF DriverOK
  <2>2. DriverOK(driver[d])'
      BY <1>4 DEF DriverOK
  <2>3. QED BY <2>1, <2>2
<1>7. ASSUME NEW a \in Approvals PROVE Alone(a)'
  <2>1. Alone(a)
      BY DEF Inv
  <2>2. ASSUME NEW e \in Drivers, e # d, Holds(driver[e], a)
        PROVE  approval'[a].status = "approved" /\ acts'[a] = 0 /\ ~Holds(l, a)
    <3>1. approval[a].status = "approved" /\ acts[a] = 0 /\ ~Holds(driver[d], a)
        BY <2>1, <2>2 DEF Alone
    <3>2. QED BY <3>1 DEF Takes, Later
  <2>3. \A e \in Drivers : e # d => Holds(driver'[e], a) = Holds(driver[e], a)
      BY <1>4
  <2>4. Holds(l, a) => approval'[a].status = "approved" /\ acts'[a] = 0
      BY DEF Takes
  <2>5. \A e \in Drivers : Holds(driver'[e], a) =>
            approval'[a].status = "approved" /\ acts'[a] = 0
      BY <1>4, <2>2, <2>3, <2>4
  <2>6. ASSUME NEW e \in Drivers, NEW c \in Drivers,
               Holds(driver'[e], a), Holds(driver'[c], a)
        PROVE  c = e
    <3>1. CASE e = d
        BY <3>1, <2>2, <2>3, <2>6, <1>4
    <3>2. CASE c = d
        BY <3>2, <2>2, <2>3, <2>6, <1>4
    <3>3. CASE e # d /\ c # d
        BY <3>3, <2>1, <2>3, <2>6 DEF Alone
    <3>4. QED BY <3>1, <3>2, <3>3
  <2>7. \A e \in Drivers : Holds(driver[e], a)' = Holds(driver'[e], a)
      BY DEF Holds
  <2>8. QED BY <2>5, <2>6, <2>7 DEF Alone
<1>8. QED BY <1>5, <1>6, <1>7 DEF Inv

LEMMA InvTables ==
    ASSUME Inv
    PROVE  Tables
BY DEF Inv, TypeOK, Tables

(* Only the rows of the run and its steps may change with the driver.      *)
LEMMA MovesRows ==
    ASSUME Inv, NEW d \in Drivers, NEW l, Become(d, l), DriverOK(l),
           \A a \in Approvals : Holds(l, a) => Holds(driver[d], a),
           run' \in RunType, step' \in [Steps -> StepType], TrueSteps(step'),
           UNCHANGED <<approval, granted, refused, acts>>,
           execKey' \in [Approvals -> Nat]
    PROVE  Inv'
<1>1. Later
    BY DEF Later, Asked, Acted
<1>2. DriverOK(l)'
    BY <1>1, StillOK
<1>3. Takes(d, l)
  <2>1. \A a \in Approvals : Holds(driver[d], a) => approval[a].status = "approved" /\ acts[a] = 0
      BY DEF Inv, Alone
  <2>2. QED BY <2>1 DEF Takes
<1>4. Tables'
    BY InvTables DEF Tables
<1>5. TrueSteps(step)'
    BY DEF TrueSteps, ActedAt, Acted, Asked
<1>6. \A a \in Approvals : Used(a)'
    BY DEF Inv, Used, Acted, Licensed
<1>7. \A b \in granted' : approval'[b].status = "approved"
    BY DEF Inv
<1>8. QED BY <1>1, <1>2, <1>3, <1>4, <1>5, <1>6, <1>7, Moves

LEMMA MovesOnly ==
    ASSUME Inv, NEW d \in Drivers, NEW l, Become(d, l), DriverOK(l),
           \A a \in Approvals : Holds(l, a) => Holds(driver[d], a),
           UNCHANGED <<rows, approval, execKey, history>>
    PROVE  Inv'
<1>1. run' = run /\ step' = step /\ UNCHANGED <<approval, granted, refused, acts>> /\ execKey' = execKey
    BY DEF rows, history
<1>2. Tables /\ TrueSteps(step)
    BY InvTables DEF Inv
<1>3. run' \in RunType /\ step' \in [Steps -> StepType] /\ execKey' \in [Approvals -> Nat]
    BY <1>1, <1>2 DEF Tables
<1>4. TrueSteps(step')
    BY <1>1, <1>2
<1>5. QED BY <1>1, <1>3, <1>4, MovesRows

(* A session's commit leaves the steps of the run true.                    *)
LEMMA CommitTrue ==
    ASSUME Tables, TrueSteps(step), NEW view \in ViewType, NEW base \in ViewType,
           TrueSteps(view.step), Commit(view, base)
    PROVE  /\ run' \in RunType
           /\ step' \in [Steps -> StepType]
           /\ TrueSteps(step')
<1>1. run \in RunType /\ step \in [Steps -> StepType]
    BY DEF Tables
<1>2. /\ view.run \in RunType /\ base.run \in RunType
      /\ view.step \in [Steps -> StepType] /\ base.step \in [Steps -> StepType]
    BY DEF ViewType
<1>3. run' \in RunType
    BY <1>1, <1>2, WrittenRun DEF Commit
<1>4. step' = [i \in Steps |-> Written(view.step[i], base.step[i], step[i])]
    BY DEF Commit
<1>5. ASSUME NEW i \in Steps
      PROVE  /\ step'[i] \in StepType
             /\ step'[i].status \in {view.step[i].status, step[i].status}
             /\ step'[i].link \in {view.step[i].link, step[i].link}
  <2>1. PICK w : w = Written(view.step[i], base.step[i], step[i])
      OBVIOUS
  <2>2. view.step[i] \in StepType /\ base.step[i] \in StepType /\ step[i] \in StepType
      BY <1>1, <1>2
  <2>3. /\ w \in StepType
        /\ w.status \in {view.step[i].status, step[i].status}
        /\ w.link \in {view.step[i].link, step[i].link}
      BY <2>1, <2>2, WrittenStep
  <2>4. step'[i] = w
      BY <1>4, <2>1
  <2>5. QED BY <2>3, <2>4
<1>6. step' \in [Steps -> StepType]
    BY <1>4, <1>5
<1>7. TrueSteps(step')
    BY <1>5 DEF TrueSteps
<1>8. QED BY <1>3, <1>6, <1>7

LEMMA NewStepsTrue == TrueSteps([i \in Steps |-> NewStep]) /\ NewStep \in StepType
BY DEF TrueSteps, NewStep, StepType, StepStatuses

LEMMA NewViewFacts ==
    /\ NewView \in ViewType
    /\ TrueSteps(NewView.step)
    /\ NewView.run = NewRun
    /\ NewView.step = [i \in Steps |-> NewStep]
<1>1. NewRun \in RunType
    BY WorkflowAssumption DEF NewRun, RunType, RunStatuses
<1>2. QED BY <1>1, NewStepsTrue DEF NewView, ViewType

LEMMA IdleOK == DriverOK(Idle) /\ Idle.at = "idle"
<1>1. Idle \in DriverType
    BY NewViewFacts DEF Idle, DriverType, DriverSteps, Modes
<1>2. QED BY <1>1, NewViewFacts DEF DriverOK, Idle, InHand, Deciding

LEMMA DatabaseFacts ==
    ASSUME Inv
    PROVE  /\ Database \in ViewType
           /\ TrueSteps(Database.step)
           /\ Database.run = run
           /\ Database.step = step
BY DEF Inv, TypeOK, Database, ViewType

-----------------------------------------------------------------------------
(* One lemma per action.                                                   *)

LEMMA SomeStep == Steps # {}
<1>1. 0 \in Steps
    BY WorkflowAssumption DEF Steps
<1>2. QED BY <1>1

(* A driver that holds no approval and works on steps that are true.       *)
LEMMA FreeOK ==
    ASSUME Inv, NEW l \in DriverType, l.mode = "planned",
           l.at \in {"idle", "insert", "resume", "request", "finish", "overwrite"},
           l.at = "request" => l.plan # {},
           TrueSteps(l.view.step)
    PROVE  DriverOK(l) /\ \A a \in Approvals : ~Holds(l, a)
BY DEF DriverOK, InHand, Deciding, Holds

LEMMA Leaves ==
    ASSUME Inv, NEW d \in Drivers, Leave(d), UNCHANGED <<rows, approval, execKey, history>>
    PROVE  Inv'
<1>1. Become(d, Idle) /\ DriverOK(Idle)
    BY IdleOK DEF Leave
<1>2. \A a \in Approvals : ~Holds(Idle, a)
    BY IdleOK DEF Holds
<1>3. QED BY <1>1, <1>2, MovesOnly

LEMMA BeginRunKeeps ==
    ASSUME Inv, NEW d \in Drivers, BeginRun(d)
    PROVE  Inv'
<1>1. UNCHANGED <<rows, approval, execKey, history>>
    BY DEF BeginRun
<1>2. CASE run.status = "absent"
  <2>1. PICK l : l = [Idle EXCEPT !.at = "insert"]
      OBVIOUS
  <2>2. l \in DriverType /\ l.mode = "planned" /\ l.at = "insert" /\ l.view = NewView
      BY <2>1, NewViewFacts DEF Idle, DriverType, DriverSteps, Modes
  <2>3. DriverOK(l) /\ \A a \in Approvals : ~Holds(l, a)
      BY <2>2, NewViewFacts, FreeOK
  <2>4. Become(d, l)
      BY <1>2, <2>1 DEF BeginRun
  <2>5. QED BY <1>1, <2>3, <2>4, MovesOnly
<1>3. CASE run.status # "absent"
  <2>1. PICK v : v = WithRun(Database, "running")
      OBVIOUS
  <2>2. v \in ViewType /\ v.step = step
      BY <2>1, DatabaseFacts, WithRunFacts DEF RunStatuses
  <2>3. PICK l : l = [[Idle EXCEPT !.at = "request", !.plan = Steps]
                          EXCEPT !.base = Database, !.view = v]
      OBVIOUS
  <2>4. /\ l \in DriverType /\ l.mode = "planned" /\ l.at = "request" /\ l.view = v
        /\ l.plan = Steps
      BY <2>2, <2>3, DatabaseFacts DEF Idle, DriverType, DriverSteps, Modes
  <2>5. Steps # {} /\ TrueSteps(l.view.step)
      BY <2>2, <2>4, SomeStep DEF Inv
  <2>6. DriverOK(l) /\ \A a \in Approvals : ~Holds(l, a)
      BY <2>4, <2>5, FreeOK
  <2>7. Become(d, l)
      BY <1>3, <2>1, <2>3 DEF BeginRun, Loading
  <2>8. QED BY <1>1, <2>6, <2>7, MovesOnly
<1>4. QED BY <1>2, <1>3

LEMMA InsertRunKeeps ==
    ASSUME Inv, NEW d \in Drivers, InsertRun(d)
    PROVE  Inv'
<1>1. CASE run.status # "absent"
  <2>1. Leave(d) /\ UNCHANGED <<rows, approval, execKey, history>>
      BY <1>1 DEF InsertRun, rows, history
  <2>2. QED BY <2>1, Leaves
<1>2. CASE run.status = "absent"
  <2>1. PICK n : n = WithRun(NewView, "pending")
      OBVIOUS
  <2>2. n \in ViewType /\ n.step = NewView.step
      BY <2>1, NewViewFacts, WithRunFacts DEF RunStatuses
  <2>3. PICK v : v = WithRun(n, "running")
      OBVIOUS
  <2>4. v \in ViewType /\ v.step = NewView.step
      BY <2>2, <2>3, WithRunFacts DEF RunStatuses
  <2>5. PICK l : l = [Idle EXCEPT !.at = "request", !.plan = Steps, !.base = n, !.view = v]
      OBVIOUS
  <2>6. /\ l \in DriverType /\ l.mode = "planned" /\ l.at = "request" /\ l.view = v
        /\ l.plan = Steps
      BY <2>2, <2>4, <2>5 DEF Idle, DriverType, DriverSteps, Modes
  <2>7. Steps # {} /\ TrueSteps(l.view.step)
      BY <2>4, <2>6, NewViewFacts, SomeStep
  <2>8. DriverOK(l) /\ \A a \in Approvals : ~Holds(l, a)
      BY <2>6, <2>7, FreeOK
  <2>9. run' = n.run /\ Become(d, l) /\ UNCHANGED <<step, approval, execKey, history>>
      BY <1>2, <2>1, <2>3, <2>5 DEF InsertRun
  <2>10. run' \in RunType /\ step' \in [Steps -> StepType] /\ execKey' \in [Approvals -> Nat]
      BY <2>2, <2>9, InvTables DEF ViewType, Tables
  <2>11. TrueSteps(step') /\ UNCHANGED <<approval, granted, refused, acts>>
      BY <2>9 DEF Inv, history
  <2>12. QED BY <2>8, <2>9, <2>10, <2>11, MovesRows
<1>3. QED BY <1>1, <1>2

LEMMA OverwriteKeeps ==
    ASSUME Inv, NEW d \in Drivers, NEW status \in RunStatuses, Overwrite(d, status),
           UNCHANGED <<rows, approval, execKey, history>>
    PROVE  Inv'
<1>1. PICK v : v = WithRun(Database, status)
    OBVIOUS
<1>2. v \in ViewType /\ v.step = step
    BY <1>1, DatabaseFacts, WithRunFacts
<1>3. PICK l : l = [Idle EXCEPT !.at = "overwrite", !.base = Database, !.view = v]
    OBVIOUS
<1>4. l \in DriverType /\ l.mode = "planned" /\ l.at = "overwrite" /\ l.view = v
    BY <1>2, <1>3, DatabaseFacts DEF Idle, DriverType, DriverSteps, Modes
<1>5. TrueSteps(l.view.step)
    BY <1>2, <1>4 DEF Inv
<1>6. DriverOK(l) /\ \A a \in Approvals : ~Holds(l, a)
    BY <1>4, <1>5, FreeOK
<1>7. Become(d, l)
    BY <1>1, <1>3 DEF Overwrite
<1>8. QED BY <1>6, <1>7, MovesOnly

LEMMA BeginsKeep ==
    ASSUME Inv, NEW d \in Drivers, BeginPause(d) \/ BeginRetry(d) \/ BeginFailStuck(d)
    PROVE  Inv'
<1>1. PICK status \in {"paused", "retry_wait", "failed"} : Overwrite(d, status)
    BY DEF BeginPause, BeginRetry, BeginFailStuck
<1>2. UNCHANGED <<rows, approval, execKey, history>>
    BY DEF BeginPause, BeginRetry, BeginFailStuck
<1>3. status \in RunStatuses
    BY DEF RunStatuses
<1>4. QED BY <1>1, <1>2, <1>3, OverwriteKeeps

(* Whoever decides an approval has found it, so somebody asked for it.     *)
LEMMA DecidesKeep ==
    ASSUME Inv, NEW d \in Drivers, NEW a \in Approvals,
           BeginApprove(d, a) \/ BeginReject(d, a)
    PROVE  Inv'
<1>1. /\ approval[a].status = "pending"
      /\ UNCHANGED <<rows, approval, execKey, history>>
    BY DEF BeginApprove, BeginReject
<1>2. PICK at \in {"decide", "handover", "reject"} :
          Become(d, [Idle EXCEPT !.at = at, !.job = a])
    BY DEF BeginApprove, BeginReject
<1>3. PICK l : l = [Idle EXCEPT !.at = at, !.job = a]
    OBVIOUS
<1>4. /\ l \in DriverType /\ l.mode = "planned" /\ l.at = at /\ l.view = NewView
      /\ l.job = a
    BY <1>3, NewViewFacts DEF Idle, DriverType, DriverSteps, Modes
<1>5. DriverOK(l)
    BY <1>1, <1>4, NewViewFacts DEF DriverOK, InHand, Deciding, Asked
<1>6. \A b \in Approvals : ~Holds(l, b)
    BY <1>4 DEF Holds
<1>7. Become(d, l)
    BY <1>2, <1>3
<1>8. QED BY <1>1, <1>5, <1>6, <1>7, MovesOnly

LEMMA BeginResumeKeeps ==
    ASSUME Inv, NEW d \in Drivers, BeginResume(d)
    PROVE  Inv'
<1>1. PICK l : l = [Idle EXCEPT !.at = "resume", !.base = Database, !.view = Database]
    OBVIOUS
<1>2. l \in DriverType /\ l.mode = "planned" /\ l.at = "resume" /\ l.view = Database
    BY <1>1, DatabaseFacts DEF Idle, DriverType, DriverSteps, Modes
<1>3. DriverOK(l) /\ \A a \in Approvals : ~Holds(l, a)
    BY <1>2, DatabaseFacts, FreeOK
<1>4. Become(d, l) /\ UNCHANGED <<rows, approval, execKey, history>>
    BY <1>1 DEF BeginResume
<1>5. QED BY <1>3, <1>4, MovesOnly

LEMMA DriverFacts ==
    ASSUME Inv, NEW d \in Drivers
    PROVE  /\ driver[d] \in DriverType
           /\ DriverOK(driver[d])
           /\ driver[d].view \in ViewType /\ driver[d].base \in ViewType
           /\ driver[d].view.step \in [Steps -> StepType]
           /\ driver[d].plan \subseteq Steps
           /\ TrueSteps(driver[d].view.step)
<1>1. driver[d] \in DriverType /\ DriverOK(driver[d])
    BY DEF Inv, TypeOK
<1>2. driver[d].view \in ViewType /\ driver[d].base \in ViewType /\ driver[d].plan \subseteq Steps
    BY <1>1 DEF DriverType
<1>3. TrueSteps(driver[d].view.step)
    BY <1>1 DEF DriverOK
<1>4. driver[d].view.step \in [Steps -> StepType]
    BY <1>2 DEF ViewType
<1>5. QED BY <1>1, <1>2, <1>3, <1>4

LEMMA CommitAndLeaveKeeps ==
    ASSUME Inv, NEW d \in Drivers, CommitAndLeave(d)
    PROVE  Inv'
<1>1. /\ Commit(driver[d].view, driver[d].base) /\ Become(d, Idle)
      /\ UNCHANGED <<approval, granted, refused, acts>> /\ execKey' = execKey
    BY DEF CommitAndLeave, Leave, history
<1>2. /\ driver[d].view \in ViewType /\ driver[d].base \in ViewType
      /\ TrueSteps(driver[d].view.step)
    BY DriverFacts
<1>3. Tables /\ TrueSteps(step)
    BY InvTables DEF Inv
<1>4. run' \in RunType /\ step' \in [Steps -> StepType] /\ TrueSteps(step')
    BY <1>1, <1>2, <1>3, CommitTrue
<1>5. execKey' \in [Approvals -> Nat]
    BY <1>1, <1>3 DEF Tables
<1>6. DriverOK(Idle) /\ \A a \in Approvals : ~Holds(Idle, a)
    BY IdleOK DEF Holds
<1>7. QED BY <1>1, <1>4, <1>5, <1>6, MovesRows

LEMMA LookUpKeeps ==
    ASSUME Inv, NEW d \in Drivers, LookUp(d)
    PROVE  Inv'
<1>1. UNCHANGED <<rows, approval, execKey, history>> /\ driver[d].at = "lookup"
    BY DEF LookUp
<1>2. PICK k : k = driver[d]
    OBVIOUS
<1>3. k \in DriverType /\ DriverOK(k) /\ k.at = "lookup"
    BY <1>1, <1>2, DriverFacts
<1>4. CASE LinkedTo(k.job) = {}
  <2>1. Leave(d)
      BY <1>2, <1>4 DEF LookUp
  <2>2. QED BY <1>1, <2>1, Leaves
<1>5. CASE LinkedTo(k.job) # {}
  <2>1. PICK i : i = NextStep(LinkedTo(k.job))
      OBVIOUS
  <2>2. LinkedTo(k.job) \in SUBSET Steps
      BY DEF LinkedTo
  <2>3. i \in LinkedTo(k.job)
      BY <1>5, <2>1, <2>2, FirstStep
  <2>4. i \in Steps /\ step[i].link = k.job
      BY <2>3 DEF LinkedTo
  <2>5. k.job \in Approvals /\ k.job \in granted /\ Asked(k.job)
      BY <1>3 DEF DriverOK, Deciding
  <2>6. k.job # NoApproval
      BY <2>5, WorkflowAssumption
  <2>7. approval[k.job].step = i
      BY <2>4, <2>6 DEF Inv, TrueSteps
  <2>8. Licensed(k.job)
    <3>1. i <= i
        BY <2>4, WorkflowAssumption DEF Steps
    <3>2. QED BY <2>5, <2>7, <3>1 DEF Licensed
  <2>9. PICK v : v = WithRun(Database, "running")
      OBVIOUS
  <2>10. v \in ViewType /\ v.step = step
      BY <2>9, DatabaseFacts, WithRunFacts DEF RunStatuses
  <2>11. PICK l : l = [[k EXCEPT !.at = "create", !.mode = "approved", !.plan = {i}]
                          EXCEPT !.base = Database, !.view = v]
      OBVIOUS
  <2>12. /\ l \in DriverType /\ l.mode = "approved" /\ l.at = "create" /\ l.view = v
         /\ l.plan = {i} /\ l.job = k.job
      BY <1>3, <2>4, <2>10, <2>11, DatabaseFacts DEF DriverType, DriverSteps, Modes
  <2>13. {i} \in SUBSET Steps /\ {i} # {}
      BY <2>4
  <2>14. NextStep({i}) \in {i}
      BY <2>13, FirstStep
  <2>15. TrueSteps(l.view.step)
      BY <2>10, <2>12 DEF Inv
  <2>16. DriverOK(l)
      BY <2>5, <2>7, <2>8, <2>12, <2>14, <2>15 DEF DriverOK, InHand, Deciding
  <2>17. \A a \in Approvals : Holds(l, a) => Holds(driver[d], a)
      BY <1>2, <1>3, <2>12 DEF Holds
  <2>18. Become(d, l)
      BY <1>2, <1>5, <2>1, <2>9, <2>11 DEF LookUp, Loading
  <2>19. QED BY <1>1, <2>16, <2>17, <2>18, MovesOnly
<1>6. QED BY <1>4, <1>5

LEMMA CancelStepKeeps ==
    ASSUME Inv, NEW d \in Drivers, CancelStep(d)
    PROVE  Inv'
<1>1. UNCHANGED <<rows, approval, execKey, history>> /\ driver[d].at = "unlink"
    BY DEF CancelStep
<1>2. PICK k : k = driver[d]
    OBVIOUS
<1>3. k \in DriverType /\ DriverOK(k) /\ k.at = "unlink"
    BY <1>1, <1>2, DriverFacts
<1>4. CASE LinkedTo(k.job) = {}
  <2>1. Leave(d)
      BY <1>2, <1>4 DEF CancelStep
  <2>2. QED BY <1>1, <2>1, Leaves
<1>5. CASE LinkedTo(k.job) # {}
  <2>1. PICK i : i = NextStep(LinkedTo(k.job))
      OBVIOUS
  <2>2. LinkedTo(k.job) \in SUBSET Steps
      BY DEF LinkedTo
  <2>3. i \in Steps
      BY <1>5, <2>1, <2>2, FirstStep
  <2>4. PICK u : u = WithStep(Database, i, "cancelled")
      OBVIOUS
  <2>5. Database \in ViewType /\ Database.step = step /\ "cancelled" \in StepStatuses
      BY DatabaseFacts DEF StepStatuses
  <2>6. /\ u \in ViewType /\ u.step[i].status = "cancelled"
        /\ u.step[i].link = step[i].link /\ Elsewhere(step, u.step, i)
      BY <2>3, <2>4, <2>5, WithStepFacts
  <2>7. TrueSteps(u.step)
      BY <2>3, <2>6 DEF Inv, TrueSteps, Elsewhere
  <2>8. PICK v : v = WithRun(u, "failed")
      OBVIOUS
  <2>9. v \in ViewType /\ v.step = u.step
      BY <2>6, <2>8, WithRunFacts DEF RunStatuses
  <2>10. PICK l : l = [k EXCEPT !.at = "overwrite", !.base = Database, !.view = v]
      OBVIOUS
  <2>11. /\ l \in DriverType /\ l.mode = k.mode /\ l.at = "overwrite" /\ l.view = v
         /\ l.plan = k.plan /\ l.job = k.job
      BY <1>3, <2>5, <2>9, <2>10 DEF DriverType, DriverSteps
  <2>12. DriverOK(l)
      BY <1>3, <2>7, <2>9, <2>11 DEF DriverOK, InHand, Deciding
  <2>13. \A a \in Approvals : Holds(l, a) => Holds(driver[d], a)
      BY <2>11 DEF Holds
  <2>14. Become(d, l)
      BY <1>2, <1>5, <2>1, <2>4, <2>8, <2>10 DEF CancelStep
  <2>15. QED BY <1>1, <2>12, <2>13, <2>14, MovesOnly
<1>6. QED BY <1>4, <1>5

LEMMA OnwardFacts ==
    ASSUME NEW l \in DriverType, l.mode = "planned" \/ l.mode = "remaining"
    PROVE  /\ Onward(l) \in DriverType
           /\ Onward(l).mode = l.mode /\ Onward(l).plan = l.plan /\ Onward(l).job = l.job
           /\ Onward(l).view.step = l.view.step
           /\ Onward(l).at \in {"finish", "request"}
           /\ Onward(l).at = "request" => l.plan # {}
<1>1. l.view \in ViewType
    BY DEF DriverType
<1>2. PICK v : v = WithRun(l.view, "completed")
    OBVIOUS
<1>3. v \in ViewType /\ v.step = l.view.step
    BY <1>1, <1>2, WithRunFacts DEF RunStatuses
<1>4. CASE l.plan = {}
  <2>1. Onward(l) = [l EXCEPT !.at = "finish", !.view = v]
      BY <1>2, <1>4 DEF Onward
  <2>2. QED BY <1>3, <1>4, <2>1 DEF DriverType, DriverSteps
<1>5. CASE l.plan # {}
  <2>1. Onward(l) = [l EXCEPT !.at = "request"]
      BY <1>5 DEF Onward
  <2>2. QED BY <1>5, <2>1 DEF DriverType, DriverSteps
<1>6. QED BY <1>4, <1>5

LEMMA StartFacts ==
    ASSUME NEW n \in 0..N
    PROVE  StartIndex(n) \in 0..N
<1>1. PICK U : U = {i \in Steps : step[i].status \notin Done}
    OBVIOUS
<1>2. U \in SUBSET Steps
    BY <1>1
<1>3. U # {} => NextStep(U) \in U
    BY <1>2, FirstStep
<1>4. Steps \subseteq 0..N
    BY WorkflowAssumption DEF Steps
<1>5. StartIndex(n) = IF U = {} THEN n ELSE NextStep(U)
    BY <1>1 DEF StartIndex
<1>6. QED BY <1>2, <1>3, <1>4, <1>5

LEMMA ResumeRunKeeps ==
    ASSUME Inv, NEW d \in Drivers, ResumeRun(d)
    PROVE  Inv'
<1>1. UNCHANGED <<rows, approval, execKey, history>> /\ driver[d].at = "resume"
    BY DEF ResumeRun
<1>2. PICK k : k = driver[d]
    OBVIOUS
<1>3. /\ k \in DriverType /\ DriverOK(k) /\ k.at = "resume" /\ k.mode = "planned"
      /\ k.base \in ViewType
    BY <1>1, <1>2, DriverFacts DEF DriverOK
<1>4. PICK loaded : loaded = [run |-> k.base.run, step |-> step]
    OBVIOUS
<1>5. loaded \in ViewType /\ loaded.step = step /\ k.base.run.current \in 0..N
    BY <1>3, <1>4 DEF ViewType, RunType, Inv, TypeOK
<1>6. PICK awaiting : awaiting = {i \in Steps : step[i].status = "awaiting_approval"}
    OBVIOUS
<1>7. PICK start : start = StartIndex(k.base.run.current)
    OBVIOUS
<1>8. start \in 0..N
    BY <1>5, <1>7, StartFacts
<1>9. CASE awaiting # {}
  <2>1. NextStep(awaiting) \in 0..N
    <3>1. awaiting \in SUBSET Steps
        BY <1>6
    <3>2. NextStep(awaiting) \in awaiting
        BY <1>9, <3>1, FirstStep
    <3>3. Steps \subseteq 0..N
        BY WorkflowAssumption DEF Steps
    <3>4. QED BY <3>1, <3>2, <3>3
  <2>2. PICK u : u = WithRun(loaded, "awaiting_approval")
      OBVIOUS
  <2>3. u \in ViewType /\ u.step = step
      BY <1>5, <2>2, WithRunFacts DEF RunStatuses
  <2>4. PICK v : v = [u EXCEPT !.run.current = NextStep(awaiting)]
      OBVIOUS
  <2>5. v \in ViewType /\ v.step = step
      BY <2>1, <2>3, <2>4, WithCurrentFacts
  <2>6. PICK l : l = [k EXCEPT !.at = "finish", !.base = loaded, !.view = v]
      OBVIOUS
  <2>7. l \in DriverType /\ l.mode = "planned" /\ l.at = "finish" /\ l.view = v
      BY <1>3, <1>5, <2>5, <2>6 DEF DriverType, DriverSteps
  <2>8. TrueSteps(l.view.step)
      BY <2>5, <2>7 DEF Inv
  <2>9. DriverOK(l) /\ \A a \in Approvals : ~Holds(l, a)
      BY <2>7, <2>8, FreeOK
  <2>10. Become(d, l)
      BY <1>2, <1>4, <1>6, <1>9, <2>2, <2>4, <2>6 DEF ResumeRun
  <2>11. QED BY <1>1, <2>9, <2>10, MovesOnly
<1>10. CASE awaiting = {}
  <2>1. PICK again : again = [run |-> [status |-> "running", current |-> start],
                              step |-> [i \in Steps |-> Reset(i, start)]]
      OBVIOUS
  <2>2. ASSUME NEW i \in Steps
        PROVE  /\ Reset(i, start) \in StepType
               /\ Reset(i, start).link \in {step[i].link, NoApproval}
               /\ Reset(i, start).status \in {step[i].status, "pending"}
    <3>1. step[i] \in StepType
        BY DEF Inv, TypeOK
    <3>2. QED BY <3>1 DEF Reset, StepType, StepStatuses
  <2>3. TrueSteps([i \in Steps |-> Reset(i, start)])
      BY <2>2 DEF Inv, TrueSteps
  <2>4. again \in ViewType /\ TrueSteps(again.step)
      BY <1>8, <2>1, <2>2, <2>3 DEF ViewType, RunType, RunStatuses
  <2>5. PICK v : v = IF start = N THEN loaded ELSE again
      OBVIOUS
  <2>6. v \in ViewType /\ TrueSteps(v.step)
      BY <1>5, <2>4, <2>5 DEF Inv
  <2>7. PICK m : m = [k EXCEPT !.base = loaded, !.plan = {i \in Steps : i >= start}, !.view = v]
      OBVIOUS
  <2>8. m \in DriverType /\ m.mode = "planned" /\ m.view = v
      BY <1>3, <1>5, <2>6, <2>7 DEF DriverType
  <2>9. PICK l : l = Onward(m)
      OBVIOUS
  <2>10. /\ l \in DriverType /\ l.mode = "planned" /\ l.view.step = v.step
         /\ l.at \in {"finish", "request"}
         /\ l.at = "request" => l.plan # {}
    <3>1. /\ Onward(m) \in DriverType
          /\ Onward(m).mode = m.mode /\ Onward(m).plan = m.plan /\ Onward(m).job = m.job
          /\ Onward(m).view.step = m.view.step
          /\ Onward(m).at \in {"finish", "request"}
          /\ Onward(m).at = "request" => m.plan # {}
        BY <2>8, OnwardFacts
    <3>2. QED BY <2>8, <2>9, <3>1
  <2>11. DriverOK(l) /\ \A a \in Approvals : ~Holds(l, a)
      BY <2>6, <2>10, FreeOK
  <2>12. Become(d, l)
      BY <1>2, <1>4, <1>6, <1>7, <1>10, <2>1, <2>5, <2>7, <2>9 DEF ResumeRun
  <2>13. QED BY <1>1, <2>11, <2>12, MovesOnly
<1>11. QED BY <1>9, <1>10

LEMMA CreateExecutionKeeps ==
    ASSUME Inv, NEW d \in Drivers, CreateExecution(d)
    PROVE  Inv'
<1>1. /\ UNCHANGED <<approval, granted, refused, acts>>
      /\ driver[d].at = "create"
    BY DEF CreateExecution, history
<1>2. PICK k : k = driver[d]
    OBVIOUS
<1>3. k \in DriverType /\ DriverOK(k) /\ k.at = "create" /\ k.view \in ViewType /\ k.base \in ViewType
    BY <1>1, <1>2, DriverFacts
<1>4. k.job \in Approvals
    BY <1>3 DEF DriverOK, InHand
<1>5. CASE execKey[k.job] = 0 /\ KeyFree(NextStep(k.plan), k.view.step[NextStep(k.plan)].key)
  <2>1. PICK i : i = NextStep(k.plan)
      OBVIOUS
  <2>2. i \in Steps
    <3>1. k.plan \in SUBSET Steps /\ k.plan # {}
        BY <1>3 DEF DriverOK, DriverType, InHand
    <3>2. QED BY <2>1, <3>1, FirstStep
  <2>3. k.view.step[i] \in StepType
      BY <1>3, <2>2 DEF ViewType
  <2>4. /\ k.view.step[i].tries + 1 \in Nat /\ k.view.step[i].key \in Nat
      BY <2>3 DEF StepType
  <2>5. PICK u : u = WithStep(k.view, i, "running")
      OBVIOUS
  <2>6. /\ u \in ViewType /\ u.run = k.view.run /\ u.step[i].status = "running"
        /\ u.step[i].link = k.view.step[i].link /\ Elsewhere(k.view.step, u.step, i)
    <3>1. "running" \in StepStatuses
        BY DEF StepStatuses
    <3>2. QED BY <1>3, <2>2, <2>5, <3>1, WithStepFacts
  <2>7. PICK v : v = [u EXCEPT !.step[i].tries = k.view.step[i].tries + 1]
      OBVIOUS
  <2>8. /\ v \in ViewType
        /\ v.step[i].status = u.step[i].status /\ v.step[i].link = u.step[i].link
        /\ Elsewhere(u.step, v.step, i)
      BY <2>2, <2>4, <2>6, <2>7, WithTriesFacts
  <2>9. TrueSteps(v.step)
      BY <1>3, <2>2, <2>6, <2>8 DEF DriverOK, TrueSteps, Elsewhere
  <2>10. PICK l : l = [k EXCEPT !.at = "act", !.base = v, !.view = v]
      OBVIOUS
  <2>11. /\ l \in DriverType /\ l.mode = k.mode /\ l.at = "act" /\ l.view = v
         /\ l.plan = k.plan /\ l.job = k.job
      BY <1>3, <2>8, <2>10 DEF DriverType, DriverSteps
  <2>12. DriverOK(l)
      BY <1>3, <2>9, <2>11 DEF DriverOK, InHand
  <2>13. \A a \in Approvals : Holds(l, a) => Holds(driver[d], a)
      BY <1>2, <1>3, <2>11 DEF Holds
  <2>14. /\ execKey' = [execKey EXCEPT ![k.job] = k.view.step[i].key]
         /\ Commit(v, k.base)
         /\ Become(d, l)
      BY <1>2, <1>5, <2>1, <2>5, <2>7, <2>10 DEF CreateExecution
  <2>15. Tables /\ TrueSteps(step)
      BY InvTables DEF Inv
  <2>16. execKey' \in [Approvals -> Nat]
      BY <2>4, <2>14, <2>15 DEF Tables
  <2>17. run' \in RunType /\ step' \in [Steps -> StepType] /\ TrueSteps(step')
      BY <1>3, <2>8, <2>9, <2>14, <2>15, CommitTrue
  <2>18. QED BY <1>1, <2>12, <2>13, <2>14, <2>16, <2>17, MovesRows
<1>6. CASE ~(execKey[k.job] = 0 /\ KeyFree(NextStep(k.plan), k.view.step[NextStep(k.plan)].key))
  <2>1. PICK l : l = [k EXCEPT !.at = "act again"]
      OBVIOUS
  <2>2. /\ l \in DriverType /\ l.mode = k.mode /\ l.at = "act again" /\ l.view = k.view
        /\ l.plan = k.plan /\ l.job = k.job
      BY <1>3, <2>1 DEF DriverType, DriverSteps
  <2>3. DriverOK(l)
      BY <1>3, <2>2 DEF DriverOK, InHand
  <2>4. \A a \in Approvals : Holds(l, a) => Holds(driver[d], a)
      BY <1>2, <1>3, <2>2 DEF Holds
  <2>5. Become(d, l) /\ UNCHANGED <<rows, approval, execKey, history>>
      BY <1>2, <1>6, <2>1 DEF CreateExecution, history
  <2>6. QED BY <2>3, <2>4, <2>5, MovesOnly
<1>7. QED BY <1>5, <1>6

LEMMA UsedStays ==
    ASSUME Inv, Later, acts' = acts
    PROVE  \A a \in Approvals : Used(a)'
<1>1. ASSUME NEW a \in Approvals PROVE Used(a)'
  <2>1. acts[a] <= 1 /\ (Acted(a) => approval[a].status = "approved" /\ Licensed(a))
      BY DEF Inv, Used
  <2>2. Acted(a)' = Acted(a)
      BY DEF Acted
  <2>3. CASE Acted(a)
    <3>1. Asked(a) /\ Licensed(a)
        BY <2>1, <2>3 DEF Asked
    <3>2. Licensed(a)'
        BY <3>1, StillLicensed
    <3>3. QED BY <2>1, <2>3, <3>2 DEF Used, Later
  <2>4. CASE ~Acted(a)
      BY <2>1, <2>2, <2>4 DEF Used
  <2>5. QED BY <2>3, <2>4
<1>2. QED BY <1>1

LEMMA ApproveOwnKeeps ==
    ASSUME Inv, NEW d \in Drivers, ApproveOwn(d)
    PROVE  Inv'
<1>1. driver[d].at = "approve" /\ UNCHANGED <<execKey, granted, refused, acts>>
    BY DEF ApproveOwn, history
<1>2. PICK k : k = driver[d]
    OBVIOUS
<1>3. /\ k \in DriverType /\ DriverOK(k) /\ k.at = "approve"
      /\ k.view \in ViewType /\ k.base \in ViewType /\ TrueSteps(k.view.step)
    BY <1>1, <1>2, DriverFacts
<1>4. k.job \in Approvals
    BY <1>3 DEF DriverOK, InHand
<1>5. CASE ~Decidable(k.job)
  <2>1. Leave(d) /\ UNCHANGED <<rows, approval, execKey, history>>
      BY <1>2, <1>5 DEF ApproveOwn
  <2>2. QED BY <2>1, Leaves
<1>6. CASE Decidable(k.job)
  <2>1. PICK l : l = [k EXCEPT !.at = "create", !.base = k.view]
      OBVIOUS
  <2>2. /\ approval' = [approval EXCEPT ![k.job].status = "approved"]
        /\ Commit(k.view, k.base)
        /\ Become(d, l)
      BY <1>2, <1>6, <2>1 DEF ApproveOwn
  <2>3. Tables /\ TrueSteps(step)
      BY InvTables DEF Inv
  <2>4. /\ approval' \in [Approvals -> [status : {"absent", "pending", "approved", "rejected"},
                                        step : Steps]]
        /\ \A a \in Approvals : approval'[a].step = approval[a].step
        /\ \A a \in Approvals \ {k.job} : approval'[a] = approval[a]
        /\ approval'[k.job].status = "approved"
      BY <1>4, <2>2, <2>3 DEF Tables
  <2>5. approval[k.job].status = "pending"
      BY <1>6 DEF Decidable
  <2>6. Later
      BY <1>1, <2>4, <2>5 DEF Later, Asked, Acted
  <2>7. PICK s : s = step'
      OBVIOUS
  <2>8. run' \in RunType /\ s \in [Steps -> StepType] /\ TrueSteps(s)
    <3>1. run' \in RunType /\ step' \in [Steps -> StepType] /\ TrueSteps(step')
        BY <1>3, <2>2, <2>3, CommitTrue
    <3>2. QED BY <2>7, <3>1
  <2>9. TrueSteps(s)'
      BY <2>6, <2>8, StillTrue
  <2>10. TrueSteps(step)'
      BY <2>7, <2>9 DEF TrueSteps
  <2>11. Tables'
      BY <1>1, <2>3, <2>4, <2>7, <2>8 DEF Tables
  <2>12. /\ l \in DriverType /\ l.mode = k.mode /\ l.at = "create" /\ l.view = k.view
         /\ l.plan = k.plan /\ l.job = k.job
      BY <1>3, <2>1 DEF DriverType, DriverSteps
  <2>13. DriverOK(l)
      BY <1>3, <2>12 DEF DriverOK, InHand, Deciding
  <2>14. DriverOK(l)'
      BY <2>6, <2>13, StillOK
  <2>15. acts[k.job] = 0
      BY <1>4, <2>3, <2>5 DEF Inv, Used, Acted, Tables
  <2>16. Takes(d, l)
      BY <1>1, <2>4, <2>5, <2>12, <2>15 DEF Takes, Holds
  <2>17. \A a \in Approvals : Used(a)'
      BY <1>1, <2>6, UsedStays
  <2>18. \A b \in granted' : approval'[b].status = "approved"
      BY <1>1, <2>3, <2>6 DEF Inv, Later, Tables
  <2>19. \A a \in Approvals : acts'[a] # acts[a] => Holds(driver[d], a)
      BY <1>1
  <2>20. QED BY <2>2, <2>6, <2>10, <2>11, <2>14, <2>16, <2>17, <2>18, <2>19, Moves
<1>7. QED BY <1>5, <1>6

LEMMA RequestApprovalKeeps ==
    ASSUME Inv, NEW d \in Drivers, NEW a \in Approvals, RequestApproval(d, a)
    PROVE  Inv'
<1>1. driver[d].at = "request" /\ UNCHANGED <<execKey, granted, refused, acts>> /\ NextId(a)
    BY DEF RequestApproval, history
<1>2. PICK k : k = driver[d]
    OBVIOUS
<1>3. /\ k \in DriverType /\ DriverOK(k) /\ k.at = "request"
      /\ k.view \in ViewType /\ k.base \in ViewType /\ TrueSteps(k.view.step)
    BY <1>1, <1>2, DriverFacts
<1>4. PICK i : i = NextStep(k.plan)
    OBVIOUS
<1>5. i \in Steps /\ i \in k.plan
  <2>1. k.plan \in SUBSET Steps /\ k.plan # {}
      BY <1>3 DEF DriverOK, DriverType, InHand
  <2>2. NextStep(k.plan) \in k.plan
      BY <2>1, FirstStep
  <2>3. QED BY <1>4, <2>1, <2>2
<1>6. PICK n : n = StepKey(k.view.step[i].tries)
    OBVIOUS
<1>7. n \in Nat \ {0}
  <2>1. k.view.step[i].tries \in Nat
      BY <1>3, <1>5 DEF ViewType, StepType
  <2>2. QED BY <1>6, <2>1 DEF StepKey
<1>8. PICK requested : requested = [k.view EXCEPT !.step[i].key = n]
    OBVIOUS
<1>9. /\ requested \in ViewType
      /\ requested.run = k.view.run
      /\ requested.step[i].status = k.view.step[i].status
      /\ requested.step[i].link = k.view.step[i].link
      /\ Elsewhere(k.view.step, requested.step, i)
    BY <1>3, <1>5, <1>7, <1>8, WithKeyFacts
<1>10. TrueSteps(requested.step) /\ requested.step \in [Steps -> StepType]
    BY <1>3, <1>5, <1>9 DEF TrueSteps, Elsewhere, ViewType
<1>11. PICK linked : linked = [requested EXCEPT !.step[i].link = a]
    OBVIOUS
<1>12. /\ linked \in ViewType
       /\ linked.run = requested.run
       /\ linked.step[i].status = requested.step[i].status
       /\ linked.step[i].link = a
       /\ Elsewhere(requested.step, linked.step, i)
    BY <1>5, <1>9, <1>11, WithLinkFacts
<1>13. PICK waiting : waiting = WithStep(linked, i, "awaiting_approval")
    OBVIOUS
<1>14. /\ waiting \in ViewType
       /\ waiting.run = linked.run
       /\ waiting.step[i].status = "awaiting_approval"
       /\ waiting.step[i].link = linked.step[i].link
       /\ Elsewhere(linked.step, waiting.step, i)
  <2>1. "awaiting_approval" \in StepStatuses
      BY DEF StepStatuses
  <2>2. QED BY <1>5, <1>12, <1>13, <2>1, WithStepFacts
<1>15. PICK halted : halted = WithRun(waiting, "awaiting_approval")
    OBVIOUS
<1>16. halted \in ViewType /\ halted.step = waiting.step
    BY <1>14, <1>15, WithRunFacts DEF RunStatuses
<1>17. PICK stopped : stopped = [halted EXCEPT !.run.current = i]
    OBVIOUS
<1>18. stopped \in ViewType /\ stopped.step = waiting.step
  <2>1. i \in 0..N
      BY <1>5, WorkflowAssumption DEF Steps
  <2>2. QED BY <1>16, <1>17, <2>1, WithCurrentFacts
<1>19. PICK l : l = IF MustAwait(i, k)
                    THEN [k EXCEPT !.at = "finish", !.base = requested, !.view = stopped]
                    ELSE [k EXCEPT !.at = "approve", !.job = a, !.base = requested,
                                   !.view = linked]
    OBVIOUS
<1>20. /\ Commit(requested, k.base)
       /\ approval' = [approval EXCEPT ![a] = [status |-> "pending", step |-> i]]
       /\ Become(d, l)
    BY <1>2, <1>4, <1>6, <1>8, <1>11, <1>13, <1>15, <1>17, <1>19 DEF RequestApproval
<1>21. Tables /\ TrueSteps(step)
    BY InvTables DEF Inv
<1>22. approval[a].status = "absent"
    BY <1>1 DEF NextId, Fresh
<1>23. /\ approval' \in [Approvals -> [status : {"absent", "pending", "approved", "rejected"},
                                       step : Steps]]
       /\ \A b \in Approvals \ {a} : approval'[b] = approval[b]
       /\ approval'[a].status = "pending" /\ approval'[a].step = i
    BY <1>5, <1>20, <1>21 DEF Tables
<1>24. Later
    BY <1>1, <1>22, <1>23 DEF Later, Asked, Acted
<1>25. PICK s : s = step'
    OBVIOUS
<1>26. run' \in RunType /\ s \in [Steps -> StepType] /\ TrueSteps(s)
  <2>1. run' \in RunType /\ step' \in [Steps -> StepType] /\ TrueSteps(step')
      BY <1>3, <1>9, <1>10, <1>20, <1>21, CommitTrue
  <2>2. QED BY <1>25, <2>1
<1>27. TrueSteps(s)' /\ TrueSteps(requested.step)'
    BY <1>10, <1>24, <1>26, StillTrue
<1>28. TrueSteps(step)'
    BY <1>25, <1>27 DEF TrueSteps
<1>29. Tables'
    BY <1>1, <1>21, <1>23, <1>25, <1>26 DEF Tables
<1>30. TrueSteps(linked.step)' /\ TrueSteps(stopped.step)'
  <2>1. Asked(a)' /\ approval'[a].step = i
      BY <1>23 DEF Asked
  <2>2. TrueSteps(linked.step)'
      BY <1>5, <1>12, <1>27, <2>1 DEF TrueSteps, Elsewhere
  <2>3. TrueSteps(stopped.step)'
      BY <1>5, <1>14, <1>18, <2>2 DEF TrueSteps, Elsewhere
  <2>4. QED BY <2>2, <2>3
<1>31. DriverOK(k)'
    BY <1>3, <1>24, StillOK
<1>32. k.mode # "approved"
    BY <1>3 DEF DriverOK
<1>33. DriverOK(l)' /\ \A b \in Approvals : ~Holds(l, b)
  <2>1. CASE MustAwait(i, k)
    <3>1. l = [k EXCEPT !.at = "finish", !.base = requested, !.view = stopped]
        BY <1>19, <2>1
    <3>2. /\ l \in DriverType /\ l.at = "finish" /\ l.mode = k.mode /\ l.view = stopped
        BY <1>3, <1>9, <1>18, <3>1 DEF DriverType, DriverSteps
    <3>3. k.mode # "remaining"
        BY <2>1 DEF MustAwait
    <3>4. DriverOK(l)'
        BY <1>30, <1>32, <3>2, <3>3 DEF DriverOK, InHand, Deciding
    <3>5. QED BY <3>2, <3>4 DEF Holds
  <2>2. CASE ~MustAwait(i, k)
    <3>1. l = [k EXCEPT !.at = "approve", !.job = a, !.base = requested, !.view = linked]
        BY <1>19, <2>2
    <3>2. /\ l \in DriverType /\ l.at = "approve" /\ l.mode = k.mode /\ l.view = linked
          /\ l.job = a /\ l.plan = k.plan
        BY <1>3, <1>9, <1>12, <3>1 DEF DriverType, DriverSteps
    <3>3. Licensed(a)'
      <4>1. i \in Gated => k.mode = "remaining"
          BY <2>2 DEF MustAwait
      <4>2. k.mode = "remaining" => \E b \in granted' : approval'[b].step <= i
          BY <1>5, <1>31 DEF DriverOK
      <4>3. QED BY <1>23, <4>1, <4>2 DEF Licensed
    <3>4. Asked(a)' /\ approval'[a].step = NextStep(k.plan) /\ k.plan # {}
        BY <1>4, <1>5, <1>23 DEF Asked
    <3>5. DriverOK(l)'
        BY <1>30, <1>31, <1>32, <3>2, <3>3, <3>4 DEF DriverOK, InHand, Deciding
    <3>6. QED BY <3>2, <3>5 DEF Holds
  <2>3. QED BY <2>1, <2>2
<1>34. Takes(d, l)
    BY <1>33 DEF Takes
<1>35. \A b \in Approvals : Used(b)'
    BY <1>1, <1>24, UsedStays
<1>36. \A b \in granted' : approval'[b].status = "approved"
    BY <1>1, <1>21, <1>24 DEF Inv, Later, Tables
<1>37. \A b \in Approvals : acts'[b] # acts[b] => Holds(driver[d], b)
    BY <1>1
<1>38. QED BY <1>20, <1>24, <1>28, <1>29, <1>33, <1>34, <1>35, <1>36, <1>37, Moves

LEMMA StepStillTrue ==
    ASSUME Inv, Later, step' = step
    PROVE  TrueSteps(step)'
<1>1. PICK s : s = step
    OBVIOUS
<1>2. s \in [Steps -> StepType] /\ TrueSteps(s)
    BY <1>1 DEF Inv, TypeOK
<1>3. TrueSteps(s)'
    BY <1>2, StillTrue
<1>4. QED BY <1>1, <1>3 DEF TrueSteps

(* An approval found pending gets a status.                                *)
LEMMA DecidedFacts ==
    ASSUME Inv, NEW a \in Approvals, Decidable(a), NEW status \in {"approved", "rejected"},
           approval' = [approval EXCEPT ![a].status = status]
    PROVE  /\ approval' \in [Approvals -> [status : {"absent", "pending", "approved", "rejected"},
                                           step : Steps]]
           /\ \A b \in Approvals : approval'[b].step = approval[b].step
           /\ \A b \in Approvals \ {a} : approval'[b] = approval[b]
           /\ approval'[a].status = status
           /\ approval[a].status = "pending"
           /\ acts[a] = 0
           /\ \A b \in Approvals : Asked(b) => Asked(b)'
           /\ \A b \in Approvals : approval[b].status = "approved" => approval'[b].status = "approved"
<1>1. approval[a].status = "pending"
    BY DEF Decidable
<1>2. Tables
    BY InvTables
<1>3. /\ approval' \in [Approvals -> [status : {"absent", "pending", "approved", "rejected"},
                                      step : Steps]]
      /\ \A b \in Approvals : approval'[b].step = approval[b].step
      /\ \A b \in Approvals \ {a} : approval'[b] = approval[b]
      /\ approval'[a].status = status
    BY <1>2 DEF Tables
<1>4. acts[a] = 0
    BY <1>1, <1>2 DEF Inv, Used, Acted, Tables
<1>5. QED BY <1>1, <1>3, <1>4 DEF Asked

LEMMA ApproveKeeps ==
    ASSUME Inv, NEW d \in Drivers, Approve(d)
    PROVE  Inv'
<1>1. driver[d].at \in {"decide", "handover"} /\ UNCHANGED <<run, step, execKey, refused, acts>>
    BY DEF Approve, rows
<1>2. PICK k : k = driver[d]
    OBVIOUS
<1>3. k \in DriverType /\ DriverOK(k) /\ k.at \in {"decide", "handover"}
    BY <1>1, <1>2, DriverFacts
<1>4. k.job \in Approvals /\ Asked(k.job)
    BY <1>3 DEF DriverOK, Deciding
<1>5. CASE ~Decidable(k.job)
  <2>1. Leave(d) /\ UNCHANGED <<rows, approval, execKey, history>>
      BY <1>1, <1>2, <1>5 DEF Approve, rows, history
  <2>2. QED BY <2>1, Leaves
<1>6. CASE Decidable(k.job)
  <2>1. /\ approval' = [approval EXCEPT ![k.job].status = "approved"]
        /\ granted' = granted \cup {k.job}
      BY <1>2, <1>6 DEF Approve
  <2>2. /\ approval' \in [Approvals -> [status : {"absent", "pending", "approved", "rejected"},
                                        step : Steps]]
        /\ \A b \in Approvals : approval'[b].step = approval[b].step
        /\ \A b \in Approvals \ {k.job} : approval'[b] = approval[b]
        /\ approval'[k.job].status = "approved"
        /\ approval[k.job].status = "pending"
        /\ acts[k.job] = 0
        /\ \A b \in Approvals : Asked(b) => Asked(b)'
        /\ \A b \in Approvals : approval[b].status = "approved" => approval'[b].status = "approved"
      BY <1>4, <1>6, <2>1, DecidedFacts
  <2>3. Later
      BY <1>1, <2>1, <2>2 DEF Later, Acted
  <2>4. Tables
      BY InvTables
  <2>5. Tables'
      BY <1>1, <1>4, <2>1, <2>2, <2>4 DEF Tables
  <2>6. TrueSteps(step)'
      BY <1>1, <2>3, StepStillTrue
  <2>7. \A a \in Approvals : Used(a)'
      BY <1>1, <2>3, UsedStays
  <2>8. \A b \in granted' : approval'[b].status = "approved"
      BY <2>1, <2>2, <2>4 DEF Inv, Tables
  <2>9. \A a \in Approvals : acts'[a] # acts[a] => Holds(driver[d], a)
      BY <1>1
  <2>10. CASE k.at = "decide"
    <3>1. PICK l : l = [k EXCEPT !.at = "lookup"]
        OBVIOUS
    <3>2. /\ l \in DriverType /\ l.mode = k.mode /\ l.at = "lookup" /\ l.view = k.view
          /\ l.plan = k.plan /\ l.job = k.job
        BY <1>3, <3>1 DEF DriverType, DriverSteps
    <3>3. DriverOK(k)'
        BY <1>3, <2>3, StillOK
    <3>4. k.job \in granted'
        BY <2>1
    <3>5. DriverOK(l)'
        BY <1>3, <2>10, <3>2, <3>3, <3>4 DEF DriverOK, InHand, Deciding
    <3>6. Takes(d, l)
        BY <1>1, <2>2, <3>2 DEF Takes, Holds
    <3>7. Become(d, l)
        BY <1>2, <1>6, <2>10, <3>1 DEF Approve
    <3>8. QED BY <2>3, <2>5, <2>6, <2>7, <2>8, <2>9, <3>5, <3>6, <3>7, Moves
  <2>11. CASE k.at = "handover"
    <3>1. Become(d, Idle)
        BY <1>2, <1>6, <2>11 DEF Approve, Leave
    <3>2. DriverOK(Idle)'
        BY <2>3, IdleOK, StillOK
    <3>3. Takes(d, Idle)
        BY IdleOK DEF Takes, Holds
    <3>4. QED BY <2>3, <2>5, <2>6, <2>7, <2>8, <2>9, <3>1, <3>2, <3>3, Moves
  <2>12. QED BY <1>3, <2>10, <2>11
<1>7. QED BY <1>5, <1>6

LEMMA RejectKeeps ==
    ASSUME Inv, NEW d \in Drivers, Reject(d)
    PROVE  Inv'
<1>1. driver[d].at = "reject" /\ UNCHANGED <<run, step, execKey, granted, acts>>
    BY DEF Reject, rows
<1>2. PICK k : k = driver[d]
    OBVIOUS
<1>3. k \in DriverType /\ DriverOK(k) /\ k.at = "reject"
    BY <1>1, <1>2, DriverFacts
<1>4. k.job \in Approvals /\ Asked(k.job)
    BY <1>3 DEF DriverOK, Deciding
<1>5. CASE ~Decidable(k.job)
  <2>1. Leave(d) /\ UNCHANGED <<rows, approval, execKey, history>>
      BY <1>1, <1>2, <1>5 DEF Reject, rows, history
  <2>2. QED BY <2>1, Leaves
<1>6. CASE Decidable(k.job)
  <2>1. PICK l : l = [k EXCEPT !.at = "unlink"]
      OBVIOUS
  <2>2. /\ approval' = [approval EXCEPT ![k.job].status = "rejected"]
        /\ refused' = refused \cup {k.job}
        /\ Become(d, l)
      BY <1>2, <1>6, <2>1 DEF Reject
  <2>3. /\ approval' \in [Approvals -> [status : {"absent", "pending", "approved", "rejected"},
                                        step : Steps]]
        /\ \A b \in Approvals : approval'[b].step = approval[b].step
        /\ \A b \in Approvals \ {k.job} : approval'[b] = approval[b]
        /\ approval'[k.job].status = "rejected"
        /\ approval[k.job].status = "pending"
        /\ acts[k.job] = 0
        /\ \A b \in Approvals : Asked(b) => Asked(b)'
        /\ \A b \in Approvals : approval[b].status = "approved" => approval'[b].status = "approved"
      BY <1>4, <1>6, <2>2, DecidedFacts
  <2>4. Later
      BY <1>1, <2>3 DEF Later, Acted
  <2>5. Tables
      BY InvTables
  <2>6. Tables'
      BY <1>1, <1>4, <2>2, <2>3, <2>5 DEF Tables
  <2>7. TrueSteps(step)'
      BY <1>1, <2>4, StepStillTrue
  <2>8. \A a \in Approvals : Used(a)'
      BY <1>1, <2>4, UsedStays
  <2>9. \A b \in granted' : approval'[b].status = "approved"
      BY <1>1, <2>3, <2>5 DEF Inv, Tables
  <2>10. \A a \in Approvals : acts'[a] # acts[a] => Holds(driver[d], a)
      BY <1>1
  <2>11. /\ l \in DriverType /\ l.mode = k.mode /\ l.at = "unlink" /\ l.view = k.view
         /\ l.plan = k.plan /\ l.job = k.job
      BY <1>3, <2>1 DEF DriverType, DriverSteps
  <2>12. DriverOK(l)
      BY <1>3, <2>11 DEF DriverOK, InHand, Deciding
  <2>13. DriverOK(l)'
      BY <2>4, <2>12, StillOK
  <2>14. Takes(d, l)
      BY <2>11 DEF Takes, Holds
  <2>15. QED BY <2>2, <2>4, <2>6, <2>7, <2>8, <2>9, <2>10, <2>13, <2>14, Moves
<1>7. QED BY <1>5, <1>6

LEMMA ExpireKeeps ==
    ASSUME Inv, NEW a \in Approvals, Expire(a)
    PROVE  Inv'
<1>1. /\ approval' = [approval EXCEPT ![a].status = "rejected"]
      /\ refused' = refused \cup {a}
      /\ UNCHANGED <<run, step, execKey, driver, granted, acts>>
      /\ Decidable(a)
    BY DEF Expire, rows, Decidable
<1>2. /\ approval' \in [Approvals -> [status : {"absent", "pending", "approved", "rejected"},
                                      step : Steps]]
      /\ \A b \in Approvals : approval'[b].step = approval[b].step
      /\ \A b \in Approvals \ {a} : approval'[b] = approval[b]
      /\ approval'[a].status = "rejected"
      /\ approval[a].status = "pending"
      /\ acts[a] = 0
      /\ \A b \in Approvals : Asked(b) => Asked(b)'
      /\ \A b \in Approvals : approval[b].status = "approved" => approval'[b].status = "approved"
    BY <1>1, DecidedFacts
<1>3. Later
    BY <1>1, <1>2 DEF Later, Acted
<1>4. TypeOK'
    BY <1>1, <1>2 DEF Inv, TypeOK
<1>5. ASSUME NEW d \in Drivers PROVE DriverOK(driver[d])'
  <2>1. PICK k : k = driver[d]
      OBVIOUS
  <2>2. DriverOK(k)
      BY <2>1 DEF Inv
  <2>3. DriverOK(k)'
      BY <1>3, <2>2, StillOK
  <2>4. QED BY <1>1, <2>1, <2>3 DEF DriverOK
<1>6. TrueSteps(step)'
    BY <1>1, <1>3, StepStillTrue
<1>7. \A b \in Approvals : Used(b)'
    BY <1>1, <1>3, UsedStays
<1>8. ASSUME NEW b \in Approvals PROVE Alone(b)'
  <2>1. Alone(b)
      BY DEF Inv
  <2>2. approval[b].status = "approved" => approval'[b].status = "approved"
      BY <1>2
  <2>3. QED BY <1>1, <2>1, <2>2 DEF Alone, Holds
<1>9. \A b \in granted' : approval'[b].status = "approved"
    BY <1>1, <1>2, <1>4 DEF Inv, TypeOK
<1>10. QED BY <1>4, <1>5, <1>6, <1>7, <1>8, <1>9 DEF Inv

(* Whatever a driver goes on with after its handler, the action it may     *)
(* have performed was the first under an approval that allowed it.         *)
Handling(d) ==
    /\ driver[d].at \in {"act", "act again"}
    /\ Dispatch(d) \/ UNCHANGED acts
    /\ UNCHANGED <<rows, approval, execKey, granted, refused>>

LEMMA HandlingFacts ==
    ASSUME Inv, NEW d \in Drivers, Handling(d)
    PROVE  /\ Later /\ Tables' /\ TrueSteps(step)'
           /\ \A a \in Approvals : Used(a)'
           /\ \A b \in granted' : approval'[b].status = "approved"
           /\ \A a \in Approvals : acts'[a] # acts[a] => Holds(driver[d], a)
           /\ acts' # acts => acts'[driver[d].job] > 0
<1>1. PICK k : k = driver[d]
    OBVIOUS
<1>2. k \in DriverType /\ DriverOK(k) /\ k.at \in {"act", "act again"}
    BY <1>1, DriverFacts DEF Handling
<1>3. k.job \in Approvals /\ Asked(k.job) /\ Licensed(k.job)
    BY <1>2 DEF DriverOK, InHand
<1>4. Holds(driver[d], k.job)
    BY <1>1, <1>2 DEF Holds
<1>5. approval[k.job].status = "approved" /\ acts[k.job] = 0
    BY <1>3, <1>4 DEF Inv, Alone
<1>6. acts' = [acts EXCEPT ![k.job] = @ + 1] \/ acts' = acts
    BY <1>1 DEF Handling, Dispatch, Perform
<1>7. UNCHANGED <<run, step, approval, execKey, granted, refused>>
    BY DEF Handling, rows
<1>8. Tables
    BY InvTables
<1>9. acts' \in [Approvals -> Nat]
    BY <1>3, <1>6, <1>8 DEF Tables
<1>10. /\ \A a \in Approvals \ {k.job} : acts'[a] = acts[a]
       /\ acts' # acts => acts'[k.job] = 1
    BY <1>3, <1>5, <1>6, <1>8 DEF Tables
<1>11. \A a \in Approvals : Acted(a) => Acted(a)'
    BY <1>5, <1>10 DEF Acted
<1>12. Later
    BY <1>7, <1>11 DEF Later, Asked
<1>13. Tables'
    BY <1>7, <1>8, <1>9 DEF Tables
<1>14. TrueSteps(step)'
    BY <1>7, <1>12, StepStillTrue
<1>15. \A b \in granted' : approval'[b].status = "approved"
    BY <1>7 DEF Inv
<1>16. \A a \in Approvals : acts'[a] # acts[a] => Holds(driver[d], a)
    BY <1>4, <1>10
<1>17. acts' # acts => acts'[driver[d].job] > 0
    BY <1>1, <1>10
<1>18. CASE acts' = acts
  <2>1. \A a \in Approvals : Used(a)'
      BY <1>12, <1>18, UsedStays
  <2>2. QED BY <2>1, <1>12, <1>13, <1>14, <1>15, <1>16, <1>17
<1>19. CASE acts' # acts
  <2>1. ASSUME NEW a \in Approvals, a # k.job PROVE Used(a)'
    <3>1. Used(a)
        BY DEF Inv
    <3>2. Licensed(a)' = Licensed(a)
        BY <1>7 DEF Licensed
    <3>3. acts'[a] = acts[a] /\ approval'[a] = approval[a]
        BY <1>7, <1>10, <2>1
    <3>4. QED BY <3>1, <3>2, <3>3 DEF Used, Acted
  <2>2. Used(k.job)'
    <3>1. Licensed(k.job)'
        BY <1>3, <1>7 DEF Licensed
    <3>2. acts'[k.job] = 1 /\ approval'[k.job].status = "approved"
        BY <1>5, <1>7, <1>10, <1>19
    <3>3. QED BY <3>1, <3>2 DEF Used
  <2>3. \A a \in Approvals : Used(a)'
      BY <2>1, <2>2
  <2>4. QED BY <2>3, <1>12, <1>13, <1>14, <1>15, <1>16, <1>17
<1>20. QED BY <1>18, <1>19

LEMMA HandlingKeeps ==
    ASSUME Inv, NEW d \in Drivers, Handling(d), NEW l, Become(d, l), DriverOK(l)',
           \A a \in Approvals : ~Holds(l, a)
    PROVE  Inv'
<1>1. /\ Later /\ Tables' /\ TrueSteps(step)'
      /\ \A a \in Approvals : Used(a)'
      /\ \A b \in granted' : approval'[b].status = "approved"
      /\ \A a \in Approvals : acts'[a] # acts[a] => Holds(driver[d], a)
      /\ acts' # acts => acts'[driver[d].job] > 0
    BY HandlingFacts
<1>2. Takes(d, l)
    BY DEF Takes
<1>3. QED BY <1>1, <1>2, Moves

LEMMA ActAgainKeeps ==
    ASSUME Inv, NEW d \in Drivers, ActAgain(d)
    PROVE  Inv'
<1>1. Handling(d) /\ Become(d, Idle)
    BY DEF ActAgain, Handling, Leave
<1>2. Later
    BY <1>1, HandlingFacts
<1>3. DriverOK(Idle)' /\ \A a \in Approvals : ~Holds(Idle, a)
    BY <1>2, IdleOK, StillOK DEF Holds
<1>4. QED BY <1>1, <1>3, HandlingKeeps

LEMMA CrashKeeps ==
    ASSUME Inv, NEW d \in Drivers, Crash(d)
    PROVE  Inv'
<1>1. Leave(d) /\ UNCHANGED <<rows, approval, execKey, granted, refused>>
    BY DEF Crash
<1>2. CASE UNCHANGED acts
  <2>1. UNCHANGED <<rows, approval, execKey, history>>
      BY <1>1, <1>2 DEF history
  <2>2. QED BY <1>1, <2>1, Leaves
<1>3. CASE ~UNCHANGED acts
  <2>1. Handling(d) /\ Become(d, Idle)
      BY <1>1, <1>3 DEF Crash, Handling, Leave
  <2>2. Later
      BY <2>1, HandlingFacts
  <2>3. DriverOK(Idle)' /\ \A a \in Approvals : ~Holds(Idle, a)
      BY <2>2, IdleOK, StillOK DEF Holds
  <2>4. QED BY <2>1, <2>3, HandlingKeeps
<1>4. QED BY <1>2, <1>3

(* The driver at a handler: its step, and the approval of the step.        *)
LEMMA AtHandler ==
    ASSUME Inv, NEW d \in Drivers, driver[d].at = "act"
    PROVE  /\ NextStep(driver[d].plan) \in Steps
           /\ NextStep(driver[d].plan) \in driver[d].plan
           /\ \A j \in driver[d].plan : NextStep(driver[d].plan) <= j
           /\ driver[d].job \in Approvals
           /\ Asked(driver[d].job)
           /\ approval[driver[d].job].step = NextStep(driver[d].plan)
<1>1. PICK k : k = driver[d]
    OBVIOUS
<1>2. k \in DriverType /\ DriverOK(k) /\ k.at = "act"
    BY <1>1, DriverFacts
<1>3. k.job \in Approvals /\ Asked(k.job) /\ approval[k.job].step = NextStep(k.plan)
    BY <1>2 DEF DriverOK, InHand
<1>4. k.plan \in SUBSET Steps /\ k.plan # {}
    BY <1>2 DEF DriverOK, DriverType, InHand
<1>5. NextStep(k.plan) \in k.plan /\ \A j \in k.plan : NextStep(k.plan) <= j
    BY <1>4, FirstStep
<1>6. QED BY <1>1, <1>3, <1>4, <1>5

LEMMA FailStepKeeps ==
    ASSUME Inv, NEW d \in Drivers, FailStep(d)
    PROVE  Inv'
<1>1. PICK k : k = driver[d]
    OBVIOUS
<1>2. Handling(d) /\ k.at = "act"
    BY <1>1 DEF FailStep, Handling
<1>3. Later
    BY <1>2, HandlingFacts
<1>4. /\ k \in DriverType /\ DriverOK(k) /\ k.view \in ViewType /\ TrueSteps(k.view.step)
    BY <1>1, DriverFacts
<1>5. PICK i : i = NextStep(k.plan)
    OBVIOUS
<1>6. i \in Steps /\ k.job \in Approvals /\ Asked(k.job) /\ approval[k.job].step = i
    BY <1>1, <1>2, <1>5, AtHandler
<1>7. PICK u : u = WithStep(k.view, i, "failed")
    OBVIOUS
<1>8. /\ u \in ViewType /\ u.run = k.view.run /\ u.step[i].status = "failed"
      /\ u.step[i].link = k.view.step[i].link /\ Elsewhere(k.view.step, u.step, i)
  <2>1. "failed" \in StepStatuses
      BY DEF StepStatuses
  <2>2. QED BY <1>4, <1>6, <1>7, <2>1, WithStepFacts
<1>9. PICK w : w = WithRun(u, "failed")
    OBVIOUS
<1>10. w \in ViewType /\ w.step = u.step
    BY <1>8, <1>9, WithRunFacts DEF RunStatuses
<1>11. PICK v : v = [w EXCEPT !.step[i].link = k.job]
    OBVIOUS
<1>12. /\ v \in ViewType /\ v.run = w.run
       /\ v.step[i].status = w.step[i].status
       /\ v.step[i].link = k.job
       /\ Elsewhere(w.step, v.step, i)
    BY <1>6, <1>10, <1>11, WithLinkFacts
<1>13. TrueSteps(v.step)
    BY <1>4, <1>6, <1>8, <1>10, <1>12 DEF TrueSteps, Elsewhere
<1>14. PICK l : l = [k EXCEPT !.at = "finish", !.view = v]
    OBVIOUS
<1>15. /\ l \in DriverType /\ l.mode = k.mode /\ l.at = "finish" /\ l.view = v
       /\ l.plan = k.plan /\ l.job = k.job
    BY <1>4, <1>12, <1>14 DEF DriverType, DriverSteps
<1>16. DriverOK(l)
    BY <1>2, <1>4, <1>13, <1>15 DEF DriverOK, InHand, Deciding
<1>17. DriverOK(l)' /\ \A a \in Approvals : ~Holds(l, a)
    BY <1>3, <1>15, <1>16, StillOK DEF Holds
<1>18. Become(d, l)
    BY <1>1, <1>5, <1>7, <1>9, <1>11, <1>14 DEF FailStep
<1>19. QED BY <1>2, <1>17, <1>18, HandlingKeeps

LEMMA CompleteStepKeeps ==
    ASSUME Inv, NEW d \in Drivers, CompleteStep(d)
    PROVE  Inv'
<1>1. PICK k : k = driver[d]
    OBVIOUS
<1>2. Handling(d) /\ k.at = "act"
    BY <1>1 DEF CompleteStep, Handling
<1>3. /\ Later /\ Tables' /\ TrueSteps(step)'
      /\ \A a \in Approvals : Used(a)'
      /\ \A b \in granted' : approval'[b].status = "approved"
      /\ \A a \in Approvals : acts'[a] # acts[a] => Holds(driver[d], a)
      /\ acts' # acts => acts'[driver[d].job] > 0
    BY <1>2, HandlingFacts
<1>4. /\ k \in DriverType /\ DriverOK(k) /\ k.view \in ViewType /\ k.base \in ViewType
      /\ TrueSteps(k.view.step) /\ k.view.step \in [Steps -> StepType] /\ k.plan \subseteq Steps
    BY <1>1, DriverFacts
<1>5. DriverOK(k)'
    BY <1>3, <1>4, StillOK
<1>6. PICK i : i = NextStep(k.plan)
    OBVIOUS
<1>7. /\ i \in Steps /\ k.job \in Approvals /\ Asked(k.job) /\ approval[k.job].step = i
    BY <1>1, <1>2, <1>6, AtHandler
<1>8. UNCHANGED <<run, step, approval, granted>>
    BY <1>2 DEF Handling, rows
<1>9. PICK status : status = IF i \in Handled THEN "succeeded" ELSE "skipped"
    OBVIOUS
<1>10. PICK u : u = WithStep(k.view, i, status)
    OBVIOUS
<1>11. /\ u \in ViewType /\ u.run = k.view.run /\ u.step[i].status = status
       /\ u.step[i].link = k.view.step[i].link /\ Elsewhere(k.view.step, u.step, i)
  <2>1. status \in StepStatuses
      BY <1>9 DEF StepStatuses
  <2>2. QED BY <1>4, <1>7, <1>10, <2>1, WithStepFacts
<1>12. PICK w : w = [u EXCEPT !.step[i].link = k.job]
    OBVIOUS
<1>13. /\ w \in ViewType /\ w.run = u.run
       /\ w.step[i].status = u.step[i].status
       /\ w.step[i].link = k.job
       /\ Elsewhere(u.step, w.step, i)
    BY <1>7, <1>11, <1>12, WithLinkFacts
<1>14. PICK done : done = [w EXCEPT !.run.current = i + 1]
    OBVIOUS
<1>15. done \in ViewType /\ done.step = w.step
  <2>1. i + 1 \in 0..N
      BY <1>7, WorkflowAssumption DEF Steps
  <2>2. QED BY <1>13, <1>14, <2>1, WithCurrentFacts
<1>16. status = "succeeded" => ActedAt(i)'
  <2>1. SUFFICES ASSUME status = "succeeded" PROVE ActedAt(i)'
      OBVIOUS
  <2>2. i \in Handled
      BY <1>9, <2>1
  <2>3. acts' = [acts EXCEPT ![k.job] = @ + 1]
      BY <1>1, <1>6, <2>2 DEF CompleteStep, Dispatch, Perform
  <2>4. acts \in [Approvals -> Nat]
      BY DEF Inv, TypeOK
  <2>5. acts'[k.job] # acts[k.job]
      BY <1>7, <2>3, <2>4
  <2>6. acts'[k.job] > 0
      BY <1>1, <1>3, <2>5
  <2>7. Asked(k.job)' /\ approval'[k.job].step = i
      BY <1>7, <1>8 DEF Asked
  <2>8. Acted(k.job)'
      BY <2>6 DEF Acted
  <2>9. QED BY <1>7, <2>7, <2>8 DEF ActedAt
<1>17. TrueSteps(k.view.step)'
    BY <1>3, <1>4, StillTrue
<1>18. done.step[i].link = k.job /\ done.step[i].status = status
    BY <1>11, <1>13, <1>15
<1>19. TrueSteps(done.step)'
  <2>1. Asked(k.job)' /\ approval'[k.job].step = i
      BY <1>7, <1>8 DEF Asked
  <2>2. ASSUME NEW j \in Steps, j # i PROVE done.step[j] = k.view.step[j]
      BY <2>2, <1>11, <1>13, <1>15 DEF Elsewhere
  <2>3. QED BY <1>7, <1>16, <1>17, <1>18, <2>1, <2>2 DEF TrueSteps
<1>20. PICK rest : rest = [k EXCEPT !.view = done, !.plan = k.plan \ {i}]
    OBVIOUS
<1>21. /\ rest \in DriverType /\ rest.mode = k.mode /\ rest.view = done /\ rest.job = k.job
       /\ rest.plan = k.plan \ {i}
    BY <1>4, <1>15, <1>20 DEF DriverType
<1>22. PICK m : m = IF k.mode = "approved" THEN Relisted(rest, i) ELSE rest
    OBVIOUS
<1>23. /\ m \in DriverType /\ m.mode # "approved" /\ TrueSteps(m.view.step)'
       /\ m.mode = "remaining" => \E b \in granted' : \A j \in m.plan : approval'[b].step <= j
  <2>1. CASE k.mode # "approved"
    <3>1. m = rest
        BY <1>22, <2>1
    <3>2. rest.mode = "remaining" =>
              \E b \in granted' : \A j \in rest.plan : approval'[b].step <= j
        BY <1>5, <1>21 DEF DriverOK
    <3>3. QED BY <1>19, <1>21, <2>1, <3>1, <3>2
  <2>2. CASE k.mode = "approved"
    <3>1. PICK s : s = [j \in Steps |-> IF j = i THEN done.step[i] ELSE step[j]]
        OBVIOUS
    <3>2. PICK q : q = [j \in Steps |-> IF j = i THEN k.base.step[i] ELSE step[j]]
        OBVIOUS
    <3>3. s \in [Steps -> StepType] /\ q \in [Steps -> StepType]
        BY <1>4, <1>7, <1>15, <3>1, <3>2 DEF ViewType, Inv, TypeOK
    <3>4. PICK vs : vs = [done EXCEPT !.step = s]
        OBVIOUS
    <3>5. PICK bs : bs = [k.base EXCEPT !.step = q]
        OBVIOUS
    <3>6. vs \in ViewType /\ vs.step = s /\ bs \in ViewType
        BY <1>4, <1>15, <3>3, <3>4, <3>5 DEF ViewType
    <3>7. PICK P : P = {j \in Steps : j > i /\ step[j].status = "pending"}
        OBVIOUS
    <3>8. m = [rest EXCEPT !.mode = "remaining", !.base = bs, !.view = vs, !.plan = P]
      <4>1. rest.view = done /\ rest.base = k.base
          BY <1>4, <1>20 DEF DriverType
      <4>2. QED BY <1>21, <1>22, <2>2, <3>1, <3>2, <3>4, <3>5, <3>7, <4>1 DEF Relisted, DriverType
    <3>9. m \in DriverType /\ m.mode = "remaining" /\ m.view = vs /\ m.plan = P
        BY <1>21, <3>6, <3>7, <3>8 DEF DriverType, Modes
    <3>10. TrueSteps(s)'
        BY <1>3, <1>7, <1>8, <1>19, <3>1 DEF TrueSteps
    <3>11. \E b \in granted' : \A j \in P : approval'[b].step <= j
      <4>1. k.job \in granted'
          BY <1>4, <1>8, <2>2 DEF DriverOK
      <4>2. approval'[k.job].step = i
          BY <1>7, <1>8
      <4>3. \A j \in P : i <= j
          BY <1>7, <3>7, WorkflowAssumption DEF Steps
      <4>4. QED BY <4>1, <4>2, <4>3
    <3>12. QED BY <3>6, <3>9, <3>10, <3>11
  <2>3. QED BY <2>1, <2>2
<1>24. m.mode = "planned" \/ m.mode = "remaining"
    BY <1>23 DEF DriverType, Modes
<1>25. PICK l : l = Onward(m)
    OBVIOUS
<1>26. /\ l \in DriverType
       /\ l.mode = m.mode /\ l.plan = m.plan /\ l.job = m.job
       /\ l.view.step = m.view.step
       /\ l.at \in {"finish", "request"}
       /\ l.at = "request" => m.plan # {}
  <2>1. /\ Onward(m) \in DriverType
        /\ Onward(m).mode = m.mode /\ Onward(m).plan = m.plan /\ Onward(m).job = m.job
        /\ Onward(m).view.step = m.view.step
        /\ Onward(m).at \in {"finish", "request"}
        /\ Onward(m).at = "request" => m.plan # {}
      BY <1>23, <1>24, OnwardFacts
  <2>2. QED BY <1>25, <2>1
<1>27. DriverOK(l)'
    BY <1>23, <1>26 DEF DriverOK, InHand, Deciding
<1>28. \A a \in Approvals : ~Holds(l, a)
    BY <1>26 DEF Holds
<1>29. Become(d, l)
    BY <1>1, <1>6, <1>9, <1>10, <1>12, <1>14, <1>20, <1>22, <1>25 DEF CompleteStep
<1>30. QED BY <1>2, <1>27, <1>28, <1>29, HandlingKeeps

-----------------------------------------------------------------------------
(* The theorems.                                                           *)
LEMMA InitInv ==
    ASSUME Init
    PROVE  Inv
<1>1. TypeOK
  <2>1. 0 \in Steps
      BY WorkflowAssumption DEF Steps
  <2>2. run \in RunType /\ step \in [Steps -> StepType]
      BY NewStepsTrue, NewViewFacts DEF Init, ViewType
  <2>3. driver \in [Drivers -> DriverType]
      BY IdleOK DEF Init, DriverOK
  <2>4. QED BY <2>1, <2>2, <2>3 DEF Init, TypeOK
<1>2. TrueSteps(step)
    BY NewStepsTrue DEF Init
<1>3. \A d \in Drivers : DriverOK(driver[d]) /\ driver[d].at = "idle"
    BY IdleOK DEF Init
<1>4. \A a \in Approvals : Used(a)
    BY DEF Init, Used, Acted
<1>5. \A a \in Approvals : Alone(a)
    BY <1>3 DEF Alone, Holds
<1>6. QED BY <1>1, <1>2, <1>3, <1>4, <1>5 DEF Inv, Init

LEMMA StutterKeeps ==
    ASSUME Inv, UNCHANGED vars
    PROVE  Inv'
<1>1. UNCHANGED <<run, step, approval, execKey, driver, granted, refused, acts>>
    BY DEF vars, rows, history
<1>2. Later
    BY <1>1 DEF Later, Asked, Acted
<1>3. TypeOK' /\ \A b \in granted' : approval'[b].status = "approved"
    BY <1>1 DEF Inv, TypeOK
<1>4. TrueSteps(step)'
    BY <1>1, <1>2, StepStillTrue
<1>5. \A a \in Approvals : Used(a)'
    BY <1>1, <1>2, UsedStays
<1>6. ASSUME NEW d \in Drivers PROVE DriverOK(driver[d])'
  <2>1. PICK k : k = driver[d]
      OBVIOUS
  <2>2. DriverOK(k)'
      BY <1>2, <2>1, StillOK DEF Inv
  <2>3. QED BY <1>1, <2>1, <2>2 DEF DriverOK
<1>7. \A a \in Approvals : Alone(a)'
    BY <1>1 DEF Inv, Alone, Holds
<1>8. QED BY <1>3, <1>4, <1>5, <1>6, <1>7 DEF Inv

LEMMA NextInv ==
    ASSUME Inv, [Next]_vars
    PROVE  Inv'
<1>1. ASSUME NEW a \in Approvals, Expire(a) PROVE Inv'
    BY <1>1, ExpireKeeps
<1>2. ASSUME NEW d \in Drivers, Begin(d) PROVE Inv'
  <2>1. CASE BeginRun(d)
      BY <2>1, BeginRunKeeps
  <2>2. CASE BeginPause(d) \/ BeginRetry(d)
      BY <2>2, BeginsKeep
  <2>3. ASSUME NEW a \in Approvals, BeginApprove(d, a) \/ BeginReject(d, a) PROVE Inv'
      BY <2>3, DecidesKeep
  <2>4. QED BY <1>2, <2>1, <2>2, <2>3 DEF Begin
<1>3. ASSUME NEW d \in Drivers, Recover(d) PROVE Inv'
    BY <1>3, BeginsKeep, BeginResumeKeeps DEF Recover
<1>4. ASSUME NEW d \in Drivers, Continue(d) PROVE Inv'
  <2>1. CASE InsertRun(d) \/ ApproveOwn(d) \/ CreateExecution(d)
      BY <2>1, InsertRunKeeps, ApproveOwnKeeps, CreateExecutionKeeps
  <2>2. ASSUME NEW a \in Approvals, RequestApproval(d, a) PROVE Inv'
      BY <2>2, RequestApprovalKeeps
  <2>3. CASE CompleteStep(d) \/ FailStep(d) \/ ActAgain(d)
      BY <2>3, CompleteStepKeeps, FailStepKeeps, ActAgainKeeps
  <2>4. CASE Approve(d) \/ LookUp(d) \/ Reject(d) \/ CancelStep(d)
      BY <2>4, ApproveKeeps, LookUpKeeps, RejectKeeps, CancelStepKeeps
  <2>5. CASE ResumeRun(d) \/ CommitAndLeave(d)
      BY <2>5, ResumeRunKeeps, CommitAndLeaveKeeps
  <2>6. QED BY <1>4, <2>1, <2>2, <2>3, <2>4, <2>5 DEF Continue
<1>5. ASSUME NEW d \in Drivers, Crash(d) PROVE Inv'
    BY <1>5, CrashKeeps
<1>6. CASE UNCHANGED vars
    BY <1>6, StutterKeeps
<1>7. QED BY <1>1, <1>2, <1>3, <1>4, <1>5, <1>6 DEF Next

(* The invariant holds in every state, however many drivers work on the    *)
(* run at the same time.                                                   *)
THEOREM Invariance == Spec => []Inv
<1>1. Init => Inv
    BY InitInv
<1>2. Inv /\ [Next]_vars => Inv'
    BY NextInv
<1>3. QED BY <1>1, <1>2, PTL DEF Spec

(* Rows, approvals and drivers are always well formed.                     *)
THEOREM TypeCorrect == Spec => []TypeOK
<1>1. Inv => TypeOK
    BY DEF Inv
<1>2. QED BY <1>1, Invariance, PTL

(* A step that requires approval acts only after a human granted an        *)
(* approval of that step or of an earlier one.                             *)
THEOREM GrantFirst == Spec => []GatedNeedsGrant
<1>1. Inv => GatedNeedsGrant
    BY DEF Inv, Used, Licensed, GatedNeedsGrant
<1>2. QED BY <1>1, Invariance, PTL

(* A step is recorded as succeeded only if it acted.                       *)
THEOREM SuccessIsReal == Spec => []SucceededActed
<1>1. Inv => SucceededActed
    BY DEF Inv, TrueSteps, ActedAt, SucceededActed
<1>2. QED BY <1>1, Invariance, PTL

-----------------------------------------------------------------------------
(* The approvals of a run keep the promise of GuardedEffect.               *)
LEMMA SameDecision ==
    ASSUME \A a \in Approvals : /\ approval'[a].status = "approved" <=> approval[a].status = "approved"
                                /\ approval'[a].status = "rejected" <=> approval[a].status = "rejected"
    PROVE  decision' = decision
BY DEF decision

LEMMA HandlingCarriesOut ==
    ASSUME Inv, NEW d \in Drivers, Handling(d)
    PROVE  [Guarded!Next]_(Guarded!vars)
<1>1. PICK a : a = driver[d].job
    OBVIOUS
<1>2. DriverOK(driver[d]) /\ driver[d].at \in {"act", "act again"}
    BY DriverFacts DEF Handling
<1>3. a \in Approvals /\ Holds(driver[d], a)
    BY <1>1, <1>2 DEF DriverOK, InHand, Holds
<1>4. approval[a].status = "approved" /\ acts[a] = 0
    BY <1>3 DEF Inv, Alone
<1>5. decision' = decision
  <2>1. approval' = approval
      BY DEF Handling
  <2>2. QED BY <2>1, SameDecision
<1>6. CASE acts' = acts
    BY <1>5, <1>6 DEF Guarded!vars
<1>7. CASE acts' # acts
  <2>1. acts' = [acts EXCEPT ![a] = @ + 1]
      BY <1>1, <1>7 DEF Handling, Dispatch, Perform
  <2>2. acts' = [acts EXCEPT ![a] = 1]
      BY <1>3, <1>4, <2>1
  <2>3. decision[a] = "granted"
      BY <1>3, <1>4 DEF decision
  <2>4. Guarded!CarryOut(a)
      BY <1>4, <1>5, <2>2, <2>3 DEF Guarded!CarryOut
  <2>5. QED BY <1>3, <2>4 DEF Guarded!Next
<1>8. QED BY <1>6, <1>7

LEMMA GrantIsGrant ==
    ASSUME Inv, NEW a \in Approvals, Decidable(a), acts' = acts,
           approval' = [approval EXCEPT ![a].status = "approved"]
    PROVE  [Guarded!Next]_(Guarded!vars)
<1>1. /\ approval[a].status = "pending" /\ approval'[a].status = "approved"
      /\ \A b \in Approvals \ {a} : approval'[b] = approval[b]
    BY DecidedFacts
<1>2. decision[a] = "open"
    BY <1>1 DEF decision
<1>3. decision' = [decision EXCEPT ![a] = "granted"]
    BY <1>1 DEF decision
<1>4. Guarded!Grant(a)
    BY <1>2, <1>3 DEF Guarded!Grant
<1>5. QED BY <1>4 DEF Guarded!Next

LEMMA RefusalIsRefusal ==
    ASSUME Inv, NEW a \in Approvals, Decidable(a), acts' = acts,
           approval' = [approval EXCEPT ![a].status = "rejected"]
    PROVE  [Guarded!Next]_(Guarded!vars)
<1>1. /\ approval[a].status = "pending" /\ approval'[a].status = "rejected"
      /\ \A b \in Approvals \ {a} : approval'[b] = approval[b]
    BY DecidedFacts
<1>2. decision[a] = "open"
    BY <1>1 DEF decision
<1>3. decision' = [p \in Approvals |-> IF p \in {a} THEN "refused" ELSE decision[p]]
    BY <1>1 DEF decision
<1>4. Guarded!Refuse({a})
    BY <1>2, <1>3 DEF Guarded!Refuse
<1>5. QED BY <1>4 DEF Guarded!Next

LEMMA Keeps ==
    ASSUME approval' = approval, acts' = acts
    PROVE  [Guarded!Next]_(Guarded!vars)
<1>1. decision' = decision
    BY SameDecision
<1>2. QED BY <1>1 DEF Guarded!vars

LEMMA ContinueKeepsPromise ==
    ASSUME Inv, NEW d \in Drivers, Continue(d)
    PROVE  [Guarded!Next]_(Guarded!vars)
<1>1. CASE InsertRun(d) \/ CreateExecution(d) \/ LookUp(d) \/ CancelStep(d) \/ ResumeRun(d)
              \/ CommitAndLeave(d)
  <2>1. approval' = approval /\ acts' = acts
      BY <1>1 DEF InsertRun, CreateExecution, LookUp, CancelStep, ResumeRun, CommitAndLeave, history
  <2>2. QED BY <2>1, Keeps
<1>2. CASE CompleteStep(d) \/ FailStep(d) \/ ActAgain(d)
  <2>1. Handling(d)
      BY <1>2 DEF CompleteStep, FailStep, ActAgain, Handling
  <2>2. QED BY <2>1, HandlingCarriesOut
<1>3. CASE ApproveOwn(d) \/ Approve(d) \/ Reject(d)
  <2>1. PICK a : a = driver[d].job
      OBVIOUS
  <2>2. a \in Approvals
      BY <1>3, <2>1, DriverFacts DEF ApproveOwn, Approve, Reject, DriverOK, InHand, Deciding
  <2>3. acts' = acts
      BY <1>3 DEF ApproveOwn, Approve, Reject, history
  <2>4. CASE Decidable(a) /\ ~Reject(d)
    <3>1. approval' = [approval EXCEPT ![a].status = "approved"]
        BY <1>3, <2>1, <2>4 DEF ApproveOwn, Approve
    <3>2. QED BY <2>2, <2>3, <2>4, <3>1, GrantIsGrant
  <2>5. CASE Decidable(a) /\ Reject(d)
    <3>1. approval' = [approval EXCEPT ![a].status = "rejected"]
        BY <2>1, <2>5 DEF Reject
    <3>2. QED BY <2>2, <2>3, <2>5, <3>1, RefusalIsRefusal
  <2>6. CASE ~Decidable(a)
    <3>1. approval' = approval
        BY <1>3, <2>1, <2>6 DEF ApproveOwn, Approve, Reject
    <3>2. QED BY <2>3, <3>1, Keeps
  <2>7. QED BY <2>4, <2>5, <2>6
<1>4. ASSUME NEW a \in Approvals, RequestApproval(d, a)
      PROVE  [Guarded!Next]_(Guarded!vars)
  <2>1. PICK i : approval' = [approval EXCEPT ![a] = [status |-> "pending", step |-> i]]
      BY <1>4 DEF RequestApproval
  <2>2. approval[a].status = "absent" /\ acts' = acts
      BY <1>4 DEF RequestApproval, NextId, Fresh, history
  <2>3. decision' = decision
      BY <2>1, <2>2, SameDecision DEF Inv, TypeOK
  <2>4. QED BY <2>2, <2>3 DEF Guarded!vars
<1>5. QED BY <1>1, <1>2, <1>3, <1>4 DEF Continue

(* Every approval of a run is decided at most once, a refusal is final,    *)
(* and its step acts at most once and only after it was granted.           *)
THEOREM Implementation == Spec => ImplementsGuardedEffect
<1>1. Init => Guarded!Init
    BY DEF Init, Guarded!Init, decision
<1>2. Inv /\ [Next]_vars => [Guarded!Next]_(Guarded!vars)
  <2>1. SUFFICES ASSUME Inv, [Next]_vars PROVE [Guarded!Next]_(Guarded!vars)
      OBVIOUS
  <2>2. ASSUME NEW d \in Drivers, Begin(d) \/ Recover(d) PROVE approval' = approval /\ acts' = acts
      BY <2>2 DEF Begin, Recover, BeginRun, BeginPause, BeginRetry, BeginApprove, BeginReject,
                  BeginFailStuck, BeginResume, history
  <2>3. ASSUME NEW d \in Drivers, Begin(d) \/ Recover(d) PROVE [Guarded!Next]_(Guarded!vars)
      BY <2>2, <2>3, Keeps
  <2>4. ASSUME NEW d \in Drivers, Crash(d) PROVE [Guarded!Next]_(Guarded!vars)
    <3>1. approval' = approval /\ (acts' = acts \/ Handling(d))
        BY <2>4 DEF Crash, Handling
    <3>2. QED BY <2>1, <2>4, <3>1, Keeps, HandlingCarriesOut
  <2>5. ASSUME NEW a \in Approvals, Expire(a) PROVE [Guarded!Next]_(Guarded!vars)
    <3>1. /\ Decidable(a) /\ acts' = acts
          /\ approval' = [approval EXCEPT ![a].status = "rejected"]
        BY <2>5 DEF Expire, Decidable
    <3>2. QED BY <2>1, <2>5, <3>1, RefusalIsRefusal
  <2>6. CASE UNCHANGED vars
    <3>1. approval' = approval /\ acts' = acts
        BY <2>6 DEF vars, history
    <3>2. QED BY <3>1, Keeps
  <2>7. QED BY <2>1, <2>3, <2>4, <2>5, <2>6, ContinueKeepsPromise DEF Next
<1>3. QED BY <1>1, <1>2, Invariance, PTL DEF Spec, Guarded!Spec, ImplementsGuardedEffect

=============================================================================
