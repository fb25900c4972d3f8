---------------------------- MODULE WorkflowRun ----------------------------
(***************************************************************************)
(* One workflow run: its row, its step rows, the approvals of its steps    *)
(* and whoever drives it - a run or resume request, an approve endpoint,   *)
(* the recovery job, the job queue.                                        *)
(*                                                                         *)
(* A driver works on objects its ORM session has loaded: view holds their  *)
(* attributes, base their values when last loaded or flushed.  A commit    *)
(* writes the attributes that differ; nothing reloads them (the sessions   *)
(* have expire_on_commit=False), so a driver may act on stale values.      *)
(* Every action ends with a commit or before an await of something slow.   *)
(***************************************************************************)
EXTENDS Naturals, FiniteSets

CONSTANTS
    N,              \* number of steps of the definition
    Gated,          \* steps whose decision is requires_approval
    Handled,        \* steps whose action type has a handler
    Approvals,      \* ids of the approval rows that may be created
    Drivers,        \* requests and jobs that may work at the same time
    NoApproval,
    OneDriver,      \* no two of them drive the run at the same time
    Rerun,          \* the run's idempotency key is used again
    MayCrash        \* processes may die

Steps == 0..(N - 1)

ASSUME WorkflowAssumption ==
    /\ N \in Nat \ {0}
    /\ Gated \subseteq Steps
    /\ Handled \subseteq Steps
    /\ Approvals \subseteq Nat
    /\ NoApproval \notin Approvals
    /\ {OneDriver, Rerun, MayCrash} \subseteq BOOLEAN

VARIABLES
    run,        \* the workflow_runs row: status and current_step_index
    step,       \* the workflow_step_runs rows
    approval,   \* of each approval: status and the step of its payload
    execKey,    \* of each approval: attempt number in the key of its execution
    driver,     \* local state of each driver, see DriverType
    granted,    \* history: approvals granted by a human
    refused,    \* history: approvals rejected or expired
    acts        \* history: how often a handler acted under an approval

rows    == <<run, step>>
history == <<granted, refused, acts>>
vars    == <<rows, approval, execKey, driver, history>>

RunStatuses  == {"absent", "pending", "running", "awaiting_approval", "paused",
                 "retry_wait", "completed", "failed"}
StepStatuses == {"pending", "running", "awaiting_approval", "succeeded",
                 "skipped", "failed", "cancelled"}

RunType  == [status : RunStatuses, current : 0..N]
StepType == [status : StepStatuses, link : Approvals \cup {NoApproval},
             tries : Nat, key : Nat \ {0}]
ViewType == [run : RunType, step : [Steps -> StepType]]

NewRun  == [status |-> "absent", current |-> 0]
NewStep == [status |-> "pending", link |-> NoApproval, tries |-> 0, key |-> 1]
NewView == [run |-> NewRun, step |-> [i \in Steps |-> NewStep]]

(* at: what the driver does next; plan: the steps still to run; mode:      *)
(* where the plan is from, "remaining" being the rest of a run after an    *)
(* approval, in which every step counts as safe_auto.                      *)
DriverSteps == {"idle", "insert", "decide", "handover", "lookup", "reject", "unlink",
                "resume", "request", "approve", "create", "act", "act again", "finish", "overwrite"}
Modes       == {"planned", "approved", "remaining"}
DriverType  == [at : DriverSteps, plan : SUBSET Steps, mode : Modes,
                job : Approvals \cup {NoApproval}, view : ViewType, base : ViewType]

Idle == [at |-> "idle", plan |-> {}, mode |-> "planned", job |-> NoApproval,
         view |-> NewView, base |-> NewView]

TypeOK ==
    /\ run \in RunType
    /\ step \in [Steps -> StepType]
    /\ approval \in [Approvals -> [status : {"absent", "pending", "approved", "rejected"},
                                   step : Steps]]
    /\ execKey \in [Approvals -> Nat]
    /\ driver \in [Drivers -> DriverType]
    /\ granted \in SUBSET Approvals
    /\ refused \in SUBSET Approvals
    /\ acts \in [Approvals -> Nat]

Init ==
    /\ run = NewRun
    /\ step = [i \in Steps |-> NewStep]
    /\ approval = [a \in Approvals |-> [status |-> "absent", step |-> 0]]
    /\ execKey = [a \in Approvals |-> 0]
    /\ driver = [d \in Drivers |-> Idle]
    /\ granted = {}
    /\ refused = {}
    /\ acts = [a \in Approvals |-> 0]

-----------------------------------------------------------------------------
(* Sessions                                                                *)

Database == [run |-> run, step |-> step]

Written(new, old, stored) ==
    [f \in DOMAIN stored |-> IF new[f] = old[f] THEN stored[f] ELSE new[f]]

Commit(view, base) ==
    /\ run' = Written(view.run, base.run, run)
    /\ step' = [i \in Steps |-> Written(view.step[i], base.step[i], step[i])]

WithRun(view, status) == [view EXCEPT !.run.status = status]

WithStep(view, i, status) == [view EXCEPT !.step[i].status = status]

Become(d, local) == driver' = [driver EXCEPT ![d] = local]

(* The request or job ends and its session is closed.                      *)
Leave(d) == Become(d, Idle)

(* The next step of the plan, or the end of the run.                       *)
Onward(local) ==
    IF local.plan = {}
    THEN [local EXCEPT !.at = "finish", !.view = WithRun(local.view, "completed")]
    ELSE [local EXCEPT !.at = "request"]

LastStep(plan) == CHOOSE i \in plan : \A j \in plan : i >= j

NextStep(plan) == CHOOSE i \in plan : \A j \in plan : i <= j

(* The last transaction of most operations.                                *)
CommitAndLeave(d) ==
    /\ driver[d].at \in {"finish", "overwrite"}
    /\ Commit(driver[d].view, driver[d].base)
    /\ Leave(d)
    /\ UNCHANGED <<approval, execKey, history>>

-----------------------------------------------------------------------------
(* run_workflow_definition                                                 *)

Driving(d) == driver[d].at \in {"insert", "decide", "lookup", "resume", "request",
                                "approve", "create", "act", "act again", "finish"}

MayDrive == OneDriver => \A d \in Drivers : ~Driving(d)

(* A driver's objects are loaded from the database as it is now.           *)
Loading(d, local) ==
    Become(d, [local EXCEPT !.base = Database, !.view = WithRun(Database, "running")])

(* create_workflow_run returns the run that already has the key.           *)
BeginRun(d) ==
    /\ driver[d].at = "idle"
    /\ MayDrive
    /\ IF run.status = "absent"
       THEN Become(d, [Idle EXCEPT !.at = "insert"])
       ELSE /\ Rerun
            /\ Loading(d, [Idle EXCEPT !.at = "request", !.plan = Steps])
    /\ UNCHANGED <<rows, approval, execKey, history>>

(* INSERT under unique(organization_id, idempotency_key).  The run and its *)
(* plan are committed by the audit record, before mark_run_started.        *)
InsertRun(d) ==
    LET new == WithRun(NewView, "pending") IN
    /\ driver[d].at = "insert"
    /\ IF run.status = "absent"
       THEN /\ run' = new.run
            /\ Become(d, [Idle EXCEPT !.at = "request", !.plan = Steps,
                                      !.base = new, !.view = WithRun(new, "running")])
       ELSE UNCHANGED run /\ Leave(d)
    /\ UNCHANGED <<step, approval, execKey, history>>

-----------------------------------------------------------------------------
(* run_workflow_plan                                                       *)

(* "UPDATE ... WHERE status = 'pending'": only a pending row is decided.    *)
DecidableAlways(a) == approval[a].status # "absent"

Decidable(a) == approval[a].status = "pending"

Fresh == {a \in Approvals : approval[a].status = "absent"}

(* Approvals are numbered in the order in which they are created.          *)
NextId(a) == a \in Fresh /\ \A b \in Fresh : a <= b

(* build_workflow_step_idempotency_key: the attempt is part of the key.     *)
StepKeyOfStep(tries) == 1

StepKey(tries) == tries + 1

(* The decision of a step in the plan that its driver works on.            *)
MustAwaitAtStart(i, local) == i \in Gated /\ local.plan = Steps

MustAwait(i, local) == i \in Gated /\ local.mode # "remaining"

(* request_approval commits the step's key with the new approval; a step   *)
(* that requires approval then stops the run, any other one goes on.       *)
RequestApproval(d, a) ==
    LET l == driver[d]
        i == NextStep(l.plan)
        requested == [l.view EXCEPT !.step[i].key = StepKey(l.view.step[i].tries)]
        linked == [requested EXCEPT !.step[i].link = a]
        stopped == [WithRun(WithStep(linked, i, "awaiting_approval"), "awaiting_approval")
                        EXCEPT !.run.current = i] IN
    /\ l.at = "request"
    /\ NextId(a)
    /\ Commit(requested, l.base)
    /\ approval' = [approval EXCEPT ![a] = [status |-> "pending", step |-> i]]
    /\ Become(d, IF MustAwait(i, l)
                 THEN [l EXCEPT !.at = "finish", !.base = requested, !.view = stopped]
                 ELSE [l EXCEPT !.at = "approve", !.job = a, !.base = requested, !.view = linked])
    /\ UNCHANGED <<execKey, history>>

(* approve_approval by the driver itself.  If the approval was decided in  *)
(* the meantime, the rollback expires every object and the driver fails at *)
(* the next attribute it reads.                                            *)
ApproveOwn(d) ==
    LET l == driver[d] IN
    /\ l.at = "approve"
    /\ IF Decidable(l.job)
       THEN /\ approval' = [approval EXCEPT ![l.job].status = "approved"]
            /\ Commit(l.view, l.base)
            /\ Become(d, [l EXCEPT !.at = "create", !.base = l.view])
       ELSE Leave(d) /\ UNCHANGED <<approval, rows>>
    /\ UNCHANGED <<execKey, history>>

-----------------------------------------------------------------------------
(* _execute_approved_step                                                  *)

KeyFree(i, key) == \A b \in Approvals : execKey[b] # key \/ approval[b].step # i

(* create_execution commits the started step with the execution, unique by *)
(* approval and by key.  On a conflict it rolls back and returns the       *)
(* execution that exists, and its caller ignores that it was not created.  *)
CreateExecution(d) ==
    LET l == driver[d]
        i == NextStep(l.plan)
        started == [WithStep(l.view, i, "running")
                        EXCEPT !.step[i].tries = l.view.step[i].tries + 1]
        key == l.view.step[i].key IN
    /\ l.at = "create"
    /\ IF execKey[l.job] = 0 /\ KeyFree(i, key)
       THEN /\ execKey' = [execKey EXCEPT ![l.job] = key]
            /\ Commit(started, l.base)
            /\ Become(d, [l EXCEPT !.at = "act", !.base = started, !.view = started])
       ELSE /\ Become(d, [l EXCEPT !.at = "act again"])
            /\ UNCHANGED <<execKey, rows>>
    /\ UNCHANGED <<approval, history>>

Perform(a) == acts' = [acts EXCEPT ![a] = @ + 1]

(* dispatch_workflow_step_handler: a step without handler is skipped.      *)
Dispatch(d) ==
    IF NextStep(driver[d].plan) \in Handled THEN Perform(driver[d].job) ELSE UNCHANGED acts

(* What a resumed approval goes on with: the later steps, now loaded, that *)
(* are still pending.                                                      *)
Relisted(local, i) ==
    LET reload(view) == [view EXCEPT !.step = [j \in Steps |-> IF j = i THEN view.step[i]
                                                                ELSE step[j]]] IN
    [local EXCEPT !.mode = "remaining", !.base = reload(@), !.view = reload(@),
                  !.plan = {j \in Steps : j > i /\ step[j].status = "pending"}]

(* The handler returned: the step is done in the session, to be committed  *)
(* with whatever comes next.                                               *)
CompleteStep(d) ==
    LET l == driver[d]
        i == NextStep(l.plan)
        done == [WithStep(l.view, i, IF i \in Handled THEN "succeeded" ELSE "skipped")
                    EXCEPT !.step[i].link = l.job, !.run.current = i + 1]
        rest == [l EXCEPT !.view = done, !.plan = l.plan \ {i}] IN
    /\ l.at = "act"
    /\ Dispatch(d)
    /\ Become(d, Onward(IF l.mode = "approved" THEN Relisted(rest, i) ELSE rest))
    /\ UNCHANGED <<rows, approval, execKey, granted, refused>>

(* The handler raised or timed out, before or after it acted.  The failure *)
(* is committed only by the dead-letter capture.                           *)
FailStep(d) ==
    LET l == driver[d]
        i == NextStep(l.plan) IN
    /\ l.at = "act"
    /\ i \in Handled
    /\ Dispatch(d) \/ UNCHANGED acts
    /\ Become(d, [l EXCEPT !.at = "finish",
                  !.view = [WithRun(WithStep(l.view, i, "failed"), "failed")
                                EXCEPT !.step[i].link = l.job]])
    /\ UNCHANGED <<rows, approval, execKey, granted, refused>>

(* After a rolled-back INSERT the handler still runs; then the driver dies *)
(* of the first attribute it reads of an expired object.                   *)
ActAgain(d) ==
    /\ driver[d].at = "act again"
    /\ Dispatch(d) \/ UNCHANGED acts
    /\ Leave(d)
    /\ UNCHANGED <<rows, approval, execKey, granted, refused>>

-----------------------------------------------------------------------------
(* Deciding an approval                                                    *)

(* The approve endpoint has found the approval pending.  With the note     *)
(* YES EXECUTE it hands it to execute_approval, which has no handler for   *)
(* workflow steps, instead of resuming the run.                            *)
BeginApprove(d, a) ==
    /\ driver[d].at = "idle"
    /\ approval[a].status = "pending"
    /\ \/ MayDrive /\ Become(d, [Idle EXCEPT !.at = "decide", !.job = a])
       \/ Become(d, [Idle EXCEPT !.at = "handover", !.job = a])
    /\ UNCHANGED <<rows, approval, execKey, history>>

Approve(d) ==
    LET a == driver[d].job IN
    /\ driver[d].at \in {"decide", "handover"}
    /\ IF Decidable(a)
       THEN /\ approval' = [approval EXCEPT ![a].status = "approved"]
            /\ granted' = granted \cup {a}
            /\ IF driver[d].at = "decide"
               THEN Become(d, [driver[d] EXCEPT !.at = "lookup"])
               ELSE Leave(d)
       ELSE Leave(d) /\ UNCHANGED <<approval, granted>>
    /\ UNCHANGED <<rows, execKey, refused, acts>>

LinkedTo(a) == {i \in Steps : step[i].link = a}

(* resume_workflow_run_from_approval finds the step by its approval_id.    *)
LookUp(d) ==
    LET a == driver[d].job IN
    /\ driver[d].at = "lookup"
    /\ IF LinkedTo(a) # {}
       THEN Loading(d, [driver[d] EXCEPT !.at = "create", !.mode = "approved",
                                         !.plan = {NextStep(LinkedTo(a))}])
       ELSE Leave(d)
    /\ UNCHANGED <<rows, approval, execKey, history>>

BeginReject(d, a) ==
    /\ driver[d].at = "idle"
    /\ approval[a].status = "pending"
    /\ Become(d, [Idle EXCEPT !.at = "reject", !.job = a])
    /\ UNCHANGED <<rows, approval, execKey, history>>

Reject(d) ==
    LET a == driver[d].job IN
    /\ driver[d].at = "reject"
    /\ IF Decidable(a)
       THEN /\ approval' = [approval EXCEPT ![a].status = "rejected"]
            /\ refused' = refused \cup {a}
            /\ Become(d, [driver[d] EXCEPT !.at = "unlink"])
       ELSE Leave(d) /\ UNCHANGED <<approval, refused>>
    /\ UNCHANGED <<rows, execKey, granted, acts>>

(* reject_workflow_run_from_approval.                                      *)
CancelStep(d) ==
    LET linked == LinkedTo(driver[d].job) IN
    /\ driver[d].at = "unlink"
    /\ IF linked # {}
       THEN Become(d, [driver[d] EXCEPT !.at = "overwrite", !.base = Database,
                !.view = WithRun(WithStep(Database, NextStep(linked), "cancelled"), "failed")])
       ELSE Leave(d)
    /\ UNCHANGED <<rows, approval, execKey, history>>

(* The expiry sweep does not touch the run.                                *)
Expire(a) ==
    /\ approval[a].status = "pending"
    /\ approval' = [approval EXCEPT ![a].status = "rejected"]
    /\ refused' = refused \cup {a}
    /\ UNCHANGED <<rows, execKey, driver, granted, acts>>

-----------------------------------------------------------------------------
(* Pause, retry, resume and recovery: each loads the run and acts on it.   *)

Overwrite(d, status) ==
    Become(d, [Idle EXCEPT !.at = "overwrite", !.base = Database,
                           !.view = WithRun(Database, status)])

BeginPause(d) ==
    /\ driver[d].at = "idle"
    /\ run.status \in {"running", "awaiting_approval"}
    /\ Overwrite(d, "paused")
    /\ UNCHANGED <<rows, approval, execKey, history>>

BeginRetry(d) ==
    /\ driver[d].at = "idle"
    /\ run.status \in {"failed", "paused", "retry_wait"}
    /\ Overwrite(d, "retry_wait")
    /\ UNCHANGED <<rows, approval, execKey, history>>

(* should_mark_run_stuck: heartbeats of a run that somebody drives are     *)
(* younger than WORKFLOW_HEARTBEAT_TIMEOUT_SECONDS.                        *)
Stuck == run.status = "running" /\ \A d \in Drivers : ~Driving(d)

BeginFailStuck(d) ==
    /\ driver[d].at = "idle"
    /\ Stuck
    /\ Overwrite(d, "failed")
    /\ UNCHANGED <<rows, approval, execKey, history>>

(* resume_workflow_run, or the recovery job with a run whose retry is due. *)
ResumableByUser == {"paused"}

Resumable == {"paused", "retry_wait"}

BeginResume(d) ==
    /\ driver[d].at = "idle"
    /\ MayDrive
    /\ run.status \in Resumable
    /\ Become(d, [Idle EXCEPT !.at = "resume", !.base = Database, !.view = Database])
    /\ UNCHANGED <<rows, approval, execKey, history>>

Done == {"succeeded", "skipped", "cancelled"}

(* Where to start again: the first step not done, else the current one.    *)
StartAfterFailed(current) ==
    LET undone == {i \in Steps : step[i].status \notin Done \cup {"failed"}} IN
    IF undone = {} THEN current ELSE NextStep(undone)

StartIndex(current) ==
    LET undone == {i \in Steps : step[i].status \notin Done} IN
    IF undone = {} THEN current ELSE NextStep(undone)

Reset(i, start) ==
    IF i >= start /\ step[i].status \in {"failed", "running"}
    THEN [step[i] EXCEPT !.status = "pending", !.link = NoApproval]
    ELSE step[i]

(* resume_existing_workflow_run loads the steps of a run loaded before.    *)
ResumeRun(d) ==
    LET l == driver[d]
        loaded == [run |-> l.base.run, step |-> step]
        awaiting == {i \in Steps : step[i].status = "awaiting_approval"}
        start == StartIndex(l.base.run.current)
        again == [run |-> [status |-> "running", current |-> start],
                  step |-> [i \in Steps |-> Reset(i, start)]] IN
    /\ l.at = "resume"
    /\ IF awaiting # {}
       THEN Become(d, [l EXCEPT !.at = "finish", !.base = loaded,
                !.view = [WithRun(loaded, "awaiting_approval")
                            EXCEPT !.run.current = NextStep(awaiting)]])
       ELSE Become(d, Onward([l EXCEPT !.base = loaded, !.plan = {i \in Steps : i >= start},
                !.view = IF start = N THEN loaded ELSE again]))
    /\ UNCHANGED <<rows, approval, execKey, history>>

Crash(d) ==
    /\ MayCrash
    /\ driver[d].at # "idle"
    /\ Leave(d)
    /\ UNCHANGED acts \/ (driver[d].at \in {"act", "act again"} /\ Dispatch(d))
    /\ UNCHANGED <<rows, approval, execKey, granted, refused>>

-----------------------------------------------------------------------------
Begin(d) ==
    \/ BeginRun(d) \/ BeginPause(d) \/ BeginRetry(d)
    \/ \E a \in Approvals : BeginApprove(d, a) \/ BeginReject(d, a)

Recover(d) == BeginFailStuck(d) \/ BeginResume(d)

Continue(d) ==
    \/ InsertRun(d) \/ ApproveOwn(d) \/ CreateExecution(d)
    \/ (\E a \in Approvals : RequestApproval(d, a))
    \/ CompleteStep(d) \/ FailStep(d) \/ ActAgain(d)
    \/ Approve(d) \/ LookUp(d) \/ Reject(d) \/ CancelStep(d)
    \/ ResumeRun(d) \/ CommitAndLeave(d)

Next ==
    \/ \E d \in Drivers : Begin(d) \/ Recover(d) \/ Continue(d) \/ Crash(d)
    \/ \E a \in Approvals : Expire(a)

Spec == Init /\ [][Next]_vars

(* Handlers have timeouts, the recovery job runs again and again in a      *)
(* process of its own, and processes do not die for ever.                  *)
Fairness ==
    /\ \A d \in Drivers : WF_vars(Continue(d))
    /\ SF_vars(\E d \in Drivers : Recover(d))
    /\ <>[][~ \E d \in Drivers : Crash(d)]_vars

FairSpec == Spec /\ Fairness

-----------------------------------------------------------------------------
(* Properties                                                              *)

Acted(a) == acts[a] > 0

(* A step that requires approval acts only after a human granted an        *)
(* approval of that step or of an earlier one of the run.                  *)
GatedNeedsGrant ==
    \A a \in Approvals :
        Acted(a) /\ approval[a].step \in Gated =>
            \E b \in granted : approval[b].step <= approval[a].step

(* "Approval (if step requires_approval)": a step that requires approval   *)
(* acts only under an approval that a human granted.                       *)
GatedNeedsOwnGrant ==
    \A a \in Approvals : Acted(a) /\ approval[a].step \in Gated => a \in granted

(* "enforce idempotency": every action is recorded by an execution of its  *)
(* own, and no other action of the step has the key of that execution.     *)
KeyActsOnce ==
    \A a \in Approvals : Acted(a) =>
        /\ execKey[a] # 0
        /\ \A b \in Approvals \ {a} :
               Acted(b) /\ approval[b].step = approval[a].step => execKey[b] # execKey[a]

(* A completed run has no step left undone: whatever pauses, failures,     *)
(* retries and crashes came before, nothing is skipped over.               *)
CompletedMeansDone ==
    run.status = "completed" => \A i \in Steps : step[i].status \in Done

(* A step recorded as succeeded did act.                                   *)
SucceededActed ==
    \A i \in Steps : step[i].status = "succeeded" =>
        \E a \in Approvals : approval[a].step = i /\ Acted(a)

(* Steps act in order: all before an acting step have acted, have no       *)
(* handler, or were cancelled by a rejection.                              *)
Behind(i) ==
    \/ i \notin Handled
    \/ step[i].status = "cancelled"
    \/ \E a \in Approvals : approval[a].step = i /\ Acted(a)

ActsInOrder ==
    [][\A a \in Approvals : acts'[a] > acts[a] =>
            \A i \in Steps : i < approval[a].step => Behind(i)]_vars

(* A run that is running or waits for its retry comes to rest, unless the  *)
(* bound on approvals is reached.                                          *)
Resting  == {"awaiting_approval", "paused", "completed", "failed"}
OutOfApprovals == Cardinality(Fresh) < N

RunningRests ==
    run.status \in {"running", "retry_wait"} ~> run.status \in Resting \/ OutOfApprovals

(* The approvals of a run seen as the abstract specification.              *)
decision ==
    [a \in Approvals |-> IF approval[a].status = "approved" THEN "granted"
                         ELSE IF approval[a].status = "rejected" THEN "refused" ELSE "open"]

Guarded == INSTANCE GuardedEffect
           WITH Proposals <- Approvals, decision <- decision, effect <- acts

ImplementsGuardedEffect == Guarded!Spec

=============================================================================
