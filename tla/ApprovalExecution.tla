------------------------- MODULE ApprovalExecution -------------------------
(***************************************************************************)
(* Approvals and the one execution each of them may cause: the request     *)
(* endpoint with its pattern-based auto-approval, AI reply drafting, the   *)
(* approve/reject/send endpoints served by concurrent request handlers,    *)
(* the expiry sweep of the scheduler, execute_approval with its handler    *)
(* and e-mail paths, and the executed_at slot they all compete for.        *)
(*                                                                         *)
(* The database is shared state; every action is the code between two      *)
(* commits (or between a read and the await that follows it), so a value   *)
(* read by one action may be stale when a later one uses it.               *)
(*                                                                         *)
(* A microsecond timestamp written to executed_at identifies its writer:   *)
(* the slot holds the worker that claimed it, or Nobody.                   *)
(***************************************************************************)
EXTENDS Naturals, FiniteSets

CONSTANTS
    Approvals,      \* approval rows that may be requested
    Emails,         \* inbox messages a reply can be drafted for
    Workers,        \* API request handlers that may run at the same time
    Keys,           \* Idempotency-Key header values
    Kind,           \* what each approval asks for, see Kinds
    EmailOf,        \* the e-mail named by the payload of a "reply" approval
    RequestKey,     \* the key sent with the request of each approval, or NoKey
    NoKey, NoApproval, Nobody, Requester,
    AutoApproveOn,  \* an auto-approve pattern is enabled in the organization
    MayFail,        \* handlers may crash, be denied by policy, or fail to finalize
    AmbiguousSend   \* the mail API may deliver and still report a failure

(* spend: risky, has a handler.  digest: not risky, has a handler.         *)
(* compose / reply: send_message approvals, risky.  other: no handler.     *)
Kinds == {"spend", "digest", "compose", "reply", "other"}

ASSUME ConstantsAssumption ==
    /\ Kind \in [Approvals -> Kinds]
    /\ EmailOf \in [Approvals -> Emails]
    /\ RequestKey \in [Approvals -> Keys \cup {NoKey}]
    /\ NoKey \notin Keys
    /\ NoApproval \notin Approvals
    /\ Nobody \notin Workers
    /\ Requester \notin Workers
    /\ Requester # Nobody
    /\ "ungranted" \notin Keys \cup {NoKey}
    /\ {AutoApproveOn, MayFail, AmbiguousSend} \subseteq BOOLEAN

Risky(a)      == Kind[a] \in {"spend", "compose", "reply"}
HasHandler(a) == Kind[a] \in {"spend", "digest"}
IsMail(a)     == Kind[a] \in {"compose", "reply"}

VARIABLES
    status,      \* approvals.status; "absent" before the row exists
    approvedBy,  \* approvals.approved_by
    executedAt,  \* approvals.executed_at: the claimant of the execution slot
    execution,   \* the executions row of an approval: status and key
    link,        \* emails.approval_id
    replySent,   \* emails.reply_sent
    rpc,         \* where the request (or draft) that creates an approval is
    worker,      \* the local state of each API worker, see WorkerType
    granted,     \* history: the key an approve endpoint granted it with
    refused,     \* history: a reject or the expiry sweep decided it
    effects,     \* history: side effects performed under its slot
    orphans      \* slots whose send timed out while the thread still runs

requestVars == <<status, approvedBy, link, rpc, granted, refused>>
effectVars  == <<executedAt, execution, replySent, effects, orphans>>
vars == <<requestVars, worker, effectVars>>

NoExecution == [status |-> "none", key |-> NoKey]
Ungranted   == "ungranted"

RequestSteps == {"idle", "replayed", "checked", "created", "keyed",
                 "drafting", "drafted", "linked", "done", "lost"}
WorkerSteps  == {"idle", "decide", "reject", "create", "load", "claim",
                 "running", "sending", "release", "mark", "finalize"}
Outcomes     == {"succeeded", "failed", "skipped"}

(* at: the next step of the approve, reject or send handler it serves;     *)
(* job: the approval it decides on or executes; slot: the approval whose   *)
(* executed_at it claims; key: the Idempotency-Key of a YES EXECUTE, or    *)
(* NoKey; result: the outcome it is about to report.                       *)
LocalsType ==
    [at : WorkerSteps, job : Approvals \cup {NoApproval},
     slot : Approvals \cup {NoApproval}, key : Keys \cup {NoKey},
     result : Outcomes]

JobSteps  == {"decide", "reject", "create", "load", "finalize"}
SlotSteps == {"load", "claim", "running", "sending", "release", "mark"}
HoldSteps == {"running", "sending", "release", "mark"}

Assigned(r) ==
    /\ r.at \in JobSteps => r.job \in Approvals
    /\ r.at \in SlotSteps => r.slot \in Approvals

WorkerType == {r \in LocalsType : Assigned(r)}

NoWork == [at |-> "idle", job |-> NoApproval, slot |-> NoApproval,
           key |-> NoKey, result |-> "skipped"]

TypeOK ==
    /\ status \in [Approvals -> {"absent", "pending", "approved", "rejected"}]
    /\ approvedBy \in [Approvals -> Workers \cup {Requester, Nobody}]
    /\ executedAt \in [Approvals -> Workers \cup {Nobody}]
    /\ execution \in [Approvals -> [status : {"none", "running"} \cup Outcomes,
                                    key : Keys \cup {NoKey}]]
    /\ link \in [Emails -> Approvals \cup {NoApproval}]
    /\ replySent \in [Emails -> BOOLEAN]
    /\ rpc \in [Approvals -> RequestSteps]
    /\ worker \in [Workers -> WorkerType]
    /\ granted \in [Approvals -> Keys \cup {NoKey, Ungranted}]
    /\ refused \in [Approvals -> BOOLEAN]
    /\ effects \in [Approvals -> Nat]
    /\ orphans \in SUBSET Approvals

Init ==
    /\ status = [a \in Approvals |-> "absent"]
    /\ approvedBy = [a \in Approvals |-> Nobody]
    /\ executedAt = [a \in Approvals |-> Nobody]
    /\ execution = [a \in Approvals |-> NoExecution]
    /\ link = [e \in Emails |-> NoApproval]
    /\ replySent = [e \in Emails |-> FALSE]
    /\ rpc = [a \in Approvals |-> "idle"]
    /\ worker = [w \in Workers |-> NoWork]
    /\ granted = [a \in Approvals |-> Ungranted]
    /\ refused = [a \in Approvals |-> FALSE]
    /\ effects = [a \in Approvals |-> 0]
    /\ orphans = {}

-----------------------------------------------------------------------------
(* POST /approvals/request, one handler per approval it would create.      *)

KeyStored(a) == RequestKey[a] # NoKey /\ rpc[a] \in {"keyed", "done"}

MoveRequest(a, from, to) ==
    /\ rpc[a] = from
    /\ rpc' = [rpc EXCEPT ![a] = to]

(* A reply is drafted or requested like any other type; an e-mail draft    *)
(* carries no Idempotency-Key down to this table.                          *)
CheckRequestKey(a) ==
    /\ MoveRequest(a, "idle",
            IF RequestKey[a] # NoKey
               /\ \E b \in Approvals : KeyStored(b) /\ RequestKey[b] = RequestKey[a]
            THEN "replayed" ELSE "checked")
    /\ UNCHANGED <<status, approvedBy, link, granted, refused, worker, effectVars>>

CreateRequest(a) ==
    /\ MoveRequest(a, "checked", "created")
    /\ status' = [status EXCEPT ![a] = "pending"]
    /\ UNCHANGED <<approvedBy, link, granted, refused, worker, effectVars>>

StoreRequestKey(a) ==
    /\ RequestKey[a] # NoKey
    /\ MoveRequest(a, "created", "keyed")
    /\ UNCHANGED <<status, approvedBy, link, granted, refused, worker, effectVars>>

PatternReady(a) == rpc[a] = IF RequestKey[a] = NoKey THEN "created" ELSE "keyed"

(* Mutant of AutoApprove: risky approvals are auto-approved too.           *)
AutoApproveAny(a) ==
    /\ AutoApproveOn
    /\ PatternReady(a)
    /\ rpc' = [rpc EXCEPT ![a] = "done"]
    /\ status' = [status EXCEPT ![a] = "approved"]
    /\ approvedBy' = [approvedBy EXCEPT ![a] = Requester]
    /\ UNCHANGED <<link, granted, refused, worker, effectVars>>

(* The ORM writes the status back without looking at the row again.        *)
AutoApprove(a) ==
    /\ AutoApproveOn
    /\ ~Risky(a)
    /\ PatternReady(a)
    /\ rpc' = [rpc EXCEPT ![a] = "done"]
    /\ status' = [status EXCEPT ![a] = "approved"]
    /\ approvedBy' = [approvedBy EXCEPT ![a] = Requester]
    /\ UNCHANGED <<link, granted, refused, worker, effectVars>>

LeavePending(a) ==
    /\ PatternReady(a)
    /\ rpc' = [rpc EXCEPT ![a] = "done"]
    /\ UNCHANGED <<status, approvedBy, link, granted, refused, worker, effectVars>>

(* draft_reply: claim the e-mail row, ask the AI, request the approval     *)
(* (whose commit ends the transaction that held the row lock), then link.  *)
RowLocked(e) == \E b \in Approvals : EmailOf[b] = e /\ rpc[b] = "drafting"

StartDraft(a) ==
    /\ Kind[a] = "reply"
    /\ RequestKey[a] = NoKey
    /\ link[EmailOf[a]] = NoApproval
    /\ ~RowLocked(EmailOf[a])
    /\ MoveRequest(a, "idle", "drafting")
    /\ UNCHANGED <<status, approvedBy, link, granted, refused, worker, effectVars>>

RequestDraft(a) ==
    /\ MoveRequest(a, "drafting", "drafted")
    /\ status' = [status EXCEPT ![a] = "pending"]
    /\ UNCHANGED <<approvedBy, link, granted, refused, worker, effectVars>>

LinkDraft(a) ==
    /\ ~RowLocked(EmailOf[a])
    /\ MoveRequest(a, "drafted", "linked")
    /\ link' = [link EXCEPT ![EmailOf[a]] = a]
    /\ UNCHANGED <<status, approvedBy, granted, refused, worker, effectVars>>

(* The process serving the request dies: what is committed stays.          *)
LoseRequest(a) ==
    /\ MayFail
    /\ rpc[a] \in {"checked", "created", "keyed", "drafting", "drafted"}
    /\ rpc' = [rpc EXCEPT ![a] = IF rpc[a] = "keyed" THEN "done" ELSE "lost"]
    /\ UNCHANGED <<status, approvedBy, link, granted, refused, worker, effectVars>>

Request(a) ==
    \/ CheckRequestKey(a) \/ CreateRequest(a) \/ StoreRequestKey(a)
    \/ AutoApprove(a) \/ LeavePending(a)
    \/ StartDraft(a) \/ RequestDraft(a) \/ LinkDraft(a) \/ LoseRequest(a)

-----------------------------------------------------------------------------
(* Deciding: the approve and reject endpoints and the expiry sweep.        *)

Goto(w, step) == worker' = [worker EXCEPT ![w].at = step]

GotoSlot(w, step, s) ==
    worker' = [worker EXCEPT ![w] = [@ EXCEPT !.at = step, !.slot = s]]

(* The request handler returns: its locals are gone.                       *)
Leave(w) == worker' = [worker EXCEPT ![w] = NoWork]

(* approve, up to its last read: no execution under the key yet, approval  *)
(* pending, risky ones only with YES EXECUTE (a key k other than NoKey).   *)
BeginApprove(w, a, k) ==
    /\ worker[w].at = "idle"
    /\ status[a] = "pending"
    /\ Risky(a) => k # NoKey
    /\ k # NoKey => \A b \in Approvals : execution[b].key # k
    /\ worker' = [worker EXCEPT ![w] = [@ EXCEPT !.at = "decide", !.job = a, !.key = k]]
    /\ UNCHANGED <<requestVars, effectVars>>

(* approve_approval: UPDATE ... WHERE status = 'pending'.                  *)
Approve(w) ==
    LET a == worker[w].job
        k == worker[w].key IN
    /\ worker[w].at = "decide"
    /\ IF status[a] = "pending"
       THEN /\ status' = [status EXCEPT ![a] = "approved"]
            /\ approvedBy' = [approvedBy EXCEPT ![a] = w]
            /\ granted' = [granted EXCEPT ![a] = k]
            /\ IF k = NoKey THEN Leave(w) ELSE Goto(w, "create")
       ELSE /\ Leave(w)
            /\ UNCHANGED <<status, approvedBy, granted>>
    /\ UNCHANGED <<link, rpc, refused, effectVars>>

BeginReject(w, a) ==
    /\ worker[w].at = "idle"
    /\ status[a] = "pending"
    /\ worker' = [worker EXCEPT ![w] = [@ EXCEPT !.at = "reject", !.job = a]]
    /\ UNCHANGED <<requestVars, effectVars>>

(* reject_approval: UPDATE ... WHERE status = 'pending'.                   *)
Reject(w) ==
    LET a == worker[w].job IN
    /\ worker[w].at = "reject"
    /\ Leave(w)
    /\ IF status[a] = "pending"
       THEN /\ status' = [status EXCEPT ![a] = "rejected"]
            /\ approvedBy' = [approvedBy EXCEPT ![a] = w]
            /\ refused' = [refused EXCEPT ![a] = TRUE]
       ELSE UNCHANGED <<status, approvedBy, refused>>
    /\ UNCHANGED <<link, rpc, granted, effectVars>>

(* auto_reject_expired_approvals: one UPDATE over every overdue row.       *)
ExpireOverdue(overdue) ==
    /\ overdue # {}
    /\ \A a \in overdue : status[a] = "pending"
    /\ status' = [a \in Approvals |-> IF a \in overdue THEN "rejected" ELSE status[a]]
    /\ refused' = [a \in Approvals |-> a \in overdue \/ refused[a]]
    /\ UNCHANGED <<approvedBy, link, rpc, granted, worker, effectVars>>

-----------------------------------------------------------------------------
(* execute_approval, run by the worker that won the approve UPDATE.        *)

(* A ValueError from the autonomy policy leaves the approval unexecuted.   *)
DenyByPolicy(w) ==
    /\ MayFail
    /\ worker[w].at = "create"
    /\ Leave(w)
    /\ UNCHANGED <<requestVars, effectVars>>

(* create_execution: INSERT under unique(approval_id) and unique(org, key);*)
(* on a conflict the handler returns without executing.                    *)
CreateExecution(w) ==
    LET a == worker[w].job
        k == worker[w].key IN
    /\ worker[w].at = "create"
    /\ IF execution[a].status = "none" /\ \A b \in Approvals : execution[b].key # k
       THEN /\ execution' = [execution EXCEPT ![a] = [status |-> "running", key |-> k]]
            /\ GotoSlot(w, IF IsMail(a) THEN "load"
                           ELSE IF HasHandler(a) THEN "claim" ELSE "finalize", a)
       ELSE Leave(w) /\ UNCHANGED execution
    /\ UNCHANGED <<executedAt, replySent, effects, orphans, requestVars>>

(* Mutant of Report: /send is finalized as if it had an execution.         *)
ReportAlways(w, outcome) ==
    worker' = [worker EXCEPT ![w] = [@ EXCEPT !.at = "finalize", !.result = outcome]]

(* The outcome goes to the execution row; /send has none and just answers. *)
Report(w, outcome) ==
    IF worker[w].job = NoApproval
    THEN Leave(w)
    ELSE worker' = [worker EXCEPT ![w] = [@ EXCEPT !.at = "finalize", !.result = outcome]]

(* Mutant of ReplySendable: the status of the approval is not looked at.   *)
ReplyLinked(e) ==
    /\ ~replySent[e]
    /\ link[e] \in Approvals
    /\ Kind[link[e]] = "reply" /\ EmailOf[link[e]] = e

(* send_approved_reply looks the approval up through the e-mail row.       *)
ReplySendable(e) ==
    /\ ~replySent[e]
    /\ link[e] \in Approvals
    /\ status[link[e]] = "approved"
    /\ Kind[link[e]] = "reply" /\ EmailOf[link[e]] = e

LoadReply(w) ==
    LET e == EmailOf[worker[w].job] IN
    /\ worker[w].at = "load"
    /\ Kind[worker[w].job] = "reply"
    /\ IF ReplySendable(e)
       THEN GotoSlot(w, "claim", link[e])
       ELSE Report(w, "failed")
    /\ UNCHANGED <<requestVars, effectVars>>

(* send_approved_compose blocks a payload without recipient or body.       *)
LoadCompose(w) ==
    /\ worker[w].at = "load"
    /\ Kind[worker[w].job] = "compose"
    /\ Goto(w, "claim") \/ Report(w, "failed")
    /\ UNCHANGED <<requestVars, effectVars>>

(* POST /email/{id}/send calls send_approved_reply without an execution.   *)
BeginSend(w, e) ==
    /\ worker[w].at = "idle"
    /\ ReplySendable(e)
    /\ GotoSlot(w, "claim", link[e])
    /\ UNCHANGED <<requestVars, effectVars>>

(* Mutant of ClaimSlot: the UPDATE lost its executed_at IS NULL condition. *)
ClaimAnyway(w) ==
    LET s == worker[w].slot IN
    /\ worker[w].at = "claim"
    /\ executedAt' = [executedAt EXCEPT ![s] = w]
    /\ Goto(w, IF IsMail(s) THEN "sending" ELSE "running")
    /\ UNCHANGED <<execution, replySent, effects, orphans, requestVars>>

(* UPDATE ... SET executed_at = now WHERE executed_at IS NULL.             *)
ClaimSlot(w) ==
    LET s == worker[w].slot IN
    /\ worker[w].at = "claim"
    /\ IF executedAt[s] = Nobody
       THEN /\ executedAt' = [executedAt EXCEPT ![s] = w]
            /\ Goto(w, IF IsMail(s) THEN "sending" ELSE "running")
       ELSE /\ Report(w, IF IsMail(s) THEN "failed" ELSE "skipped")
            /\ UNCHANGED executedAt
    /\ UNCHANGED <<execution, replySent, effects, orphans, requestVars>>

Perform(a) == effects' = [effects EXCEPT ![a] = @ + 1]

(* _run_handler: it returns, or raises or times out before or after acting.*)
RunHandler(w, outcome) ==
    /\ worker[w].at = "running"
    /\ outcome \in {"succeeded", "failed"}
    /\ \/ Perform(worker[w].slot)
       \/ outcome = "failed" /\ UNCHANGED effects
    /\ Report(w, outcome)
    /\ UNCHANGED <<executedAt, execution, replySent, orphans, requestVars>>

SendDelivered(w) ==
    /\ worker[w].at = "sending"
    /\ Perform(worker[w].slot)
    /\ IF Kind[worker[w].slot] = "reply" THEN Goto(w, "mark") ELSE Report(w, "succeeded")
    /\ UNCHANGED <<executedAt, execution, replySent, orphans, requestVars>>

(* Gmail is not connected, or gmail_tool.send_email returned False.  It    *)
(* also does so for an OSError raised after the request went out.          *)
SendRefused(w) ==
    /\ worker[w].at = "sending"
    /\ \/ UNCHANGED effects
       \/ AmbiguousSend /\ Perform(worker[w].slot)
    /\ Goto(w, "release")
    /\ UNCHANGED <<executedAt, execution, replySent, orphans, requestVars>>

(* Mutant of SendTimedOut: a timeout releases the slot like a refusal.     *)
TimeoutReleases(w) ==
    /\ worker[w].at = "sending"
    /\ orphans' = orphans \cup {worker[w].slot}
    /\ Goto(w, "release")
    /\ UNCHANGED <<executedAt, execution, replySent, effects, requestVars>>

(* asyncio.wait_for gives up; the thread it started goes on.               *)
SendTimedOut(w) ==
    /\ worker[w].at = "sending"
    /\ orphans' = orphans \cup {worker[w].slot}
    /\ Report(w, "failed")
    /\ UNCHANGED <<executedAt, execution, replySent, effects, requestVars>>

OrphanEnds(a) ==
    /\ a \in orphans
    /\ orphans' = orphans \ {a}
    /\ Perform(a) \/ UNCHANGED effects
    /\ UNCHANGED <<executedAt, execution, replySent, worker, requestVars>>

(* Mutant of ReleaseSlot: the failure is recorded as a success.            *)
ReleaseAsSent(w) ==
    /\ worker[w].at = "release"
    /\ executedAt' = [executedAt EXCEPT ![worker[w].slot] = IF @ = w THEN Nobody ELSE @]
    /\ Report(w, "succeeded")
    /\ UNCHANGED <<execution, replySent, effects, orphans, requestVars>>

(* UPDATE ... SET executed_at = NULL WHERE executed_at = claim_ts.         *)
ReleaseSlot(w) ==
    /\ worker[w].at = "release"
    /\ executedAt' = [executedAt EXCEPT ![worker[w].slot] = IF @ = w THEN Nobody ELSE @]
    /\ Report(w, "failed")
    /\ UNCHANGED <<execution, replySent, effects, orphans, requestVars>>

(* Mutant of MarkReplySent: the execution is never finalized.              *)
MarkAndLeave(w) ==
    /\ worker[w].at = "mark"
    /\ replySent' = [replySent EXCEPT ![EmailOf[worker[w].slot]] = TRUE]
    /\ Leave(w)
    /\ UNCHANGED <<executedAt, execution, effects, orphans, requestVars>>

(* send_approved_reply records that the reply went out.                    *)
MarkReplySent(w) ==
    /\ worker[w].at = "mark"
    /\ replySent' = [replySent EXCEPT ![EmailOf[worker[w].slot]] = TRUE]
    /\ Report(w, "succeeded")
    /\ UNCHANGED <<executedAt, execution, effects, orphans, requestVars>>

(* _finalize_execution swallows database errors: the row stays "running".  *)
FinalizeExecution(w) ==
    /\ worker[w].at = "finalize"
    /\ \/ execution' = [execution EXCEPT ![worker[w].job].status = worker[w].result]
       \/ MayFail /\ UNCHANGED execution
    /\ Leave(w)
    /\ UNCHANGED <<executedAt, replySent, effects, orphans, requestVars>>

(* The server process dies; a side effect under way may have happened.     *)
Crash(w) ==
    /\ MayFail
    /\ worker[w].at # "idle"
    /\ Leave(w)
    /\ \/ UNCHANGED effects
       \/ worker[w].at \in {"running", "sending"} /\ Perform(worker[w].slot)
    /\ UNCHANGED <<executedAt, execution, replySent, orphans, requestVars>>

-----------------------------------------------------------------------------
Begin(w) ==
    \/ \E a \in Approvals, k \in Keys \cup {NoKey} : BeginApprove(w, a, k)
    \/ \E a \in Approvals : BeginReject(w, a)
    \/ \E e \in Emails : BeginSend(w, e)

(* The steps a handler takes once it has been called and is not killed.    *)
Continue(w) ==
    \/ Approve(w) \/ Reject(w) \/ CreateExecution(w)
    \/ LoadReply(w) \/ LoadCompose(w) \/ ClaimSlot(w)
    \/ \E outcome \in Outcomes : RunHandler(w, outcome)
    \/ SendDelivered(w) \/ SendRefused(w) \/ SendTimedOut(w)
    \/ ReleaseSlot(w) \/ MarkReplySent(w) \/ FinalizeExecution(w)

Next ==
    \/ \E a \in Approvals : Request(a) \/ OrphanEnds(a)
    \/ \E overdue \in SUBSET Approvals : ExpireOverdue(overdue)
    \/ \E w \in Workers : Begin(w) \/ Continue(w) \/ DenyByPolicy(w) \/ Crash(w)

Spec == Init /\ [][Next]_vars

(* A handler that is not killed runs on: its awaits all have timeouts.     *)
Fairness == \A w \in Workers : WF_vars(Continue(w))

FairSpec == Spec /\ Fairness

-----------------------------------------------------------------------------
(* Properties                                                              *)

(* No approval is carried out twice, whatever approvers, /send retries,    *)
(* timeouts and crashes compete for its executed_at slot.                  *)
AtMostOnce == \A a \in Approvals : effects[a] <= 1

(* A side effect needs a CEO or ADMIN who granted its approval with an     *)
(* explicit YES EXECUTE (an idempotency key); an approval that was         *)
(* rejected or expired never acts, even if its status is overwritten.      *)
EffectNeedsGrant ==
    \A a \in Approvals :
        effects[a] > 0 => granted[a] \in Keys /\ ~refused[a]

(* An execution recorded as succeeded did act: its handler ran, or a reply *)
(* to the e-mail it names was delivered.                                   *)
Realized(a) ==
    \/ Kind[a] # "reply" /\ effects[a] > 0
    \/ Kind[a] = "reply" /\ \E b \in Approvals :
            Kind[b] = "reply" /\ EmailOf[b] = EmailOf[a] /\ effects[b] > 0

SucceededIsReal ==
    \A a \in Approvals : execution[a].status = "succeeded" => Realized(a)

(* The executed_at slot is handed back only when nothing was sent under it *)
(* and no timed-out send may still be running ("only release if our        *)
(* claim_ts still matches").                                               *)
ReleasedUnused ==
    [][\A a \in Approvals :
        executedAt[a] # Nobody /\ executedAt'[a] = Nobody
            => effects[a] = 0 /\ a \notin orphans]_vars

(* approve, reject and the sweep only move a pending row, so the decision  *)
(* on a risky approval is final.                                           *)
Decided(a) == status[a] \in {"approved", "rejected"}

RiskyDecisionFinal ==
    [][\A a \in Approvals : Risky(a) /\ Decided(a) => status'[a] = status[a]]_vars

(* draft_reply claims the e-mail row to prevent "a race between two        *)
(* concurrent draft_reply() calls that both see approval_id=None": an      *)
(* e-mail gets one approval.                                               *)
DraftedOnce ==
    \A a, b \in Approvals :
        /\ EmailOf[a] = EmailOf[b]
        /\ rpc[a] \in {"drafted", "linked"} /\ rpc[b] \in {"drafted", "linked"}
        => a = b

(* A granted approval ends in a finished execution, unless its key already *)
(* belongs to the execution of another approval.                           *)
Finished(a) == execution[a].status \in Outcomes

KeyTaken(a) == \E b \in Approvals \ {a} : execution[b].key = granted[a]

GrantedIsExecuted ==
    \A a \in Approvals : granted[a] \in Keys ~> Finished(a) \/ KeyTaken(a)

(* What is granted and carried out, seen as the abstract specification.    *)
decision ==
    [a \in Approvals |-> IF granted[a] # Ungranted THEN "granted"
                         ELSE IF refused[a] THEN "refused" ELSE "open"]

Guarded == INSTANCE GuardedEffect
           WITH Proposals <- Approvals, decision <- decision, effect <- effects

(* The approval subsystem implements the abstract promise.                 *)
ImplementsGuardedEffect == Guarded!Spec

-----------------------------------------------------------------------------
(* The inductive invariant behind the safety properties.                   *)

Granted(a) == granted[a] \in Keys

(* Where a row stands and what decided it.                                 *)
DecisionInv ==
    \A a \in Approvals :
        /\ rpc[a] \in {"idle", "replayed", "checked", "drafting"} => status[a] = "absent"
        /\ status[a] \in {"absent", "pending"} => granted[a] = Ungranted /\ ~refused[a]
        /\ granted[a] # Ungranted => status[a] = "approved" /\ ~refused[a]
        /\ Risky(a) /\ status[a] = "approved" => Granted(a)

(* Only a mail client that may deliver and report a failure lets a slot be *)
(* used again, and only that of a reply: everything else is executed once. *)
MayRepeat(a) == AmbiguousSend /\ Kind[a] = "reply"

Unused(a) == a \notin orphans /\ (~MayRepeat(a) => effects[a] = 0)

Unsent(a) == a \notin orphans /\ (~AmbiguousSend => effects[a] = 0)

Untouched(a) ==
    Kind[a] # "reply" => executedAt[a] = Nobody /\ effects[a] = 0 /\ a \notin orphans

(* A slot is empty only if nothing is known to have been sent under it,    *)
(* and it is used only for what was granted and, but for a reply, only by  *)
(* the execution of its own approval.                                      *)
SlotInv ==
    \A a \in Approvals :
        /\ executedAt[a] = Nobody => Unsent(a)
        /\ executedAt[a] # Nobody \/ effects[a] > 0 => Granted(a)
        /\ ~MayRepeat(a) => effects[a] \in {0, 1} /\ (a \in orphans => effects[a] = 0)
        /\ execution[a].status = "none" => Untouched(a)

(* What a worker may rely on at each step of its handler.                  *)
Executing(w) ==
    worker[w].at \in SlotSteps \cup {"finalize"} /\ worker[w].job # NoApproval

JobInv(w) ==
    LET a == worker[w].job
        at == worker[w].at IN
    /\ at = "idle" => worker[w] = NoWork
    /\ at = "decide" /\ Risky(a) => worker[w].key \in Keys
    /\ at = "create" => Granted(a)
    /\ at = "load" => IsMail(a)
    /\ at # "finalize" => worker[w].result = "skipped"
    /\ at = "finalize" /\ worker[w].result = "succeeded" => Realized(a)
    /\ Executing(w) => execution[a].status # "none"

(* A reply may be sent under the approval its e-mail is linked to; /send   *)
(* has no approval of its own (NoApproval) to execute.                     *)
SameTarget(a, s) ==
    IF a = NoApproval
    THEN Kind[s] = "reply"
    ELSE /\ Granted(a) /\ Kind[a] = Kind[s]
         /\ IF Kind[a] = "reply" THEN EmailOf[a] = EmailOf[s] ELSE s = a

SlotHeld(w) ==
    LET s == worker[w].slot
        at == worker[w].at IN
    /\ at \in SlotSteps => Granted(s) /\ SameTarget(worker[w].job, s)
    /\ at \in {"load", "claim"} => Untouched(s)
    /\ at \in HoldSteps => executedAt[s] = w
    /\ at \in {"running", "sending"} => Unused(s)
    /\ at = "release" => Unsent(s)
    /\ at = "running" => ~IsMail(s)
    /\ at \in {"sending", "release"} => IsMail(s)
    /\ at = "mark" => Kind[s] = "reply" /\ effects[s] > 0

OneExecutes ==
    \A v, w \in Workers :
        Executing(v) /\ Executing(w) /\ worker[v].job = worker[w].job => v = w

IInv ==
    /\ TypeOK
    /\ DecisionInv
    /\ SlotInv
    /\ OneExecutes
    /\ \A w \in Workers : JobInv(w) /\ SlotHeld(w)
    /\ SucceededIsReal

=============================================================================
