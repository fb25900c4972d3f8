----------------------- MODULE ApprovalExecution_proofs -----------------------
(* Proofs about ApprovalExecution, for any number of approvals, workers,   *)
(* e-mails and keys.                                                       *)
EXTENDS ApprovalExecution, TLAPS

(* How the helpers change a worker: its type, the fields they set and the  *)
(* workers they leave alone.                                               *)
LEMMA WorkerField ==
    ASSUME TypeOK, NEW w \in Workers
    PROVE  /\ worker[w] \in WorkerType
           /\ worker[w] \in LocalsType
           /\ Assigned(worker[w])
           /\ worker[w].at \in WorkerSteps
           /\ worker[w].job \in Approvals \cup {NoApproval}
           /\ worker[w].slot \in Approvals \cup {NoApproval}
           /\ worker[w].key \in Keys \cup {NoKey}
           /\ worker[w].result \in Outcomes
<1>1. worker[w] \in WorkerType
    BY DEF TypeOK
<1>2. worker[w] \in LocalsType /\ Assigned(worker[w])
    BY <1>1 DEF WorkerType
<1>3. QED BY <1>1, <1>2 DEF LocalsType

LEMMA Become ==
    ASSUME TypeOK, NEW w \in Workers, NEW r \in LocalsType, Assigned(r),
           worker' = [worker EXCEPT ![w] = r]
    PROVE  /\ worker' \in [Workers -> WorkerType]
           /\ worker'[w] = r
           /\ \A v \in Workers \ {w} : worker'[v] = worker[v]
<1>1. worker \in [Workers -> WorkerType]
    BY DEF TypeOK
<1>2. r \in WorkerType
    BY DEF WorkerType
<1>3. QED BY <1>1, <1>2

LEMMA LeaveChange ==
    ASSUME TypeOK, NEW w \in Workers, Leave(w)
    PROVE  /\ worker' \in [Workers -> WorkerType]
           /\ worker'[w] = NoWork
           /\ \A v \in Workers \ {w} : worker'[v] = worker[v]
<1>1. NoWork \in LocalsType /\ Assigned(NoWork)
    BY DEF NoWork, LocalsType, WorkerSteps, Outcomes, Assigned, JobSteps, SlotSteps
<1>2. QED BY <1>1, Become DEF Leave

LEMMA GotoChange ==
    ASSUME TypeOK, NEW w \in Workers, NEW step \in WorkerSteps, Goto(w, step),
           step \in JobSteps => worker[w].job \in Approvals,
           step \in SlotSteps => worker[w].slot \in Approvals
    PROVE  /\ worker' \in [Workers -> WorkerType]
           /\ worker'[w].at = step
           /\ worker'[w].job = worker[w].job
           /\ worker'[w].slot = worker[w].slot
           /\ worker'[w].key = worker[w].key
           /\ worker'[w].result = worker[w].result
           /\ \A v \in Workers \ {w} : worker'[v] = worker[v]
<1> DEFINE r == [worker[w] EXCEPT !.at = step]
<1>1. /\ r \in LocalsType
      /\ r.at = step /\ r.job = worker[w].job /\ r.slot = worker[w].slot
      /\ r.key = worker[w].key /\ r.result = worker[w].result
    BY WorkerField DEF LocalsType
<1>2. worker' = [worker EXCEPT ![w] = r]
    BY DEF Goto
<1> HIDE DEF r
<1>3. Assigned(r)
    BY <1>1 DEF Assigned
<1>4. QED BY <1>1, <1>2, <1>3, Become

LEMMA ReportChange ==
    ASSUME TypeOK, NEW w \in Workers, NEW o \in Outcomes, Report(w, o)
    PROVE  /\ worker' \in [Workers -> WorkerType]
           /\ worker[w].job = NoApproval => worker'[w] = NoWork
           /\ worker[w].job # NoApproval =>
                    /\ worker'[w].at = "finalize"
                    /\ worker'[w].job = worker[w].job
                    /\ worker'[w].result = o
           /\ \A v \in Workers \ {w} : worker'[v] = worker[v]
<1>1. CASE worker[w].job = NoApproval
    BY <1>1, LeaveChange DEF Report
<1>2. CASE worker[w].job # NoApproval
  <2> DEFINE r == [worker[w] EXCEPT !.at = "finalize", !.result = o]
  <2>1. "finalize" \in WorkerSteps /\ "finalize" \notin SlotSteps
      BY DEF WorkerSteps, SlotSteps
  <2>2. r \in LocalsType /\ r.at = "finalize" /\ r.job = worker[w].job /\ r.result = o
      BY <2>1, WorkerField DEF LocalsType
  <2>3. worker' = [worker EXCEPT ![w] = r]
      BY <1>2 DEF Report
  <2>4. worker[w].job \in Approvals
      BY <1>2, WorkerField
  <2> HIDE DEF r
  <2>5. Assigned(r)
      BY <2>1, <2>2, <2>4 DEF Assigned
  <2>6. QED BY <1>2, <2>2, <2>3, <2>5, Become
<1>3. QED BY <1>1, <1>2

LEMMA SlotChange ==
    ASSUME TypeOK, NEW w \in Workers, NEW step \in WorkerSteps, NEW s \in Approvals,
           GotoSlot(w, step, s),
           step \in JobSteps => worker[w].job \in Approvals
    PROVE  /\ worker' \in [Workers -> WorkerType]
           /\ worker'[w].at = step
           /\ worker'[w].job = worker[w].job
           /\ worker'[w].slot = s
           /\ worker'[w].key = worker[w].key
           /\ worker'[w].result = worker[w].result
           /\ \A v \in Workers \ {w} : worker'[v] = worker[v]
<1> DEFINE r == [worker[w] EXCEPT !.at = step, !.slot = s]
<1>1. /\ r \in LocalsType
      /\ r.at = step /\ r.job = worker[w].job /\ r.slot = s
      /\ r.key = worker[w].key /\ r.result = worker[w].result
    BY WorkerField DEF LocalsType
<1>2. worker' = [worker EXCEPT ![w] = r]
    BY DEF GotoSlot
<1> HIDE DEF r
<1>3. Assigned(r)
    BY <1>1 DEF Assigned
<1>4. QED BY <1>1, <1>2, <1>3, Become

LEMMA JobChange ==
    ASSUME TypeOK, NEW w \in Workers, NEW a \in Approvals, NEW k \in Keys \cup {NoKey},
           BeginApprove(w, a, k)
    PROVE  /\ worker' \in [Workers -> WorkerType]
           /\ worker'[w].at = "decide"
           /\ worker'[w].job = a
           /\ worker'[w].key = k
           /\ worker'[w].result = worker[w].result
           /\ \A v \in Workers \ {w} : worker'[v] = worker[v]
<1> DEFINE r == [worker[w] EXCEPT !.at = "decide", !.job = a, !.key = k]
<1>1. "decide" \in WorkerSteps /\ "decide" \notin SlotSteps
    BY DEF WorkerSteps, SlotSteps
<1>2. /\ r \in LocalsType
      /\ r.at = "decide" /\ r.job = a /\ r.key = k /\ r.result = worker[w].result
    BY <1>1, WorkerField DEF LocalsType
<1>3. worker' = [worker EXCEPT ![w] = r]
    BY DEF BeginApprove
<1> HIDE DEF r
<1>4. Assigned(r)
    BY <1>1, <1>2 DEF Assigned
<1>5. QED BY <1>2, <1>3, <1>4, Become

LEMMA RejectChange ==
    ASSUME TypeOK, NEW w \in Workers, NEW a \in Approvals, BeginReject(w, a)
    PROVE  /\ worker' \in [Workers -> WorkerType]
           /\ worker'[w].at = "reject"
           /\ worker'[w].job = a
           /\ worker'[w].result = worker[w].result
           /\ \A v \in Workers \ {w} : worker'[v] = worker[v]
<1> DEFINE r == [worker[w] EXCEPT !.at = "reject", !.job = a]
<1>1. "reject" \in WorkerSteps /\ "reject" \notin SlotSteps
    BY DEF WorkerSteps, SlotSteps
<1>2. /\ r \in LocalsType
      /\ r.at = "reject" /\ r.job = a /\ r.result = worker[w].result
    BY <1>1, WorkerField DEF LocalsType
<1>3. worker' = [worker EXCEPT ![w] = r]
    BY DEF BeginReject
<1> HIDE DEF r
<1>4. Assigned(r)
    BY <1>1, <1>2 DEF Assigned
<1>5. QED BY <1>2, <1>3, <1>4, Become

(* A worker deciding on or executing an approval knows it; one that claims *)
(* or holds a slot knows that.                                             *)
LEMMA KnownJob ==
    ASSUME TypeOK, NEW w \in Workers
    PROVE  /\ worker[w].at \in {"decide", "reject", "create", "load", "finalize"}
                => worker[w].job \in Approvals
           /\ worker[w].at \in {"load", "claim", "running", "sending", "release", "mark"}
                => worker[w].slot \in Approvals
BY WorkerField DEF Assigned, JobSteps, SlotSteps

LEMMA Steps ==
    /\ {"idle", "decide", "reject", "create", "load", "claim",
        "running", "sending", "release", "mark", "finalize"} \subseteq WorkerSteps
    /\ {"succeeded", "failed", "skipped"} = Outcomes
    /\ {"running", "sending", "release", "mark", "claim", "idle"} \cap JobSteps = {}
    /\ {"idle", "decide", "reject", "create", "finalize"} \cap SlotSteps = {}
BY DEF WorkerSteps, Outcomes, JobSteps, SlotSteps

(* The worker's type survives each of its own steps.                       *)
LEMMA WorkerTypeKept ==
    ASSUME TypeOK, NEW w \in Workers, Begin(w) \/ Continue(w) \/ DenyByPolicy(w) \/ Crash(w)
    PROVE  worker' \in [Workers -> WorkerType]
<1>1. ASSUME NEW a \in Approvals, NEW k \in Keys \cup {NoKey}, BeginApprove(w, a, k)
      PROVE worker' \in [Workers -> WorkerType]
    BY <1>1, JobChange
<1>2. ASSUME NEW a \in Approvals, BeginReject(w, a) PROVE worker' \in [Workers -> WorkerType]
    BY <1>2, RejectChange
<1>3. ASSUME NEW e \in Emails, BeginSend(w, e) PROVE worker' \in [Workers -> WorkerType]
    BY <1>3, Steps, SlotChange DEF BeginSend, ReplySendable
<1>4. CASE Approve(w)
    BY <1>4, Steps, KnownJob, LeaveChange, GotoChange DEF Approve
<1>5. CASE Reject(w) \/ FinalizeExecution(w) \/ DenyByPolicy(w) \/ Crash(w)
    BY <1>5, LeaveChange DEF Reject, FinalizeExecution, DenyByPolicy, Crash
<1>6. CASE CreateExecution(w)
    BY <1>6, Steps, KnownJob, LeaveChange, SlotChange DEF CreateExecution
<1>7. CASE LoadReply(w)
    BY <1>7, Steps, SlotChange, ReportChange DEF LoadReply, ReplySendable
<1>8. CASE ClaimSlot(w)
    BY <1>8, Steps, KnownJob, GotoChange, ReportChange DEF ClaimSlot
<1>9. ASSUME NEW outcome \in Outcomes, RunHandler(w, outcome)
      PROVE worker' \in [Workers -> WorkerType]
    BY <1>9, ReportChange DEF RunHandler
<1>10. CASE SendDelivered(w) \/ SendRefused(w)
    BY <1>10, Steps, KnownJob, GotoChange, ReportChange DEF SendDelivered, SendRefused
<1>11. CASE SendTimedOut(w) \/ ReleaseSlot(w) \/ MarkReplySent(w)
    BY <1>11, Steps, ReportChange DEF SendTimedOut, ReleaseSlot, MarkReplySent
<1>12. CASE LoadCompose(w)
    BY <1>12, Steps, KnownJob, GotoChange, ReportChange DEF LoadCompose
<1>13. QED
    BY <1>1, <1>2, <1>3, <1>4, <1>5, <1>6, <1>7, <1>8, <1>9, <1>10, <1>11, <1>12
       DEF Begin, Continue

(* The code keeps to its columns, steps and outcomes.                      *)
LEMMA TypeInit == Init => TypeOK
BY ConstantsAssumption, Steps
   DEF Init, LocalsType, Assigned, JobSteps, SlotSteps, TypeOK, NoWork, WorkerType, NoExecution, RequestSteps, Ungranted

LEMMA TypeStep ==
    ASSUME TypeOK, [Next]_vars
    PROVE  TypeOK'
<1> USE DEF requestVars, effectVars
<1>1. ASSUME NEW a \in Approvals, Request(a) PROVE TypeOK'
  <2>1. worker' = worker /\ UNCHANGED effectVars /\ UNCHANGED <<granted, refused>>
      BY <1>1 DEF Request, CheckRequestKey, CreateRequest, StoreRequestKey, AutoApprove,
          LeavePending, StartDraft, RequestDraft, LinkDraft, LoseRequest
  <2>2. rpc' \in [Approvals -> RequestSteps]
      BY <1>1 DEF Request, CheckRequestKey, CreateRequest, StoreRequestKey, AutoApprove,
          LeavePending, StartDraft, RequestDraft, LinkDraft, LoseRequest, MoveRequest,
          TypeOK, RequestSteps
  <2>3. /\ status' \in [Approvals -> {"absent", "pending", "approved", "rejected"}]
        /\ approvedBy' \in [Approvals -> Workers \cup {Requester, Nobody}]
        /\ link' \in [Emails -> Approvals \cup {NoApproval}]
      BY <1>1 DEF Request, CheckRequestKey, CreateRequest, StoreRequestKey, AutoApprove,
          LeavePending, StartDraft, RequestDraft, LinkDraft, LoseRequest, TypeOK
  <2>4. QED BY <2>1, <2>2, <2>3 DEF TypeOK
<1>2. ASSUME NEW a \in Approvals, OrphanEnds(a) PROVE TypeOK'
    BY <1>2 DEF OrphanEnds, Perform, TypeOK
<1>3. ASSUME NEW overdue \in SUBSET Approvals, ExpireOverdue(overdue) PROVE TypeOK'
    BY <1>3 DEF ExpireOverdue, TypeOK
<1>4. ASSUME NEW w \in Workers, Begin(w) PROVE TypeOK'
    BY <1>4, WorkerTypeKept DEF Begin, BeginApprove, BeginReject, BeginSend, TypeOK
<1>5. ASSUME NEW w \in Workers, Continue(w) PROVE TypeOK'
  <2>1. worker' \in [Workers -> WorkerType]
      BY <1>5, WorkerTypeKept
  <2>2. worker[w].job \in Approvals \cup {NoApproval} /\ worker[w].key \in Keys \cup {NoKey}
        /\ worker[w].result \in Outcomes
      BY WorkerField
  <2>3. CASE Approve(w) \/ Reject(w)
      BY <2>1, <2>2, <2>3 DEF Approve, Reject, TypeOK
  <2>4. CASE CreateExecution(w)
      BY <2>1, <2>2, <2>4 DEF CreateExecution, TypeOK
  <2>5. CASE LoadReply(w) \/ LoadCompose(w)
      BY <2>1, <2>5 DEF LoadReply, LoadCompose, TypeOK
  <2>6. CASE ClaimSlot(w) \/ ReleaseSlot(w) \/ SendTimedOut(w) \/ MarkReplySent(w)
    <3>1. executedAt' \in [Approvals -> Workers \cup {Nobody}]
        BY <2>6 DEF ClaimSlot, ReleaseSlot, SendTimedOut, MarkReplySent, TypeOK
    <3>2. /\ UNCHANGED <<execution, effects, requestVars>>
          /\ orphans' \in SUBSET Approvals
          /\ replySent' \in [Emails -> BOOLEAN]
        BY KnownJob, <2>6 DEF ClaimSlot, ReleaseSlot, SendTimedOut, MarkReplySent, TypeOK
    <3>3. QED BY <2>1, <3>1, <3>2 DEF TypeOK
  <2>7. ASSUME NEW outcome \in Outcomes,
               RunHandler(w, outcome) \/ SendDelivered(w) \/ SendRefused(w)
        PROVE TypeOK'
    <3>1. effects' \in [Approvals -> Nat]
        BY <2>7 DEF RunHandler, SendDelivered, SendRefused, Perform, TypeOK
    <3>2. UNCHANGED <<executedAt, execution, replySent, orphans, requestVars>>
        BY <2>7 DEF RunHandler, SendDelivered, SendRefused
    <3>3. QED BY <2>1, <3>1, <3>2 DEF TypeOK
  <2>9. CASE FinalizeExecution(w)
    <3>1. execution' \in [Approvals -> [status : {"none", "running"} \cup Outcomes,
                                        key : Keys \cup {NoKey}]]
      <4> DEFINE a == worker[w].job
                 R == [status : {"none", "running"} \cup Outcomes, key : Keys \cup {NoKey}]
      <4>1. execution \in [Approvals -> R] /\ a \in Approvals
          BY <2>9, KnownJob DEF FinalizeExecution, TypeOK
      <4>2. [execution[a] EXCEPT !.status = worker[w].result] \in R
          BY <2>2, <4>1
      <4> HIDE DEF R
      <4>3. QED BY <2>9, <4>1, <4>2 DEF FinalizeExecution, R
    <3>2. UNCHANGED <<executedAt, replySent, effects, orphans, requestVars>>
        BY <2>9 DEF FinalizeExecution
    <3>3. QED BY <2>1, <3>1, <3>2 DEF TypeOK
  <2>10. QED
      BY <1>5, <2>3, <2>4, <2>5, <2>6, <2>7, <2>9, Steps DEF Continue
<1>6. ASSUME NEW w \in Workers, DenyByPolicy(w) \/ Crash(w) PROVE TypeOK'
    BY <1>6, WorkerTypeKept DEF DenyByPolicy, Crash, Perform, TypeOK
<1>7. CASE UNCHANGED vars
    BY <1>7 DEF vars, TypeOK
<1>8. QED
    BY <1>1, <1>2, <1>3, <1>4, <1>5, <1>6, <1>7 DEF Next

(* Every variable keeps to the columns, steps and outcomes the code knows. *)
THEOREM TypeCorrect == Spec => []TypeOK
<1>1. TypeOK /\ [Next]_vars => TypeOK'
    BY TypeStep
<1>2. QED BY TypeInit, <1>1, PTL DEF Spec

-----------------------------------------------------------------------------
(* A grant, once given, and an effect, once done, stay.                    *)
LEMMA GrantKept ==
    ASSUME IInv, [Next]_vars, NEW a \in Approvals, granted[a] # Ungranted
    PROVE  granted'[a] = granted[a]
<1> USE DEF requestVars
<1>1. status[a] # "pending"
    BY DEF IInv, DecisionInv
<1>2. ASSUME NEW w \in Workers, Continue(w) PROVE granted'[a] = granted[a]
  <2>1. CASE Approve(w)
      BY <1>1, <2>1 DEF Approve, IInv, TypeOK
  <2>2. CASE ~Approve(w)
      BY <1>2, <2>2 DEF Continue, Reject, CreateExecution, LoadReply, LoadCompose, ClaimSlot,
        RunHandler, SendDelivered, SendRefused, SendTimedOut, ReleaseSlot, MarkReplySent,
        FinalizeExecution
  <2>3. QED BY <2>1, <2>2
<1>3. ASSUME NEW b \in Approvals, Request(b) \/ OrphanEnds(b) PROVE granted'[a] = granted[a]
    BY <1>3 DEF Request, CheckRequestKey, CreateRequest, StoreRequestKey, AutoApprove,
        LeavePending, StartDraft, RequestDraft, LinkDraft, LoseRequest, OrphanEnds
<1>4. ASSUME NEW w \in Workers, Begin(w) \/ DenyByPolicy(w) \/ Crash(w)
      PROVE granted'[a] = granted[a]
    BY <1>4 DEF Begin, BeginApprove, BeginReject, BeginSend, DenyByPolicy, Crash
<1>5. ASSUME NEW overdue \in SUBSET Approvals, ExpireOverdue(overdue)
      PROVE granted'[a] = granted[a]
    BY <1>5 DEF ExpireOverdue
<1>6. CASE UNCHANGED vars
    BY <1>6 DEF vars
<1>7. QED BY <1>2, <1>3, <1>4, <1>5, <1>6 DEF Next

LEMMA EffectKept ==
    ASSUME TypeOK, [Next]_vars, NEW a \in Approvals
    PROVE  effects'[a] = effects[a] \/ effects'[a] = effects[a] + 1
<1> USE DEF effectVars, Perform
<1>1. ASSUME NEW w \in Workers, Continue(w)
      PROVE effects'[a] = effects[a] \/ effects'[a] = effects[a] + 1
  <2>1. ASSUME NEW outcome \in Outcomes,
               RunHandler(w, outcome) \/ SendDelivered(w) \/ SendRefused(w)
        PROVE effects'[a] = effects[a] \/ effects'[a] = effects[a] + 1
      BY <2>1 DEF RunHandler, SendDelivered, SendRefused, TypeOK
  <2>2. CASE Approve(w) \/ Reject(w) \/ CreateExecution(w) \/ LoadReply(w) \/ LoadCompose(w)
             \/ ClaimSlot(w) \/ SendTimedOut(w) \/ ReleaseSlot(w) \/ MarkReplySent(w)
             \/ FinalizeExecution(w)
      BY <2>2 DEF Approve, Reject, CreateExecution, LoadReply, LoadCompose, ClaimSlot,
         SendTimedOut, ReleaseSlot, MarkReplySent, FinalizeExecution
  <2>3. QED BY <1>1, <2>1, <2>2, Steps DEF Continue
<1>2. ASSUME NEW b \in Approvals, Request(b)
      PROVE effects'[a] = effects[a] \/ effects'[a] = effects[a] + 1
    BY <1>2 DEF Request, CheckRequestKey, CreateRequest, StoreRequestKey, AutoApprove,
        LeavePending, StartDraft, RequestDraft, LinkDraft, LoseRequest
<1>3. ASSUME NEW b \in Approvals, OrphanEnds(b)
      PROVE effects'[a] = effects[a] \/ effects'[a] = effects[a] + 1
    BY <1>3 DEF OrphanEnds, TypeOK
<1>4. ASSUME NEW w \in Workers, Begin(w) \/ DenyByPolicy(w)
      PROVE effects'[a] = effects[a] \/ effects'[a] = effects[a] + 1
    BY <1>4 DEF Begin, BeginApprove, BeginReject, BeginSend, DenyByPolicy
<1>5. ASSUME NEW w \in Workers, Crash(w)
      PROVE effects'[a] = effects[a] \/ effects'[a] = effects[a] + 1
    BY <1>5 DEF Crash, TypeOK
<1>6. ASSUME NEW overdue \in SUBSET Approvals, ExpireOverdue(overdue)
      PROVE effects'[a] = effects[a] \/ effects'[a] = effects[a] + 1
    BY <1>6 DEF ExpireOverdue
<1>7. CASE UNCHANGED vars
    BY <1>7 DEF vars
<1>8. QED BY <1>1, <1>2, <1>3, <1>4, <1>5, <1>6, <1>7 DEF Next

LEMMA RealizedKept ==
    ASSUME TypeOK, [Next]_vars, NEW a \in Approvals, Realized(a)
    PROVE  Realized(a)'
<1>1. \A b \in Approvals : effects[b] > 0 => effects'[b] > 0
    BY EffectKept DEF TypeOK
<1>2. QED BY <1>1 DEF Realized

(* The execution of an approval is created once, and finalized.            *)
LEMMA ExecutionStep ==
    ASSUME [Next]_vars, execution' # execution
    PROVE  \E w \in Workers : CreateExecution(w) \/ FinalizeExecution(w)
<1>1. \A w \in Workers : Begin(w) \/ DenyByPolicy(w) \/ Crash(w) => UNCHANGED execution
    BY DEF effectVars, Begin, BeginApprove, BeginReject, BeginSend, DenyByPolicy, Crash
<1>2. \A w \in Workers : Continue(w) /\ ~CreateExecution(w) /\ ~FinalizeExecution(w)
            => UNCHANGED execution
    BY DEF effectVars, Continue, Approve, Reject, LoadReply, LoadCompose, ClaimSlot,
       RunHandler, SendDelivered, SendRefused, SendTimedOut, ReleaseSlot, MarkReplySent
<1>3. \A b \in Approvals : Request(b) \/ OrphanEnds(b) => UNCHANGED execution
    BY DEF effectVars, Request, CheckRequestKey, CreateRequest, StoreRequestKey, AutoApprove,
       LeavePending, StartDraft, RequestDraft, LinkDraft, LoseRequest, OrphanEnds
<1>4. \A overdue \in SUBSET Approvals : ExpireOverdue(overdue) => UNCHANGED execution
    BY DEF effectVars, ExpireOverdue
<1>5. QED BY <1>1, <1>2, <1>3, <1>4 DEF Next, vars, effectVars

LEMMA ExecutionKept ==
    ASSUME TypeOK, [Next]_vars, NEW a \in Approvals, execution[a].status # "none"
    PROVE  execution'[a].status # "none"
<1>1. CASE execution' = execution
    BY <1>1
<1>2. CASE execution' # execution
  <2>1. PICK w \in Workers : CreateExecution(w) \/ FinalizeExecution(w)
      BY <1>2, ExecutionStep
  <2>2. CASE CreateExecution(w)
      BY <2>2, KnownJob DEF CreateExecution, TypeOK
  <2>3. CASE FinalizeExecution(w)
    <3>1. worker[w].result # "none"
        BY WorkerField DEF Outcomes
    <3>2. QED BY <2>3, <3>1 DEF FinalizeExecution, TypeOK
  <2>4. QED BY <2>1, <2>2, <2>3
<1>3. QED BY <1>1, <1>2

(* The step of one worker is no step of another.                           *)
LEMMA OthersStay ==
    ASSUME TypeOK, NEW w \in Workers, NEW v \in Workers \ {w},
           Begin(w) \/ Continue(w) \/ DenyByPolicy(w) \/ Crash(w)
    PROVE  worker'[v] = worker[v]
<1>1. ASSUME NEW a \in Approvals, NEW k \in Keys \cup {NoKey}, BeginApprove(w, a, k)
      PROVE worker'[v] = worker[v]
    BY <1>1 DEF BeginApprove, TypeOK
<1>2. ASSUME NEW a \in Approvals, BeginReject(w, a) PROVE worker'[v] = worker[v]
    BY <1>2 DEF BeginReject, TypeOK
<1>3. ASSUME NEW e \in Emails, BeginSend(w, e) PROVE worker'[v] = worker[v]
    BY <1>3 DEF BeginSend, GotoSlot, TypeOK
<1>4. CASE Continue(w) \/ DenyByPolicy(w) \/ Crash(w)
    BY <1>4 DEF TypeOK, Continue, Approve, Reject, CreateExecution, LoadReply,
       LoadCompose, ClaimSlot, RunHandler, SendDelivered, SendRefused, SendTimedOut,
       ReleaseSlot, MarkReplySent, FinalizeExecution, DenyByPolicy, Crash,
       Leave, Goto, GotoSlot, Report
<1>5. QED BY <1>1, <1>2, <1>3, <1>4 DEF Begin

(* A worker that takes no step keeps what it relies on, provided the step  *)
(* of another one leaves its slot alone.                                   *)
LEMMA Undisturbed ==
    ASSUME IInv, [Next]_vars, NEW v \in Workers, worker'[v] = worker[v],
           worker[v].at \in {"load", "claim"} => Untouched(worker[v].slot)',
           worker[v].at \in HoldSteps => executedAt'[worker[v].slot] = v,
           worker[v].at \in {"running", "sending"} => Unused(worker[v].slot)',
           worker[v].at = "release" => Unsent(worker[v].slot)'
    PROVE  JobInv(v)' /\ SlotHeld(v)'
<1> DEFINE a == worker[v].job
           s == worker[v].slot
           at == worker[v].at
<1>1. /\ TypeOK /\ JobInv(v) /\ SlotHeld(v)
      /\ a \in Approvals \cup {NoApproval} /\ s \in Approvals \cup {NoApproval}
      /\ at \in {"create", "finalize"} => a \in Approvals
      /\ at \in SlotSteps => s \in Approvals
      /\ at \in HoldSteps => at \in SlotSteps
    BY WorkerField, KnownJob DEF IInv, SlotSteps, HoldSteps
<1>2. \A b \in Approvals : Granted(b) => Granted(b)'
    BY GrantKept, ConstantsAssumption DEF Granted, Ungranted
<1>3. \A b \in Approvals : effects[b] > 0 => effects'[b] > 0
    BY EffectKept, <1>1 DEF TypeOK
<1>4. JobInv(v)'
  <2>1. Executing(v) => a \in Approvals /\ execution'[a].status # "none"
      BY <1>1, ExecutionKept DEF JobInv, Executing
  <2>2. Executing(v)' <=> Executing(v)
      BY DEF Executing
  <2>3. QED BY <1>1, <1>2, <2>1, <2>2, RealizedKept DEF JobInv
<1>5. SlotHeld(v)'
  <2>1. at \in SlotSteps => Granted(s)' /\ SameTarget(a, s)'
      BY <1>1, <1>2 DEF SlotHeld, SameTarget
  <2>2. at = "mark" => Kind[s] = "reply" /\ effects'[s] > 0
      BY <1>1, <1>3 DEF SlotHeld, SlotSteps
  <2>3. /\ at = "running" => ~IsMail(s)
        /\ at \in {"sending", "release"} => IsMail(s)
      BY <1>1 DEF SlotHeld
  <2>4. QED BY <2>1, <2>2, <2>3 DEF SlotHeld, SameTarget
<1>6. QED BY <1>4, <1>5

-----------------------------------------------------------------------------
(* A worker's own step leaves its invariants true.                         *)
LEMMA IdleInv ==
    ASSUME NEW w \in Workers, worker'[w] = NoWork
    PROVE  JobInv(w)' /\ SlotHeld(w)'
BY DEF JobInv, SlotHeld, NoWork, SlotSteps, HoldSteps, Executing

LEMMA LeftInv ==
    ASSUME TypeOK, NEW w \in Workers, Leave(w)
    PROVE  JobInv(w)' /\ SlotHeld(w)'
BY LeaveChange, IdleInv

LEMMA ReportedInv ==
    ASSUME TypeOK, NEW w \in Workers, NEW o \in Outcomes, Report(w, o),
           NEW a, a = worker[w].job,
           a # NoApproval => execution'[a].status # "none",
           o = "succeeded" /\ a # NoApproval => Realized(a)'
    PROVE  JobInv(w)' /\ SlotHeld(w)'
<1>1. CASE worker[w].job = NoApproval
    BY <1>1, ReportChange, IdleInv
<1>2. CASE worker[w].job # NoApproval
  <2>1. worker'[w].at = "finalize" /\ worker'[w].result = o
        /\ worker'[w].job = worker[w].job
      BY <1>2, ReportChange
  <2>2. JobInv(w)'
      BY <1>2, <2>1 DEF JobInv, Realized
  <2>3. SlotHeld(w)'
      BY <2>1 DEF SlotHeld, SlotSteps, HoldSteps
  <2>4. QED BY <2>2, <2>3
<1>3. QED BY <1>1, <1>2

(* What the invariant says of a worker at the steps that hold a slot.      *)
LEMMA WorkerFacts ==
    ASSUME IInv, NEW w \in Workers
    PROVE  /\ TypeOK /\ JobInv(w) /\ SlotHeld(w)
           /\ worker[w].at \in WorkerSteps
           /\ worker[w].job \in Approvals \cup {NoApproval}
           /\ worker[w].at = "idle" => worker[w] = NoWork
           /\ worker[w].at = "decide" /\ Risky(worker[w].job) => worker[w].key \in Keys
           /\ worker[w].at = "create" => Granted(worker[w].job)
           /\ worker[w].at # "finalize" => worker[w].result = "skipped"
           /\ worker[w].at = "running" => ~IsMail(worker[w].slot)
           /\ worker[w].at \in {"sending", "release"} => IsMail(worker[w].slot)
           /\ worker[w].at = "mark" =>
                Kind[worker[w].slot] = "reply" /\ effects[worker[w].slot] > 0
           /\ worker[w].at \in {"load", "claim", "running", "sending", "release", "mark"} =>
                /\ worker[w].slot \in Approvals
                /\ Granted(worker[w].slot)
                /\ worker[w].result = "skipped"
                /\ worker[w].job # NoApproval =>
                    /\ Granted(worker[w].job)
                    /\ Kind[worker[w].job] = Kind[worker[w].slot]
                    /\ IF Kind[worker[w].job] = "reply"
                       THEN EmailOf[worker[w].job] = EmailOf[worker[w].slot]
                       ELSE worker[w].slot = worker[w].job
           /\ worker[w].at \in {"running", "sending", "release", "mark"} =>
                executedAt[worker[w].slot] = w
           /\ worker[w].at \in {"running", "sending"} => Unused(worker[w].slot)
           /\ worker[w].at = "release" => Unsent(worker[w].slot)
           /\ worker[w].at \in {"load", "claim"} => Untouched(worker[w].slot)
           /\ worker[w].at \in {"load", "claim", "running", "sending", "release", "mark"}
              /\ worker[w].job = NoApproval => Kind[worker[w].slot] = "reply"
           /\ worker[w].at \in {"load", "claim", "running", "sending", "release", "mark",
                               "finalize"}
              /\ worker[w].job # NoApproval => execution[worker[w].job].status # "none"
<1>1. TypeOK /\ JobInv(w) /\ SlotHeld(w)
    BY DEF IInv
<1>2. QED
    BY <1>1, KnownJob, WorkerField
       DEF JobInv, SlotHeld, SameTarget, SlotSteps, HoldSteps, Executing

(* What has to be shown of a worker that decides, and of one that holds or *)
(* is about to claim a slot.                                               *)
LEMMA DecidingInv ==
    ASSUME NEW w \in Workers, NEW a, worker'[w].job = a,
           worker'[w].at \in {"decide", "reject", "create"},
           worker'[w].result = "skipped",
           worker'[w].at = "decide" /\ Risky(a) => worker'[w].key \in Keys,
           worker'[w].at = "create" => Granted(a)'
    PROVE  JobInv(w)' /\ SlotHeld(w)'
<1>1. JobInv(w)'
    BY DEF JobInv, Executing, SlotSteps
<1>2. SlotHeld(w)'
    BY DEF SlotHeld, SlotSteps, HoldSteps
<1>3. QED BY <1>1, <1>2

LEMMA ClaimingInv ==
    ASSUME NEW w \in Workers, NEW a, NEW s,
           worker'[w].at \in {"load", "claim"}, worker'[w].job = a, worker'[w].slot = s,
           worker'[w].result = "skipped",
           worker'[w].at = "load" => IsMail(a),
           a # NoApproval => execution'[a].status # "none",
           Granted(s)', SameTarget(a, s)', Untouched(s)'
    PROVE  JobInv(w)' /\ SlotHeld(w)'
<1>1. JobInv(w)'
    BY DEF JobInv, Executing
<1>2. SlotHeld(w)'
    BY DEF SlotHeld, SlotSteps, HoldSteps, SameTarget, Untouched
<1>3. QED BY <1>1, <1>2

LEMMA HoldingInv ==
    ASSUME NEW w \in Workers, NEW a, NEW s,
           worker'[w].at \in {"running", "sending", "release", "mark"},
           worker'[w].job = a, worker'[w].slot = s, worker'[w].result = "skipped",
           a # NoApproval => execution'[a].status # "none",
           executedAt'[s] = w, Granted(s)', SameTarget(a, s)',
           worker'[w].at \in {"running", "sending"} => Unused(s)',
           worker'[w].at = "release" => Unsent(s)',
           worker'[w].at = "running" => ~IsMail(s),
           worker'[w].at \in {"sending", "release"} => IsMail(s),
           worker'[w].at = "mark" => Kind[s] = "reply" /\ effects'[s] > 0
    PROVE  JobInv(w)' /\ SlotHeld(w)'
<1>1. JobInv(w)'
    BY DEF JobInv, Executing
<1>2. SlotHeld(w)'
    BY DEF SlotHeld, SlotSteps, HoldSteps, SameTarget, Unused, Unsent
<1>3. QED BY <1>1, <1>2

LEMMA TargetKept ==
    ASSUME IInv, [Next]_vars, NEW w \in Workers,
           NEW a, a = worker[w].job, NEW s, s = worker[w].slot,
           worker[w].at \in {"load", "claim", "running", "sending", "release", "mark"}
    PROVE  Granted(s)' /\ SameTarget(a, s)'
<1>1. \A b \in Approvals : Granted(b) => Granted(b)'
    BY GrantKept, ConstantsAssumption DEF Granted, Ungranted
<1>2. s \in Approvals /\ Granted(s) /\ SameTarget(a, s) /\ a \in Approvals \cup {NoApproval}
    BY WorkerFacts DEF SameTarget
<1>3. Granted(s)' /\ (a # NoApproval => Granted(a)')
    BY <1>1, <1>2 DEF SameTarget
<1>4. QED BY <1>2, <1>3 DEF SameTarget

LEMMA OwnStep ==
    ASSUME IInv, [Next]_vars, NEW w \in Workers,
           Begin(w) \/ Continue(w) \/ DenyByPolicy(w) \/ Crash(w)
    PROVE  JobInv(w)' /\ SlotHeld(w)'
<1>a. PICK a, s : a = worker[w].job /\ s = worker[w].slot
    OBVIOUS
<1>1. TypeOK /\ TypeOK'
    BY TypeStep DEF IInv
<1>2. \A b \in Approvals : Granted(b) => Granted(b)'
    BY GrantKept, ConstantsAssumption DEF Granted, Ungranted
<1>b. worker[w].at \in {"load", "claim", "running", "sending", "release", "mark"}
      /\ a # NoApproval => execution'[a].status # "none"
    BY <1>a, <1>1, WorkerFacts, ExecutionKept
<1>3. ASSUME NEW b \in Approvals, NEW k \in Keys \cup {NoKey}, BeginApprove(w, b, k)
      PROVE JobInv(w)' /\ SlotHeld(w)'
  <2>1. worker[w].at = "idle" /\ (Risky(b) => k \in Keys)
      BY <1>a, <1>3 DEF BeginApprove
  <2>2. worker[w].result = "skipped"
      BY <1>a, <2>1, WorkerFacts
  <2>3. worker'[w].at = "decide" /\ worker'[w].job = b /\ worker'[w].key = k
        /\ worker'[w].result = "skipped"
      BY <1>a, <1>1, <1>3, <2>2, JobChange
  <2>4. QED BY <1>a, <2>1, <2>3, DecidingInv
<1>4. ASSUME NEW b \in Approvals, BeginReject(w, b) PROVE JobInv(w)' /\ SlotHeld(w)'
  <2>1. worker[w].at = "idle"
      BY <1>a, <1>4 DEF BeginReject
  <2>2. worker'[w].at = "reject" /\ worker'[w].job = b /\ worker'[w].result = "skipped"
      BY <1>a, <1>1, <1>4, <2>1, RejectChange, WorkerFacts
  <2>3. QED BY <1>a, <2>2, DecidingInv
<1>5. ASSUME NEW e \in Emails, BeginSend(w, e) PROVE JobInv(w)' /\ SlotHeld(w)'
  <2>a. PICK l : l = link[e]
      OBVIOUS
  <2>1. /\ l \in Approvals /\ status[l] = "approved" /\ Risky(l) /\ Kind[l] = "reply"
        /\ worker[w].at = "idle"
        /\ GotoSlot(w, "claim", l)
      BY <1>a, <1>5, <2>a DEF BeginSend, ReplySendable, Risky
  <2>2. Granted(l)
      BY <1>a, <2>1 DEF IInv, DecisionInv
  <2>3. worker[w].job = NoApproval /\ worker[w].result = "skipped"
      BY <1>a, <2>1, WorkerFacts DEF NoWork
  <2>4. worker'[w].at = "claim" /\ worker'[w].slot = l
        /\ worker'[w].job = NoApproval /\ worker'[w].result = "skipped"
    <3>1. worker'[w].at = "claim" /\ worker'[w].slot = l
          /\ worker'[w].job = worker[w].job /\ worker'[w].result = worker[w].result
        BY <1>1, <2>1, Steps, SlotChange
    <3>2. QED BY <2>3, <3>1
  <2>5. SameTarget(NoApproval, l)' /\ Untouched(l)'
      BY <2>1 DEF SameTarget, Untouched
  <2>6. Granted(l)'
      BY <1>a, <1>2, <2>1, <2>2
  <2>7. QED BY <1>a, <2>4, <2>5, <2>6, ClaimingInv
<1>6. CASE Reject(w) \/ FinalizeExecution(w) \/ DenyByPolicy(w) \/ Crash(w)
    BY <1>a, <1>1, <1>6, LeftInv DEF Reject, FinalizeExecution, DenyByPolicy, Crash
<1>7. CASE Approve(w)
  <2>1. CASE Leave(w)
      BY <1>a, <1>1, <2>1, LeftInv
  <2>2. CASE ~Leave(w)
    <3>1. Goto(w, "create") /\ granted' = [granted EXCEPT ![a] = worker[w].key]
          /\ worker[w].key # NoKey /\ worker[w].at = "decide"
        BY <1>a, <1>7, <2>2 DEF Approve
    <3>2. a \in Approvals /\ worker[w].key \in Keys /\ worker[w].result = "skipped"
        BY <1>a, <1>1, <3>1, KnownJob, WorkerField, WorkerFacts
    <3>3. worker'[w].at = "create" /\ worker'[w].job = a /\ worker'[w].result = "skipped"
        BY <1>a, <1>1, <3>1, <3>2, Steps, GotoChange
    <3>4. granted'[a] \in Keys
        BY <1>a, <1>1, <3>1, <3>2 DEF TypeOK
    <3>5. Granted(a)'
        BY <3>4 DEF Granted
    <3>6. QED BY <1>a, <3>3, <3>5, DecidingInv
  <2>3. QED BY <1>a, <2>1, <2>2
<1>8. CASE CreateExecution(w)
  <2>1. CASE Leave(w)
      BY <1>a, <1>1, <2>1, LeftInv
  <2>2. CASE ~Leave(w)
    <3>1. worker[w].at = "create"
        BY <1>a, <1>8 DEF CreateExecution
    <3>2. a \in Approvals /\ Granted(a) /\ worker[w].result = "skipped"
        BY <1>a, <1>1, <3>1, KnownJob, WorkerFacts
    <3>3. PICK step \in {"load", "claim", "finalize"} :
            /\ GotoSlot(w, step, a)
            /\ step = "load" => IsMail(a)
        BY <1>a, <1>8, <2>2 DEF CreateExecution
    <3>4. worker'[w].at = step /\ worker'[w].job = a /\ worker'[w].slot = a
          /\ worker'[w].result = "skipped"
      <4>1. worker'[w].at = step /\ worker'[w].slot = a
            /\ worker'[w].job = worker[w].job /\ worker'[w].result = worker[w].result
          BY <1>a, <1>1, <3>2, <3>3, Steps, SlotChange
      <4>2. QED BY <1>a, <3>2, <4>1
    <3>5. Granted(a)'
        BY <1>a, <1>2, <3>2
    <3>a. /\ execution[a].status = "none"
          /\ execution' = [execution EXCEPT ![a] = [status |-> "running", key |-> worker[w].key]]
          /\ UNCHANGED <<executedAt, effects, orphans>>
        BY <1>a, <1>8, <2>2 DEF CreateExecution
    <3>b. execution'[a].status # "none"
        BY <1>1, <3>2, <3>a DEF TypeOK
    <3>6. CASE step \in {"load", "claim"}
      <4>1. SameTarget(a, a)'
          BY <1>a, <3>2, <3>5, ConstantsAssumption DEF SameTarget
      <4>2. Untouched(a)'
          BY <3>2, <3>a DEF IInv, SlotInv, Untouched
      <4>3. QED BY <1>a, <3>3, <3>4, <3>5, <3>6, <3>b, <4>1, <4>2, ClaimingInv
    <3>7. CASE step = "finalize"
      <4>1. JobInv(w)'
          BY <1>a, <3>4, <3>7, <3>b DEF JobInv
      <4>2. SlotHeld(w)'
          BY <1>a, <3>4, <3>7 DEF SlotHeld, SlotSteps, HoldSteps
      <4>3. QED BY <1>a, <4>1, <4>2
    <3>8. QED BY <1>a, <3>6, <3>7
  <2>3. QED BY <1>a, <2>1, <2>2
<1>9. CASE LoadReply(w)
  <2>1. CASE Report(w, "failed")
      BY <1>a, <1>b, <1>1, <1>9, <2>1, Steps, ReportedInv DEF LoadReply
  <2>2. CASE ~Report(w, "failed")
    <3>a. PICK l : l = link[EmailOf[a]]
        OBVIOUS
    <3>1. /\ worker[w].at = "load" /\ Kind[a] = "reply"
          /\ l \in Approvals /\ status[l] = "approved"
          /\ Kind[l] = "reply" /\ EmailOf[l] = EmailOf[a]
          /\ GotoSlot(w, "claim", l)
        BY <1>a, <1>9, <2>2, <1>a, <3>a DEF LoadReply, ReplySendable
    <3>2. a \in Approvals /\ Granted(a) /\ worker[w].result = "skipped"
        BY <1>a, <1>1, <3>1, KnownJob, WorkerFacts, ConstantsAssumption
    <3>3. Granted(l)
        BY <1>a, <3>1 DEF IInv, DecisionInv, Risky
    <3>4. worker'[w].at = "claim" /\ worker'[w].job = a /\ worker'[w].slot = l
          /\ worker'[w].result = "skipped"
      <4>1. worker'[w].at = "claim" /\ worker'[w].slot = l
            /\ worker'[w].job = worker[w].job /\ worker'[w].result = worker[w].result
          BY <1>a, <1>1, <3>1, <3>2, Steps, SlotChange
      <4>2. QED BY <1>a, <3>2, <4>1
    <3>5. Granted(l)' /\ Granted(a)'
        BY <1>a, <1>2, <3>1, <3>2, <3>3
    <3>6. SameTarget(a, l)' /\ Untouched(l)'
        BY <1>a, <3>1, <3>5 DEF SameTarget, Untouched
    <3>7. QED BY <1>a, <1>b, <3>1, <3>4, <3>5, <3>6, ClaimingInv
  <2>3. QED BY <1>a, <2>1, <2>2
<1>10. CASE LoadCompose(w)
  <2>1. CASE Report(w, "failed")
      BY <1>a, <1>b, <1>1, <1>10, <2>1, Steps, ReportedInv DEF LoadCompose
  <2>2. CASE Goto(w, "claim")
    <3>1. worker[w].at = "load" /\ UNCHANGED <<executedAt, effects, orphans>>
        BY <1>a, <1>10 DEF LoadCompose, effectVars
    <3>2. worker'[w].at = "claim" /\ worker'[w].job = a /\ worker'[w].slot = s
          /\ worker'[w].result = "skipped"
        BY <1>a, <1>1, <2>2, <3>1, Steps, GotoChange, WorkerFacts
    <3>3. Granted(s)' /\ SameTarget(a, s)'
        BY <1>a, <3>1, TargetKept
    <3>4. Untouched(s)'
        BY <1>a, <3>1, WorkerFacts DEF Untouched
    <3>5. QED BY <1>a, <1>b, <3>1, <3>2, <3>3, <3>4, ClaimingInv
  <2>3. QED BY <1>a, <1>10, <2>1, <2>2 DEF LoadCompose
<1>11. CASE ClaimSlot(w)
  <2>1. CASE executedAt[s] # Nobody
      BY <1>a, <1>b, <1>1, <1>11, <2>1, Steps, ReportedInv DEF ClaimSlot
  <2>2. CASE executedAt[s] = Nobody
    <3>1. worker[w].at = "claim" /\ executedAt' = [executedAt EXCEPT ![s] = w]
          /\ UNCHANGED <<effects, orphans>>
          /\ Goto(w, IF IsMail(s) THEN "sending" ELSE "running")
        BY <1>a, <1>11, <2>2 DEF ClaimSlot
    <3>2. s \in Approvals /\ worker[w].result = "skipped"
        BY <1>a, <3>1, WorkerFacts
    <3>3. executedAt'[s] = w
        BY <1>a, <1>1, <3>1, <3>2 DEF TypeOK
    <3>4. Unused(s)
      <4>1. Untouched(s) /\ Unsent(s)
          BY <1>a, <2>2, <3>1, <3>2, WorkerFacts DEF IInv, SlotInv
      <4>2. QED BY <4>1 DEF Untouched, Unsent, Unused, MayRepeat
    <3>5. Unused(s)'
        BY <1>a, <3>1, <3>4 DEF Unused, MayRepeat
    <3>6. worker'[w].at = (IF IsMail(s) THEN "sending" ELSE "running")
          /\ worker'[w].job = a /\ worker'[w].slot = s /\ worker'[w].result = "skipped"
        BY <1>a, <1>1, <3>1, <3>2, Steps, GotoChange
    <3>7. Granted(s)' /\ SameTarget(a, s)'
        BY <1>a, <3>1, TargetKept
    <3>8. QED BY <1>a, <1>b, <3>1, <3>3, <3>5, <3>6, <3>7, HoldingInv
  <2>3. QED BY <1>a, <2>1, <2>2
<1>12. ASSUME NEW outcome \in Outcomes, RunHandler(w, outcome)
       PROVE JobInv(w)' /\ SlotHeld(w)'
  <2>1. /\ worker[w].at = "running" /\ Report(w, outcome)
        /\ \/ effects' = [effects EXCEPT ![s] = @ + 1]
           \/ outcome = "failed"
      BY <1>a, <1>12 DEF RunHandler, Perform
  <2>2. s \in Approvals /\ ~IsMail(s)
      BY <1>a, <2>1, WorkerFacts
  <2>3. outcome = "succeeded" => effects'[s] > 0
      BY <1>a, <1>1, <2>1, <2>2 DEF TypeOK
  <2>4. a # NoApproval => s = a /\ Kind[a] # "reply"
      BY <1>a, <2>1, <2>2, WorkerFacts DEF IsMail
  <2>5. a # NoApproval /\ outcome = "succeeded" => Realized(a)'
      BY <1>a, <2>3, <2>4 DEF Realized
  <2>6. QED BY <1>a, <1>b, <1>1, <2>1, <2>5, ReportedInv
<1>13. CASE SendDelivered(w)
  <2>1. /\ worker[w].at = "sending" /\ effects' = [effects EXCEPT ![s] = @ + 1]
        /\ executedAt' = executedAt
        /\ IF Kind[s] = "reply" THEN Goto(w, "mark") ELSE Report(w, "succeeded")
      BY <1>a, <1>13 DEF SendDelivered, Perform
  <2>2. s \in Approvals /\ worker[w].result = "skipped" /\ executedAt'[s] = w
      BY <1>a, <2>1, WorkerFacts
  <2>3. effects'[s] > 0
      BY <1>a, <1>1, <2>1, <2>2 DEF TypeOK
  <2>4. CASE Kind[s] = "reply"
    <3>1. worker'[w].at = "mark" /\ worker'[w].job = a /\ worker'[w].slot = s
          /\ worker'[w].result = "skipped"
        BY <1>a, <1>1, <2>1, <2>2, <2>4, Steps, GotoChange
    <3>2. Granted(s)' /\ SameTarget(a, s)'
        BY <1>a, <2>1, TargetKept
    <3>3. QED BY <1>a, <1>b, <2>1, <2>2, <2>3, <2>4, <3>1, <3>2, HoldingInv
  <2>5. CASE Kind[s] # "reply"
    <3>1. a # NoApproval => s = a
        BY <1>a, <2>1, <2>5, WorkerFacts
    <3>2. a # NoApproval => Realized(a)'
        BY <1>a, <2>3, <2>5, <3>1 DEF Realized
    <3>3. QED BY <1>a, <1>b, <1>1, <2>1, <2>5, <3>2, Steps, ReportedInv
  <2>6. QED BY <1>a, <2>4, <2>5
<1>14. CASE SendRefused(w)
  <2>1. /\ worker[w].at = "sending" /\ UNCHANGED <<executedAt, orphans>>
        /\ Goto(w, "release") /\ (~AmbiguousSend => effects' = effects)
      BY <1>a, <1>14 DEF SendRefused
  <2>2. s \in Approvals /\ worker[w].result = "skipped" /\ executedAt'[s] = w
        /\ Unused(s) /\ IsMail(s)
      BY <1>a, <2>1, WorkerFacts
  <2>3. worker'[w].at = "release" /\ worker'[w].job = a /\ worker'[w].slot = s
        /\ worker'[w].result = "skipped"
      BY <1>a, <1>1, <2>1, <2>2, Steps, GotoChange
  <2>4. Granted(s)' /\ SameTarget(a, s)'
      BY <1>a, <2>1, TargetKept
  <2>5. Unsent(s)'
      BY <1>a, <2>1, <2>2 DEF Unused, Unsent, MayRepeat
  <2>6. QED BY <1>a, <1>b, <2>1, <2>2, <2>3, <2>4, <2>5, HoldingInv
<1>15. CASE SendTimedOut(w) \/ ReleaseSlot(w)
    BY <1>a, <1>b, <1>1, <1>15, Steps, ReportedInv DEF SendTimedOut, ReleaseSlot
<1>16. CASE MarkReplySent(w)
  <2>1. worker[w].at = "mark" /\ Report(w, "succeeded") /\ effects' = effects
      BY <1>a, <1>16 DEF MarkReplySent
  <2>2. s \in Approvals /\ Kind[s] = "reply" /\ effects'[s] > 0
        /\ (a # NoApproval => Kind[a] = "reply" /\ EmailOf[a] = EmailOf[s])
      BY <1>a, <2>1, WorkerFacts
  <2>3. a # NoApproval => Realized(a)'
      BY <1>a, <2>2 DEF Realized
  <2>4. QED BY <1>a, <1>b, <1>1, <2>1, <2>3, Steps, ReportedInv
<1>17. QED
    BY <1>3, <1>4, <1>5, <1>6, <1>7, <1>8, <1>9, <1>10, <1>11, <1>12, <1>13, <1>14,
       <1>15, <1>16 DEF Begin, Continue

(* The step of one worker leaves every slot alone but the one it holds or  *)
(* finds empty.                                                            *)
LEMMA OtherSlots ==
    ASSUME TypeOK, NEW w \in Workers, NEW b \in Approvals,
           Begin(w) \/ Continue(w) \/ DenyByPolicy(w) \/ Crash(w),
           worker[w].at \in HoldSteps => worker[w].slot # b,
           worker[w].at = "claim" /\ worker[w].slot = b => executedAt[b] # Nobody
    PROVE  /\ executedAt'[b] = executedAt[b]
           /\ effects'[b] = effects[b]
           /\ b \in orphans' <=> b \in orphans
<1> USE DEF effectVars, HoldSteps
<1>1. CASE Begin(w) \/ DenyByPolicy(w)
    BY <1>1 DEF Begin, BeginApprove, BeginReject, BeginSend, DenyByPolicy
<1>2. CASE Approve(w) \/ Reject(w) \/ CreateExecution(w) \/ LoadReply(w) \/ LoadCompose(w)
           \/ MarkReplySent(w) \/ FinalizeExecution(w)
    BY <1>2 DEF Approve, Reject, CreateExecution, LoadReply, LoadCompose, MarkReplySent,
                FinalizeExecution
<1>3. CASE ClaimSlot(w)
    BY <1>3 DEF ClaimSlot, TypeOK
<1>4. ASSUME NEW outcome \in Outcomes,
             RunHandler(w, outcome) \/ SendDelivered(w) \/ SendRefused(w)
      PROVE /\ executedAt'[b] = executedAt[b]
            /\ effects'[b] = effects[b]
            /\ b \in orphans' <=> b \in orphans
    BY <1>4 DEF RunHandler, SendDelivered, SendRefused, Perform, TypeOK
<1>5. CASE SendTimedOut(w) \/ ReleaseSlot(w)
    BY <1>5 DEF SendTimedOut, ReleaseSlot, TypeOK
<1>6. CASE Crash(w)
    BY <1>6 DEF Crash, Perform, TypeOK
<1>7. QED BY <1>1, <1>2, <1>3, <1>4, <1>5, <1>6, Steps DEF Continue

(* Only a worker that executes an approval touches its slot, unless it is  *)
(* the approval of a reply.                                                *)
LEMMA OwnSlot ==
    ASSUME IInv, NEW w \in Workers, NEW s, s = worker[w].slot, Kind[s] # "reply",
           worker[w].at \in {"load", "claim", "running", "sending", "release", "mark"}
    PROVE  Executing(w) /\ worker[w].job = s
BY WorkerFacts DEF Executing, SlotSteps

LEMMA WorkersKept ==
    ASSUME IInv, [Next]_vars, NEW v \in Workers
    PROVE  JobInv(v)' /\ SlotHeld(v)'
<1> DEFINE s == worker[v].slot
<1>1. TypeOK
    BY DEF IInv
<1>2. /\ worker[v].at \in HoldSteps => s \in Approvals /\ executedAt[s] = v /\ v # Nobody
      /\ worker[v].at \in {"running", "sending"} => worker[v].at \in HoldSteps /\ Unused(s)
      /\ worker[v].at = "release" => worker[v].at \in HoldSteps /\ Unsent(s)
      /\ worker[v].at \in {"load", "claim"} => s \in Approvals /\ Untouched(s)
    BY WorkerFacts, ConstantsAssumption DEF HoldSteps
<1>3. ASSUME NEW w \in Workers, Begin(w) \/ Continue(w) \/ DenyByPolicy(w) \/ Crash(w)
      PROVE JobInv(v)' /\ SlotHeld(v)'
  <2>1. CASE v = w
      BY <1>3, <2>1, OwnStep
  <2>2. CASE v # w
    <3>1. worker'[v] = worker[v]
        BY <1>1, <1>3, <2>2, OthersStay
    <3>2. worker[v].at \in HoldSteps /\ worker[w].at \in HoldSteps => worker[w].slot # s
        BY <1>2, <2>2, WorkerFacts DEF HoldSteps
    <3>3. worker[v].at \in HoldSteps =>
            /\ executedAt'[s] = executedAt[s] /\ effects'[s] = effects[s]
            /\ s \in orphans' <=> s \in orphans
        BY <1>1, <1>2, <1>3, <3>2, OtherSlots
    <3>4. /\ worker[v].at \in {"running", "sending"} => Unused(s)'
          /\ worker[v].at = "release" => Unsent(s)'
        BY <1>2, <3>1, <3>3 DEF Unused, Unsent, MayRepeat
    <3>5. ASSUME worker[v].at \in {"load", "claim"}, Kind[s] # "reply" PROVE Untouched(s)'
      <4>1. worker[w].at \in HoldSteps \/ worker[w].at = "claim" => worker[w].slot # s
          BY <2>2, <3>5, OwnSlot DEF IInv, OneExecutes, HoldSteps
      <4>2. /\ executedAt'[s] = executedAt[s] /\ effects'[s] = effects[s]
            /\ s \in orphans' <=> s \in orphans
          BY <1>1, <1>2, <1>3, <3>5, <4>1, OtherSlots
      <4>3. QED BY <1>2, <3>1, <3>5, <4>2 DEF Untouched
    <3>6. worker[v].at \in {"load", "claim"} => Untouched(s)'
        BY <3>1, <3>5 DEF Untouched
    <3>7. QED BY <1>2, <3>1, <3>3, <3>4, <3>6, Undisturbed
  <2>3. QED BY <2>1, <2>2
<1>4. ASSUME NEW a \in Approvals, OrphanEnds(a) PROVE JobInv(v)' /\ SlotHeld(v)'
  <2>1. UNCHANGED <<executedAt, worker>>
      BY <1>4 DEF OrphanEnds
  <2>2. \A b \in Approvals \ orphans : effects'[b] = effects[b] /\ b \notin orphans'
      BY <1>1, <1>4 DEF OrphanEnds, Perform, TypeOK
  <2>3. /\ worker[v].at \in {"running", "sending"} => Unused(s)'
        /\ worker[v].at = "release" => Unsent(s)'
        /\ worker[v].at \in {"load", "claim"} => Untouched(s)'
      BY <1>2, <2>1, <2>2 DEF Unused, Unsent, Untouched, MayRepeat
  <2>4. QED BY <1>2, <2>1, <2>3, Undisturbed
<1>5. ASSUME UNCHANGED <<worker, effectVars>> PROVE JobInv(v)' /\ SlotHeld(v)'
    BY <1>2, <1>5, Undisturbed DEF effectVars, Unused, Unsent, Untouched, MayRepeat
<1>6. ASSUME NEW a \in Approvals, Request(a) PROVE JobInv(v)' /\ SlotHeld(v)'
    BY <1>5, <1>6 DEF Request, CheckRequestKey, CreateRequest, StoreRequestKey, AutoApprove,
        LeavePending, StartDraft, RequestDraft, LinkDraft, LoseRequest
<1>7. ASSUME NEW overdue \in SUBSET Approvals, ExpireOverdue(overdue)
      PROVE JobInv(v)' /\ SlotHeld(v)'
    BY <1>5, <1>7 DEF ExpireOverdue
<1>8. QED BY <1>3, <1>4, <1>5, <1>6, <1>7 DEF Next, vars

-----------------------------------------------------------------------------
(* A worker that starts to execute an approval finds it without execution. *)
LEMMA StartsExecuting ==
    ASSUME IInv, NEW w \in Workers,
           Begin(w) \/ Continue(w) \/ DenyByPolicy(w) \/ Crash(w), Executing(w)'
    PROVE  \/ Executing(w) /\ worker'[w].job = worker[w].job
           \/ /\ worker'[w].job \in Approvals
              /\ execution[worker'[w].job].status = "none"
<1> DEFINE Goal == \/ Executing(w) /\ worker'[w].job = worker[w].job
                   \/ /\ worker'[w].job \in Approvals
                      /\ execution[worker'[w].job].status = "none"
<1> USE Steps DEF Executing
<1>a. TypeOK
    BY DEF IInv
<1>1. worker'[w].at \in SlotSteps \cup {"finalize"} /\ NoWork.at = "idle"
      /\ "idle" \notin SlotSteps \cup {"finalize"}
    BY DEF NoWork
<1>2. ASSUME NEW a \in Approvals, NEW k \in Keys \cup {NoKey}, BeginApprove(w, a, k) PROVE Goal
    BY <1>2, <1>a, JobChange
<1>3. ASSUME NEW a \in Approvals, BeginReject(w, a) PROVE Goal
    BY <1>3, <1>a, RejectChange
<1>4. ASSUME NEW o \in Outcomes, Report(w, o), worker[w].at \in SlotSteps PROVE Goal
  <2>1. CASE worker[w].job = NoApproval
      BY <1>1, <1>4, <2>1, <1>a, ReportChange
  <2>2. CASE worker[w].job # NoApproval
      BY <1>4, <2>2, <1>a, ReportChange
  <2>3. QED BY <2>1, <2>2
<1>5. ASSUME NEW step \in SlotSteps \ {"load"}, Goto(w, step), worker[w].at \in SlotSteps PROVE Goal
    BY <1>5, KnownJob, <1>a, GotoChange DEF SlotSteps
<1>6. ASSUME NEW e \in Emails, BeginSend(w, e) PROVE Goal
  <2>1. worker[w].at = "idle" /\ worker[w].job = NoApproval
      BY <1>6, WorkerFacts DEF BeginSend, NoWork
  <2>2. link[e] \in Approvals /\ GotoSlot(w, "claim", link[e])
      BY <1>6 DEF BeginSend, ReplySendable
  <2>3. QED BY <2>1, <2>2, <1>a, SlotChange
<1>7. CASE Leave(w)
    BY <1>1, <1>7, <1>a, LeaveChange
<1>8. CASE CreateExecution(w)
    BY <1>7, <1>8, KnownJob, <1>a, SlotChange DEF CreateExecution
<1>9. CASE LoadReply(w)
  <2>1. CASE Report(w, "failed")
      BY <1>4, <1>9, <2>1 DEF LoadReply, SlotSteps
  <2>2. CASE ~Report(w, "failed")
    <3>1. PICK l \in Approvals : GotoSlot(w, "claim", l) /\ worker[w].at = "load"
        BY <1>9, <2>2 DEF LoadReply, ReplySendable
    <3>2. QED BY <3>1, <1>a, SlotChange DEF SlotSteps
  <2>3. QED BY <2>1, <2>2
<1>10. CASE Approve(w)
    BY <1>7, <1>10, KnownJob, <1>a, GotoChange DEF Approve
<1>11. CASE Reject(w) \/ FinalizeExecution(w) \/ DenyByPolicy(w) \/ Crash(w)
    BY <1>7, <1>11 DEF Reject, FinalizeExecution, DenyByPolicy, Crash
<1>12. CASE LoadCompose(w) \/ ClaimSlot(w) \/ SendDelivered(w) \/ SendRefused(w)
    BY <1>4, <1>5, <1>12 DEF LoadCompose, ClaimSlot, SendDelivered, SendRefused, SlotSteps
<1>13. CASE SendTimedOut(w) \/ ReleaseSlot(w) \/ MarkReplySent(w)
    BY <1>4, <1>13 DEF SendTimedOut, ReleaseSlot, MarkReplySent, SlotSteps
<1>14. ASSUME NEW outcome \in Outcomes, RunHandler(w, outcome) PROVE Goal
    BY <1>4, <1>14 DEF RunHandler, SlotSteps
<1>15. QED
    BY <1>2, <1>3, <1>6, <1>8, <1>9, <1>10, <1>11, <1>12, <1>13, <1>14 DEF Begin, Continue

(* An approval is executed by one worker.                                  *)
LEMMA OneKept ==
    ASSUME IInv, [Next]_vars
    PROVE  OneExecutes'
<1>1. TypeOK /\ OneExecutes
    BY DEF IInv
<1>2. \A v \in Workers :
        Executing(v) => worker[v].job \in Approvals /\ execution[worker[v].job].status # "none"
    BY <1>1, WorkerField DEF IInv, JobInv, Executing
<1>3. ASSUME UNCHANGED worker PROVE OneExecutes'
    BY <1>1, <1>3 DEF OneExecutes, Executing
<1>4. ASSUME NEW w \in Workers, Begin(w) \/ Continue(w) \/ DenyByPolicy(w) \/ Crash(w)
      PROVE OneExecutes'
  <2>1. \A v \in Workers \ {w} : worker'[v] = worker[v]
      BY <1>1, <1>4, OthersStay
  <2>2. \A v \in Workers \ {w} : Executing(v)' => Executing(v)
      BY <2>1 DEF Executing
  <2>3. ASSUME NEW v \in Workers \ {w}, Executing(v)', Executing(w)',
               worker'[v].job = worker'[w].job
        PROVE FALSE
    <3>1. Executing(v) /\ worker[v].job = worker'[w].job
        BY <2>1, <2>2, <2>3
    <3>2. Executing(w) /\ worker'[w].job = worker[w].job
        BY <1>2, <1>4, <2>3, <3>1, StartsExecuting
    <3>3. QED BY <1>1, <3>1, <3>2 DEF OneExecutes
  <2>4. QED BY <1>1, <2>1, <2>2, <2>3 DEF OneExecutes
<1>5. ASSUME NEW a \in Approvals, Request(a) PROVE UNCHANGED worker
    BY <1>5 DEF Request, CheckRequestKey, CreateRequest, StoreRequestKey, AutoApprove,
        LeavePending, StartDraft, RequestDraft, LinkDraft, LoseRequest
<1>6. ASSUME NEW a \in Approvals, OrphanEnds(a) PROVE UNCHANGED worker
    BY <1>6 DEF OrphanEnds
<1>7. ASSUME NEW overdue \in SUBSET Approvals, ExpireOverdue(overdue) PROVE UNCHANGED worker
    BY <1>7 DEF ExpireOverdue
<1>8. QED BY <1>3, <1>4, <1>5, <1>6, <1>7 DEF Next, vars

-----------------------------------------------------------------------------
(* The decision on a row: only pending rows are granted or refused.        *)
LEMMA DecisionKept ==
    ASSUME IInv, [Next]_vars
    PROVE  DecisionInv'
<1> USE DEF requestVars
<1>1. TypeOK /\ TypeOK' /\ DecisionInv
    BY TypeStep DEF IInv
<1>2. ASSUME NEW a \in Approvals, Request(a) PROVE DecisionInv'
  <2>1. UNCHANGED <<granted, refused>>
      BY <1>2 DEF Request, CheckRequestKey, CreateRequest, StoreRequestKey, AutoApprove,
          LeavePending, StartDraft, RequestDraft, LinkDraft, LoseRequest
  <2>2. \A b \in Approvals \ {a} : status'[b] = status[b] /\ rpc'[b] = rpc[b]
      BY <1>1, <1>2 DEF Request, CheckRequestKey, CreateRequest, StoreRequestKey, AutoApprove,
          LeavePending, StartDraft, RequestDraft, LinkDraft, LoseRequest, MoveRequest, TypeOK
  <2>3. CASE CreateRequest(a) \/ RequestDraft(a)
    <3>1. /\ status[a] = "absent" /\ status'[a] = "pending"
          /\ rpc'[a] \notin {"idle", "replayed", "checked", "drafting"}
        BY <1>1, <2>3 DEF CreateRequest, RequestDraft, MoveRequest, TypeOK, DecisionInv
    <3>2. QED BY <1>1, <2>1, <2>2, <3>1 DEF DecisionInv, Granted
  <2>4. CASE AutoApprove(a)
    <3>1. /\ ~Risky(a) /\ status'[a] = "approved" /\ rpc'[a] = "done"
        BY <1>1, <2>4 DEF AutoApprove, TypeOK
    <3>2. QED BY <1>1, <2>1, <2>2, <3>1 DEF DecisionInv, Granted
  <2>5. CASE ~(CreateRequest(a) \/ RequestDraft(a) \/ AutoApprove(a))
    <3>1. /\ status'[a] = status[a]
          /\ rpc'[a] \in {"idle", "replayed", "checked", "drafting"} => rpc[a] = "idle"
        BY <1>1, <1>2, <2>5 DEF Request, CheckRequestKey, StoreRequestKey, LeavePending,
            StartDraft, LinkDraft, LoseRequest, MoveRequest, TypeOK
    <3>2. QED BY <1>1, <2>1, <2>2, <3>1 DEF DecisionInv, Granted
  <2>6. QED BY <2>3, <2>4, <2>5
<1>3. ASSUME NEW w \in Workers, Approve(w) PROVE DecisionInv'
  <2>1. PICK a, k : a = worker[w].job /\ k = worker[w].key
      OBVIOUS
  <2>2. worker[w].at = "decide" /\ UNCHANGED <<rpc, refused>>
      BY <1>3 DEF Approve
  <2>3. a \in Approvals /\ k \in Keys \cup {NoKey} /\ (Risky(a) => k \in Keys)
      BY <1>1, <2>1, <2>2, KnownJob, WorkerField, WorkerFacts
  <2>4. CASE status[a] = "pending"
    <3>1. /\ status' = [status EXCEPT ![a] = "approved"]
          /\ granted' = [granted EXCEPT ![a] = k]
        BY <1>3, <2>1, <2>4 DEF Approve
    <3>2. /\ status'[a] = "approved" /\ granted'[a] = k /\ ~refused'[a]
          /\ rpc'[a] \notin {"idle", "replayed", "checked", "drafting"}
        BY <1>1, <2>2, <2>3, <2>4, <3>1 DEF TypeOK, DecisionInv
    <3>3. \A b \in Approvals \ {a} : /\ status'[b] = status[b] /\ granted'[b] = granted[b]
                                     /\ refused'[b] = refused[b] /\ rpc'[b] = rpc[b]
        BY <1>1, <2>2, <3>1 DEF TypeOK
    <3>4. QED BY <1>1, <2>3, <3>2, <3>3 DEF DecisionInv, Granted
  <2>5. CASE status[a] # "pending"
      BY <1>1, <1>3, <2>1, <2>5 DEF Approve, DecisionInv, Granted
  <2>6. QED BY <2>4, <2>5
<1>4. ASSUME NEW w \in Workers, Reject(w) PROVE DecisionInv'
  <2>1. PICK a : a = worker[w].job
      OBVIOUS
  <2>2. a \in Approvals /\ UNCHANGED <<rpc, granted>>
      BY <1>1, <1>4, <2>1, KnownJob DEF Reject
  <2>3. CASE status[a] = "pending"
    <3>1. /\ status' = [status EXCEPT ![a] = "rejected"]
          /\ refused' = [refused EXCEPT ![a] = TRUE]
        BY <1>4, <2>1, <2>3 DEF Reject
    <3>2. QED BY <1>1, <2>2, <2>3, <3>1 DEF DecisionInv, Granted, TypeOK
  <2>4. CASE status[a] # "pending"
      BY <1>1, <1>4, <2>1, <2>4 DEF Reject, DecisionInv, Granted
  <2>5. QED BY <2>3, <2>4
<1>5. ASSUME NEW overdue \in SUBSET Approvals, ExpireOverdue(overdue) PROVE DecisionInv'
    BY <1>1, <1>5 DEF ExpireOverdue, DecisionInv, Granted
<1>6. ASSUME UNCHANGED requestVars PROVE DecisionInv'
    BY <1>1, <1>6 DEF DecisionInv, Granted
<1>7. ASSUME NEW w \in Workers, Begin(w) \/ Continue(w) \/ DenyByPolicy(w) \/ Crash(w)
      PROVE DecisionInv'
  <2>1. CASE Approve(w) \/ Reject(w)
      BY <1>3, <1>4, <2>1
  <2>2. CASE ~(Approve(w) \/ Reject(w))
      BY <1>6, <1>7, <2>2 DEF Begin, BeginApprove, BeginReject, BeginSend, Continue,
         CreateExecution, LoadReply, LoadCompose, ClaimSlot, RunHandler, SendDelivered,
         SendRefused, SendTimedOut, ReleaseSlot, MarkReplySent, FinalizeExecution,
         DenyByPolicy, Crash
  <2>3. QED BY <2>1, <2>2
<1>8. ASSUME NEW a \in Approvals, OrphanEnds(a) PROVE DecisionInv'
    BY <1>6, <1>8 DEF OrphanEnds
<1>9. QED BY <1>2, <1>5, <1>6, <1>7, <1>8 DEF Next, vars

-----------------------------------------------------------------------------
(* How a step may change the effects: not at all, or by performing an      *)
(* approval that is granted, claimed and, but for an ambiguous mail client, *)
(* still unused.                                                           *)
LEMMA EffectStep ==
    ASSUME IInv, [Next]_vars
    PROVE  \/ effects' = effects
           \/ \E b \in Approvals :
                /\ effects' = [effects EXCEPT ![b] = @ + 1]
                /\ Granted(b) /\ (~MayRepeat(b) => effects[b] = 0)
                /\ executedAt[b] # Nobody /\ executedAt' = executedAt
                /\ b \notin orphans' /\ orphans' \subseteq orphans
                /\ UNCHANGED requestVars
<1> DEFINE Performed(b) ==
                /\ effects' = [effects EXCEPT ![b] = @ + 1]
                /\ Granted(b) /\ (~MayRepeat(b) => effects[b] = 0)
                /\ executedAt[b] # Nobody /\ executedAt' = executedAt
                /\ b \notin orphans' /\ orphans' \subseteq orphans
                /\ UNCHANGED requestVars
<1>1. CASE UNCHANGED effectVars
    BY <1>1 DEF effectVars
<1>2. ASSUME NEW w \in Workers, Begin(w) \/ Continue(w) \/ DenyByPolicy(w) \/ Crash(w)
      PROVE effects' = effects \/ \E b \in Approvals : Performed(b)
  <2>1. PICK s : s = worker[w].slot
      OBVIOUS
  <2>2. ASSUME worker[w].at \in {"running", "sending"}, Perform(s),
               UNCHANGED <<executedAt, orphans, requestVars>>
        PROVE \E b \in Approvals : Performed(b)
    <3>1. s \in Approvals /\ Granted(s) /\ Unused(s) /\ executedAt[s] = w
        BY <2>1, <2>2, WorkerFacts
    <3>2. executedAt[s] # Nobody
        BY <3>1, ConstantsAssumption
    <3>3. Performed(s)
        BY <2>2, <3>1, <3>2 DEF Perform, Unused
    <3>4. QED BY <3>1, <3>3
  <2>3. ASSUME NEW outcome \in Outcomes, RunHandler(w, outcome)
        PROVE effects' = effects \/ \E b \in Approvals : Performed(b)
      BY <2>1, <2>2, <2>3 DEF RunHandler
  <2>4. CASE SendDelivered(w)
      BY <2>1, <2>2, <2>4 DEF SendDelivered
  <2>5. CASE SendRefused(w)
      BY <2>1, <2>2, <2>5 DEF SendRefused
  <2>6. CASE Crash(w)
      BY <2>1, <2>2, <2>6 DEF Crash
  <2>7. CASE Begin(w) \/ DenyByPolicy(w) \/ Approve(w) \/ Reject(w) \/ CreateExecution(w)
             \/ LoadReply(w) \/ LoadCompose(w) \/ ClaimSlot(w) \/ SendTimedOut(w)
             \/ ReleaseSlot(w) \/ MarkReplySent(w) \/ FinalizeExecution(w)
      BY <2>7 DEF effectVars, Begin, BeginApprove, BeginReject, BeginSend, DenyByPolicy, Approve,
         Reject, CreateExecution, LoadReply, LoadCompose, ClaimSlot, SendTimedOut, ReleaseSlot,
         MarkReplySent, FinalizeExecution
  <2>8. QED BY <1>2, <2>3, <2>4, <2>5, <2>6, <2>7 DEF Continue
<1>3. ASSUME NEW a \in Approvals, OrphanEnds(a)
      PROVE effects' = effects \/ \E b \in Approvals : Performed(b)
  <2>1. (~MayRepeat(a) => effects[a] = 0) /\ executedAt[a] # Nobody /\ Granted(a)
      BY <1>3 DEF OrphanEnds, IInv, SlotInv, Unsent
  <2>2. Perform(a) => Performed(a)
      BY <1>3, <2>1 DEF OrphanEnds, Perform
  <2>3. QED BY <1>3, <2>2 DEF OrphanEnds
<1>4. ASSUME NEW a \in Approvals, Request(a) PROVE UNCHANGED effectVars
    BY <1>4 DEF Request, CheckRequestKey, CreateRequest, StoreRequestKey, AutoApprove,
        LeavePending, StartDraft, RequestDraft, LinkDraft, LoseRequest
<1>5. ASSUME NEW overdue \in SUBSET Approvals, ExpireOverdue(overdue) PROVE UNCHANGED effectVars
    BY <1>5 DEF ExpireOverdue
<1>6. CASE UNCHANGED vars
    BY <1>6 DEF vars, effectVars
<1>7. QED BY <1>1, <1>2, <1>3, <1>4, <1>5, <1>6 DEF Next

(* How a step may change a slot without any effect: a worker claims an     *)
(* empty one, hands back one it has not used, or leaves a send running.    *)
LEMMA SlotStep ==
    ASSUME IInv, [Next]_vars, NEW a \in Approvals
    PROVE  /\ executedAt[a] = Nobody /\ executedAt'[a] # Nobody
                => /\ Granted(a) /\ effects' = effects /\ orphans' = orphans
                   /\ Kind[a] # "reply" => execution[a].status # "none"
           /\ executedAt[a] # Nobody /\ executedAt'[a] = Nobody
                => Unsent(a) /\ effects' = effects /\ orphans' = orphans
           /\ a \in orphans' \ orphans
                => /\ ~MayRepeat(a) => effects[a] = 0
                   /\ effects' = effects /\ executedAt' = executedAt
                   /\ executedAt[a] # Nobody
<1> USE DEF effectVars
<1>1. TypeOK
    BY DEF IInv
<1>2. CASE UNCHANGED <<executedAt, orphans>>
    BY <1>2
<1>3. ASSUME NEW w \in Workers, Begin(w) \/ Continue(w) \/ DenyByPolicy(w) \/ Crash(w),
             ~ UNCHANGED <<executedAt, orphans>>
      PROVE ClaimSlot(w) \/ ReleaseSlot(w) \/ SendTimedOut(w)
    BY <1>3 DEF Begin, BeginApprove, BeginReject, BeginSend, DenyByPolicy, Crash, Continue,
       Approve, Reject, CreateExecution, LoadReply, LoadCompose, RunHandler, SendDelivered,
       SendRefused, MarkReplySent, FinalizeExecution
<1>4. ASSUME NEW b \in Approvals, OrphanEnds(b)
      PROVE executedAt' = executedAt /\ orphans' \subseteq orphans
    BY <1>4 DEF OrphanEnds
<1>5. ASSUME NEW b \in Approvals, Request(b) PROVE UNCHANGED effectVars
    BY <1>5 DEF Request, CheckRequestKey, CreateRequest, StoreRequestKey, AutoApprove,
        LeavePending, StartDraft, RequestDraft, LinkDraft, LoseRequest
<1>6. ASSUME NEW overdue \in SUBSET Approvals, ExpireOverdue(overdue) PROVE UNCHANGED effectVars
    BY <1>6 DEF ExpireOverdue
<1>7. ASSUME NEW w \in Workers, ClaimSlot(w)
      PROVE /\ executedAt[a] = Nobody /\ executedAt'[a] # Nobody =>
                    Granted(a) /\ (Kind[a] # "reply" => execution[a].status # "none")
            /\ executedAt[a] # Nobody => executedAt'[a] # Nobody
            /\ UNCHANGED <<effects, orphans>>
  <2>1. worker[w].at = "claim" /\ UNCHANGED <<effects, orphans>>
      BY <1>7 DEF ClaimSlot
  <2>2. worker[w].slot \in Approvals /\ Granted(worker[w].slot)
        /\ (Kind[worker[w].slot] # "reply" => execution[worker[w].slot].status # "none")
      BY <2>1, WorkerFacts, OwnSlot DEF Executing
  <2>3. /\ executedAt[a] = Nobody /\ executedAt'[a] # Nobody => a = worker[w].slot
        /\ executedAt[a] # Nobody => executedAt'[a] # Nobody
      BY <1>1, <1>7, <2>2, ConstantsAssumption DEF ClaimSlot, TypeOK
  <2>4. QED BY <2>1, <2>2, <2>3
<1>8. ASSUME NEW w \in Workers, ReleaseSlot(w)
      PROVE /\ executedAt[a] # Nobody /\ executedAt'[a] = Nobody => Unsent(a)
            /\ executedAt[a] = Nobody => executedAt'[a] = Nobody
            /\ UNCHANGED <<effects, orphans>>
  <2>1. worker[w].at = "release" /\ UNCHANGED <<effects, orphans>>
      BY <1>8 DEF ReleaseSlot
  <2>2. worker[w].slot \in Approvals /\ Unsent(worker[w].slot)
      BY <2>1, WorkerFacts
  <2>3. /\ executedAt[a] # Nobody /\ executedAt'[a] = Nobody => a = worker[w].slot
        /\ executedAt[a] = Nobody => executedAt'[a] = Nobody
      BY <1>1, <1>8, <2>2 DEF ReleaseSlot, TypeOK
  <2>4. QED BY <2>1, <2>2, <2>3
<1>9. ASSUME NEW w \in Workers, SendTimedOut(w)
      PROVE /\ a \in orphans' \ orphans =>
                    (~MayRepeat(a) => effects[a] = 0) /\ executedAt[a] # Nobody
            /\ UNCHANGED <<effects, executedAt>>
  <2>1. worker[w].at = "sending" /\ UNCHANGED <<effects, executedAt>>
      BY <1>9 DEF SendTimedOut
  <2>2. Unused(worker[w].slot) /\ executedAt[worker[w].slot] = w
      BY <2>1, WorkerFacts
  <2>3. QED BY <1>9, <2>1, <2>2, ConstantsAssumption DEF SendTimedOut, Unused
<1>10. QED
    BY <1>2, <1>3, <1>4, <1>5, <1>6, <1>7, <1>8, <1>9 DEF Next, vars

LEMMA SlotKept ==
    ASSUME IInv, [Next]_vars
    PROVE  SlotInv'
<1>1. TypeOK /\ TypeOK' /\ SlotInv
    BY TypeStep DEF IInv
<1>2. \A a \in Approvals : Granted(a) => Granted(a)'
    BY GrantKept, ConstantsAssumption DEF Granted, Ungranted
<1>3. SUFFICES ASSUME NEW a \in Approvals
               PROVE  /\ executedAt'[a] = Nobody => Unsent(a)'
                      /\ executedAt'[a] # Nobody \/ effects'[a] > 0 => Granted(a)'
                      /\ ~MayRepeat(a) => /\ effects'[a] \in {0, 1}
                                          /\ a \in orphans' => effects'[a] = 0
                      /\ execution'[a].status = "none" => Untouched(a)'
    BY DEF SlotInv, MayRepeat
<1>a. execution'[a].status = "none" => execution[a].status = "none" /\ Untouched(a)
    BY <1>1, ExecutionKept DEF SlotInv
<1>4. CASE effects' = effects
    BY <1>1, <1>2, <1>4, <1>a, SlotStep DEF SlotInv, Unsent, Untouched, MayRepeat
<1>5. CASE effects' # effects
  <2>1. PICK b \in Approvals :
                /\ effects' = [effects EXCEPT ![b] = @ + 1]
                /\ Granted(b) /\ (~MayRepeat(b) => effects[b] = 0)
                /\ executedAt[b] # Nobody /\ executedAt' = executedAt
                /\ b \notin orphans' /\ orphans' \subseteq orphans
      BY <1>5, EffectStep
  <2>2. CASE a = b
      BY <1>1, <1>2, <1>a, <2>1, <2>2 DEF TypeOK, SlotInv, Untouched
  <2>3. CASE a # b
      BY <1>1, <1>2, <1>a, <2>1, <2>3 DEF TypeOK, SlotInv, Unsent, Untouched, MayRepeat
  <2>4. QED BY <2>2, <2>3
<1>6. QED BY <1>4, <1>5

LEMMA SucceededKept ==
    ASSUME IInv, [Next]_vars
    PROVE  SucceededIsReal'
<1>1. TypeOK /\ SucceededIsReal
    BY DEF IInv
<1>2. SUFFICES ASSUME NEW a \in Approvals, execution'[a].status = "succeeded"
               PROVE  Realized(a)'
    BY DEF SucceededIsReal
<1>3. CASE execution[a].status = "succeeded"
    BY <1>1, <1>3, RealizedKept DEF SucceededIsReal
<1>4. CASE execution[a].status # "succeeded"
  <2>1. PICK w \in Workers : CreateExecution(w) \/ FinalizeExecution(w)
      BY <1>2, <1>4, ExecutionStep
  <2>2. ~CreateExecution(w)
      BY <1>1, <1>2, <1>4, KnownJob DEF CreateExecution, TypeOK
  <2>3. /\ FinalizeExecution(w) /\ worker[w].at = "finalize" /\ worker[w].job = a
        /\ worker[w].result = "succeeded"
      BY <1>1, <1>2, <1>4, <2>1, <2>2, KnownJob DEF FinalizeExecution, TypeOK
  <2>4. Realized(a)
      BY <2>3, WorkerFacts DEF JobInv
  <2>5. QED BY <1>1, <2>4, RealizedKept
<1>5. QED BY <1>3, <1>4

-----------------------------------------------------------------------------
LEMMA InvInit == Init => IInv
<1>1. ASSUME Init PROVE DecisionInv /\ SlotInv /\ SucceededIsReal
    BY <1>1 DEF Init, DecisionInv, SlotInv, Unsent, Untouched, SucceededIsReal, NoExecution
<1>2. ASSUME Init, NEW w \in Workers PROVE JobInv(w) /\ SlotHeld(w)
    BY <1>2 DEF Init, NoWork, JobInv, SlotHeld, SlotSteps, HoldSteps, Executing
<1>3. Init => OneExecutes
    BY DEF Init, NoWork, OneExecutes, Executing
<1>4. QED BY <1>1, <1>2, <1>3, TypeInit DEF IInv

LEMMA InvStep ==
    ASSUME IInv, [Next]_vars
    PROVE  IInv'
BY TypeStep, DecisionKept, SlotKept, OneKept, SucceededKept, WorkersKept DEF IInv

(* The inductive invariant holds in every reachable state, whatever the    *)
(* mail client reports.                                                    *)
THEOREM Invariance == Spec => []IInv
<1>1. IInv /\ [Next]_vars => IInv'
    BY InvStep
<1>2. QED BY InvInit, <1>1, PTL DEF Spec

(* Whatever the mail client reports, only a reply can be carried out       *)
(* twice: handlers and composed mails run under their own execution.       *)
THEOREM OnlyRepliesRepeat ==
    Spec => [](\A a \in Approvals : Kind[a] # "reply" => effects[a] <= 1)
<1>1. IInv => \A a \in Approvals : Kind[a] # "reply" => effects[a] <= 1
    BY DEF IInv, SlotInv, MayRepeat
<1>2. QED BY <1>1, Invariance, PTL

(* No approval is carried out twice, however many workers approve, send,   *)
(* retry, time out and crash.                                              *)
THEOREM CarriedOutOnce ==
    ASSUME AmbiguousSend = FALSE
    PROVE  Spec => []AtMostOnce
<1>1. IInv => AtMostOnce
    BY DEF IInv, SlotInv, AtMostOnce, MayRepeat
<1>2. QED BY <1>1, Invariance, PTL

(* Whatever acts was granted with a YES EXECUTE and never refused.         *)
THEOREM ActsOnlyIfGranted == Spec => []EffectNeedsGrant
<1>1. IInv => EffectNeedsGrant
  <2>1. SUFFICES ASSUME IInv, NEW a \in Approvals, effects[a] > 0
                 PROVE  granted[a] \in Keys /\ ~refused[a]
      BY DEF EffectNeedsGrant
  <2>2. granted[a] \in Keys
      BY <2>1 DEF IInv, SlotInv, Granted
  <2>3. granted[a] # Ungranted
      BY <2>2, ConstantsAssumption DEF Ungranted
  <2>4. QED BY <2>1, <2>2, <2>3 DEF IInv, DecisionInv
<1>2. QED BY <1>1, Invariance, PTL

(* An execution recorded as succeeded really acted.                        *)
THEOREM RecordsAreTrue == Spec => []SucceededIsReal
<1>1. IInv => SucceededIsReal
    BY DEF IInv
<1>2. QED BY <1>1, Invariance, PTL

(* A slot is handed back only by a worker that sent nothing under it and   *)
(* left no thread sending.                                                 *)
THEOREM OnlyUnusedReleased ==
    ASSUME AmbiguousSend = FALSE
    PROVE  Spec => ReleasedUnused
<1>1. IInv /\ [Next]_vars =>
        [\A a \in Approvals : executedAt[a] # Nobody /\ executedAt'[a] = Nobody
            => effects[a] = 0 /\ a \notin orphans]_vars
    BY SlotStep DEF Unsent
<1>2. QED BY <1>1, Invariance, PTL DEF Spec, ReleasedUnused

(* A request handler that has not inserted its row yet has none.           *)
RowsCreated ==
    /\ TypeOK
    /\ \A a \in Approvals :
            rpc[a] \in {"idle", "replayed", "checked", "drafting"} => status[a] = "absent"

LEMMA RowStep ==
    ASSUME RowsCreated, [Next]_vars, NEW a \in Approvals
    PROVE  /\ rpc'[a] \in {"idle", "replayed", "checked", "drafting"} => status'[a] = "absent"
           /\ Risky(a) /\ Decided(a) => status'[a] = status[a]
<1> USE DEF requestVars
<1>1. /\ TypeOK
      /\ rpc[a] \in {"idle", "replayed", "checked", "drafting"} => status[a] = "absent"
    BY DEF RowsCreated
<1>2. CASE UNCHANGED <<status, rpc>>
    BY <1>1, <1>2
<1>3. ASSUME NEW b \in Approvals, Request(b)
      PROVE /\ rpc'[a] \in {"idle", "replayed", "checked", "drafting"} => status'[a] = "absent"
            /\ Risky(a) /\ Decided(a) => status'[a] = status[a]
  <2>1. CASE CreateRequest(b) \/ RequestDraft(b) \/ AutoApprove(b)
      BY <1>1, <2>1 DEF CreateRequest, RequestDraft, AutoApprove, PatternReady, MoveRequest,
         TypeOK, Decided
  <2>2. CASE ~(CreateRequest(b) \/ RequestDraft(b) \/ AutoApprove(b))
      BY <1>1, <1>3, <2>2 DEF Request, CheckRequestKey, StoreRequestKey, LeavePending,
         StartDraft, LinkDraft, LoseRequest, MoveRequest, TypeOK
  <2>3. QED BY <2>1, <2>2
<1>4. ASSUME NEW w \in Workers, Continue(w)
      PROVE rpc' = rpc /\ (status[a] # "pending" => status'[a] = status[a])
  <2>1. CASE Approve(w) \/ Reject(w)
      BY <1>1, <2>1 DEF Approve, Reject, TypeOK
  <2>2. CASE ~(Approve(w) \/ Reject(w))
      BY <1>4, <2>2 DEF Continue, CreateExecution, LoadReply, LoadCompose, ClaimSlot,
         RunHandler, SendDelivered, SendRefused, SendTimedOut, ReleaseSlot, MarkReplySent,
         FinalizeExecution
  <2>3. QED BY <2>1, <2>2
<1>5. ASSUME NEW overdue \in SUBSET Approvals, ExpireOverdue(overdue)
      PROVE rpc' = rpc /\ (status[a] # "pending" => status'[a] = status[a])
    BY <1>5 DEF ExpireOverdue
<1>6. ASSUME rpc' = rpc /\ (status[a] # "pending" => status'[a] = status[a])
      PROVE /\ rpc'[a] \in {"idle", "replayed", "checked", "drafting"} => status'[a] = "absent"
            /\ Risky(a) /\ Decided(a) => status'[a] = status[a]
    BY <1>1, <1>6 DEF Decided
<1>7. ASSUME NEW w \in Workers, Begin(w) \/ DenyByPolicy(w) \/ Crash(w)
      PROVE UNCHANGED <<status, rpc>>
    BY <1>7 DEF Begin, BeginApprove, BeginReject, BeginSend, DenyByPolicy, Crash
<1>8. ASSUME NEW b \in Approvals, OrphanEnds(b) PROVE UNCHANGED <<status, rpc>>
    BY <1>8 DEF OrphanEnds
<1>9. QED BY <1>2, <1>3, <1>4, <1>5, <1>6, <1>7, <1>8 DEF Next, vars

(* The decision on a risky approval is final: approve, reject and expiry   *)
(* move only pending rows.  No assumption on the mail client is needed.    *)
THEOREM RiskyFinal == Spec => RiskyDecisionFinal
<1>1. Init => RowsCreated
    BY TypeInit DEF Init, RowsCreated
<1>2. RowsCreated /\ [Next]_vars => RowsCreated'
    BY RowStep, TypeStep DEF RowsCreated
<1>3. RowsCreated /\ [Next]_vars =>
        [\A a \in Approvals : Risky(a) /\ Decided(a) => status'[a] = status[a]]_vars
    BY RowStep
<1>4. QED BY <1>1, <1>2, <1>3, PTL DEF Spec, RiskyDecisionFinal

-----------------------------------------------------------------------------
(* The refinement: a step grants one approval, refuses some, carries out   *)
(* one, or changes neither decisions nor effects.                          *)
LEMMA DecisionStep ==
    ASSUME IInv, [Next]_vars
    PROVE  \/ decision' = decision
           \/ effects' = effects /\ \E a \in Approvals : Guarded!Grant(a)
           \/ effects' = effects /\ \E refusals \in SUBSET Approvals : Guarded!Refuse(refusals)
<1> USE DEF requestVars, effectVars
<1>1. TypeOK /\ DecisionInv
    BY DEF IInv
<1>2. CASE UNCHANGED <<granted, refused>>
    BY <1>2 DEF decision
<1>3. ASSUME NEW w \in Workers, Approve(w), ~ UNCHANGED <<granted, refused>>
      PROVE effects' = effects /\ \E a \in Approvals : Guarded!Grant(a)
  <2>1. PICK a, k : a = worker[w].job /\ k = worker[w].key
      OBVIOUS
  <2>2. /\ worker[w].at = "decide" /\ status[a] = "pending" /\ effects' = effects
        /\ granted' = [granted EXCEPT ![a] = k] /\ refused' = refused
      BY <1>3, <2>1 DEF Approve
  <2>3. a \in Approvals /\ k \in Keys \cup {NoKey}
      BY <1>1, <2>1, <2>2, KnownJob, WorkerField
  <2>4. k # Ungranted /\ granted[a] = Ungranted /\ ~refused[a]
      BY <1>1, <2>2, <2>3, ConstantsAssumption DEF DecisionInv, Ungranted
  <2>5. decision[a] = "open"
      BY <2>3, <2>4 DEF decision
  <2>6. decision' = [decision EXCEPT ![a] = "granted"]
      BY <1>1, <2>2, <2>3, <2>4 DEF decision, TypeOK
  <2>7. Guarded!Grant(a)
      BY <2>2, <2>5, <2>6 DEF Guarded!Grant
  <2>8. QED BY <2>2, <2>3, <2>7
<1>4. ASSUME NEW refusals \in SUBSET Approvals, \A b \in refusals : status[b] = "pending",
             refused' = [b \in Approvals |-> b \in refusals \/ refused[b]],
             granted' = granted
      PROVE Guarded!Refuse(refusals) \/ effects' # effects
  <2>1. \A b \in refusals : decision[b] = "open" /\ granted[b] = Ungranted
      BY <1>1, <1>4 DEF DecisionInv, decision
  <2>2. decision' = [b \in Approvals |-> IF b \in refusals THEN "refused" ELSE decision[b]]
      BY <1>4, <2>1 DEF decision
  <2>3. QED BY <2>1, <2>2 DEF Guarded!Refuse
<1>5. ASSUME NEW w \in Workers, Reject(w), ~ UNCHANGED <<granted, refused>>
      PROVE effects' = effects /\ \E refusals \in SUBSET Approvals : Guarded!Refuse(refusals)
  <2>1. PICK a : a = worker[w].job
      OBVIOUS
  <2>2. /\ worker[w].at = "reject" /\ status[a] = "pending" /\ effects' = effects
        /\ refused' = [refused EXCEPT ![a] = TRUE] /\ granted' = granted
      BY <1>5, <2>1 DEF Reject
  <2>3. a \in Approvals
      BY <1>1, <2>1, <2>2, KnownJob
  <2>4. refused' = [b \in Approvals |-> b \in {a} \/ refused[b]]
      BY <1>1, <2>2, <2>3 DEF TypeOK
  <2>5. QED BY <1>4, <2>2, <2>3, <2>4
<1>6. ASSUME NEW overdue \in SUBSET Approvals, ExpireOverdue(overdue)
      PROVE effects' = effects /\ \E refusals \in SUBSET Approvals : Guarded!Refuse(refusals)
    BY <1>4, <1>6 DEF ExpireOverdue
<1>7. ASSUME NEW w \in Workers, Begin(w) \/ Continue(w) \/ DenyByPolicy(w) \/ Crash(w),
             ~Approve(w), ~Reject(w)
      PROVE UNCHANGED <<granted, refused>>
    BY <1>7 DEF Begin, BeginApprove, BeginReject, BeginSend, Continue,
       CreateExecution, LoadReply, LoadCompose, ClaimSlot, RunHandler, SendDelivered,
       SendRefused, SendTimedOut, ReleaseSlot, MarkReplySent, FinalizeExecution,
       DenyByPolicy, Crash
<1>8. ASSUME NEW a \in Approvals, Request(a) \/ OrphanEnds(a) PROVE UNCHANGED <<granted, refused>>
    BY <1>8 DEF Request, CheckRequestKey, CreateRequest, StoreRequestKey, AutoApprove,
        LeavePending, StartDraft, RequestDraft, LinkDraft, LoseRequest, OrphanEnds
<1>9. QED BY <1>2, <1>3, <1>5, <1>6, <1>7, <1>8 DEF Next, vars

LEMMA CarryOutStep ==
    ASSUME AmbiguousSend = FALSE, IInv, [Next]_vars, effects' # effects
    PROVE  \E b \in Approvals : Guarded!CarryOut(b)
<1>1. PICK b \in Approvals :
                /\ effects' = [effects EXCEPT ![b] = @ + 1]
                /\ Granted(b) /\ effects[b] = 0
                /\ UNCHANGED requestVars
    BY EffectStep DEF MayRepeat
<1>2. effects' = [effects EXCEPT ![b] = 1] /\ decision' = decision
    BY <1>1 DEF decision, requestVars
<1>3. decision[b] = "granted"
    BY <1>1, ConstantsAssumption DEF decision, Granted, Ungranted
<1>4. Guarded!CarryOut(b)
    BY <1>1, <1>2, <1>3 DEF Guarded!CarryOut
<1>5. QED BY <1>4

(* The approval subsystem keeps the promise of GuardedEffect.              *)
THEOREM Implementation ==
    ASSUME AmbiguousSend = FALSE
    PROVE  Spec => ImplementsGuardedEffect
<1>1. Init => Guarded!Init
    BY DEF Init, Guarded!Init, decision
<1>2. IInv /\ [Next]_vars => [Guarded!Next]_(Guarded!vars)
  <2>1. SUFFICES ASSUME IInv, [Next]_vars PROVE [Guarded!Next]_(Guarded!vars)
      OBVIOUS
  <2>2. CASE effects' # effects
      BY <2>1, <2>2, CarryOutStep DEF Guarded!Next
  <2>3. CASE effects' = effects
      BY <2>1, <2>3, DecisionStep DEF Guarded!Next, Guarded!vars
  <2>4. QED BY <2>2, <2>3
<1>3. QED BY <1>1, <1>2, Invariance, PTL DEF Spec, Guarded!Spec, ImplementsGuardedEffect

=============================================================================
