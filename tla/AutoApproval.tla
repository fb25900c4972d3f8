---------------------------- MODULE AutoApproval ----------------------------
(***************************************************************************)
(* Requests for approvals of one type that is not risky: such a request is *)
(* approved at once where the pattern of earlier decisions suggests it and *)
(* the autonomy policy allows it.  The pattern is that of ApprovalPattern, *)
(* the policy that of AutonomyPolicy; both go on changing between the      *)
(* queries of the request.                                                 *)
(***************************************************************************)
EXTENDS Naturals, Sequences, FiniteSets

CONSTANTS
    Patterns, NoPattern, Deciders, Thresholds, MaxDecisions,
    Admins, Editors, Executors, Caps, MaxVersions,
    Requests,       \* requests under way
    Scenarios       \* bounds: who is active (admins, editors, executors,
                    \* deciders, requests), which changes the administrators
                    \* may make (changes), whether they roll back (rollback),
                    \* how many workflow steps are executed a day (steps), how
                    \* the CEO may configure a pattern (settings) and whether
                    \* that is deleted (deletes)

VARIABLES
    scenario,
    pattern, decider, decided, together,
    record, exists, versions, legacy, admin, editor, executor, today, unchecked, apart,
    request

Pattern == INSTANCE ApprovalPattern
Policy  == INSTANCE AutonomyPolicy

patternVars == <<pattern, decider, decided, together>>
policyVars  ==
    <<record, exists, versions, legacy, admin, editor, executor, today, unchecked, apart>>
vars == <<scenario, patternVars, policyVars, request>>

ASSUME AutoApprovalAssumption ==
    /\ Thresholds \subseteq Nat /\ 1 \in Thresholds
    /\ Caps \subseteq Nat \ {0} /\ 1 \in Caps
    /\ {MaxDecisions, MaxVersions} \subseteq Nat
    /\ \E c \in Caps : \A d \in Caps : d <= c
    /\ NoPattern \notin Patterns
    /\ IsFiniteSet(Deciders) /\ IsFiniteSet(Executors)

ASSUME ScenariosAssumption ==
    \A s \in Scenarios :
        /\ s.admins \subseteq Admins /\ s.editors \subseteq Editors
        /\ s.executors \subseteq Executors /\ s.deciders \subseteq Deciders
        /\ s.steps \in Nat
        /\ \A c \in s.changes : Policy!IsChange(c.what, c.updates)
        /\ \A v \in s.settings : v.enabled \in BOOLEAN /\ v.threshold \in Thresholds

(* threshold as it was read; off, allowed (history): since the request     *)
(* began there was a moment at which the kill switch was off, and one at   *)
(* which auto-approval was allowed.                                        *)
NoRequest == [at |-> "idle", threshold |-> 0, off |-> FALSE, allowed |-> FALSE]

RequestType == [at : {"idle", "pattern", "rollout", "policy", "approve"},
                threshold : Thresholds \cup {0}, off : BOOLEAN, allowed : BOOLEAN]

TypeOK ==
    /\ scenario \in Scenarios
    /\ Pattern!PatternTypeOK
    /\ Policy!PolicyTypeOK
    /\ request \in [Requests -> RequestType]

Init ==
    /\ scenario \in Scenarios
    /\ Pattern!PatternInit
    /\ Policy!PolicyInit
    /\ request = [r \in Requests |-> NoRequest]

-----------------------------------------------------------------------------
(* request_approval, from the commit of the pending approval on.           *)
Send(r) ==
    /\ r \in scenario.requests /\ request[r].at = "idle"
    /\ request' = [request EXCEPT ![r] =
          [NoRequest EXCEPT !.at = "pattern", !.off = ~Policy!Current.kill,
                            !.allowed = Policy!Current.allow]]
    /\ UNCHANGED <<scenario, patternVars, policyVars>>

Goto(r, step) == request' = [request EXCEPT ![r].at = step]

LeavePending(r) == request' = [request EXCEPT ![r] = NoRequest]

\* mutant: any decision counts towards the threshold
SuggestsAny(p) ==
    pattern[p].enabled /\ pattern[p].yes + pattern[p].no >= pattern[p].threshold

(* should_auto_approve; with two patterns its query raises an error, which *)
(* leaves the approval pending.                                            *)
Suggests(p) == pattern[p].enabled /\ pattern[p].yes >= pattern[p].threshold

LookUpPattern(r) ==
    /\ request[r].at = "pattern"
    /\ IF \E p \in Patterns : Pattern!There = {p} /\ Suggests(p)
       THEN \E p \in Pattern!There :
               request' = [request EXCEPT ![r] = [@ EXCEPT !.at = "rollout",
                                                           !.threshold = pattern[p].threshold]]
       ELSE LeavePending(r)
    /\ UNCHANGED <<scenario, patternVars, policyVars>>

(* can_auto_approve: the rollout, then the policy, then the readiness of   *)
(* the organization, which may be whatever it is.                          *)
ReadRollout(r) ==
    /\ request[r].at = "rollout"
    /\ IF Policy!Current.kill THEN LeavePending(r) ELSE Goto(r, "policy")
    /\ UNCHANGED <<scenario, patternVars, policyVars>>

ReadPolicy(r) ==
    /\ request[r].at = "policy"
    /\ LeavePending(r) \/ (Policy!Current.allow /\ Goto(r, "approve"))
    /\ UNCHANGED <<scenario, patternVars, policyVars>>

(* The approval is committed as approved.  No pattern records that.        *)
Approve(r) ==
    /\ request[r].at = "approve"
    /\ request' = [request EXCEPT ![r] = NoRequest]
    /\ UNCHANGED <<scenario, patternVars, policyVars>>

-----------------------------------------------------------------------------
PatternStep ==
    /\ \/ \E d \in scenario.deciders :
             \/ Pattern!Record(d) \/ Pattern!Lose(d)
             \/ \E answer \in {"yes", "no"} : Pattern!Decide(d, answer)
       \/ \E p \in Patterns :
             \/ scenario.deletes /\ Pattern!Delete(p)
             \/ \E s \in scenario.settings : Pattern!Configure(p, s.enabled, s.threshold)
    /\ UNCHANGED <<scenario, policyVars, request>>

(* What a request has seen of the policy since it began.                   *)
Noted(q, row) == [q EXCEPT !.off = @ \/ ~row.kill, !.allowed = @ \/ row.allow]

Changes(a) ==
    \/ Policy!ReadRollout(a) \/ Policy!LoadRow(a) \/ Policy!Write(a) \/ Policy!FailToInsert(a)
    \/ Policy!Sync(a) \/ Policy!LoseChange(a)
    \/ \E c \in scenario.changes : Policy!Begin(a, c.what, c.updates)
    \/ scenario.rollback /\ Policy!Rollback(a)

Executes(w) ==
    \/ Policy!Approve(w) \/ Policy!ReadSwitch(w) \/ Policy!CountActions(w)
    \/ Policy!ReadMode(w) \/ Policy!FailLookup(w) \/ Policy!Start(w)

PolicyStep ==
    /\ \/ \E a \in scenario.admins : Changes(a)
       \/ \E e \in scenario.editors : Policy!ReadJson(e) \/ Policy!WriteJson(e)
       \/ \E w \in scenario.executors : Executes(w)
       \/ unchecked < scenario.steps /\ Policy!StartStep
       \/ Policy!Midnight
    /\ request' = [r \in Requests |->
          IF request[r].at = "idle" THEN request[r] ELSE Noted(request[r], record')]
    /\ UNCHANGED <<scenario, patternVars>>

RequestStep ==
    \E r \in Requests :
        Send(r) \/ LookUpPattern(r) \/ ReadRollout(r) \/ ReadPolicy(r) \/ Approve(r)

Next == PatternStep \/ PolicyStep \/ RequestStep

Spec == Init /\ [][Next]_vars

-----------------------------------------------------------------------------
(* A pattern counts no decision that was not made, however the recordings  *)
(* of decisions overlap (record_decision).                                 *)
CountsWereDecided == Pattern!CountsWereDecided

(* Where decisions are recorded one after the other, none is lost          *)
(* (get_or_create, record_decision).                                       *)
NoneLost == Pattern!NoneLost

(* A change of the policy or of the rollout, which sets every column,      *)
(* gives another value to its own columns only, and to those that others   *)
(* have changed since it began (_upsert_config_record).                    *)
WritesItsColumns == Policy!WritesItsColumns

(* The last version and the copy in the JSON of the organization are the   *)
(* policy in force, but for what was disturbed, died or was edited over a  *)
(* change, and until the next change that is not disturbed.                *)
InStep == Policy!InStep

(* No execution of an approval starts that was checked only while the kill *)
(* switch was on, unless the engine's check met an error                   *)
(* (can_execute_post_approval).  Workflow steps look at no switch.         *)
StartsUnderSwitch == Policy!StartsUnderSwitch

(* The cap of executions a day, counted before an execution is created, is *)
(* exceeded by the requests checked together, less one, and by the         *)
(* workflow steps of the day, which are counted but not checked: by        *)
(* nothing else.                                                           *)
CapNearlyKept ==
    \A c \in Caps :
        (\A d \in Caps : d <= c) => today <= c + Cardinality(Executors) - 1 + unchecked

(* A request that is approved automatically has as many approvals of its   *)
(* type by a human behind it as its threshold asks for, and was not        *)
(* decided upon only while the kill switch was on or auto-approval was not *)
(* allowed.                                                                *)
ApprovedByRule ==
    \A r \in Requests :
        request[r].at = "approve" =>
            /\ decided.yes >= request[r].threshold
            /\ request[r].off /\ request[r].allowed
=============================================================================
