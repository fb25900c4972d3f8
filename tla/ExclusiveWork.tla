--------------------------- MODULE ExclusiveWork ---------------------------
(***************************************************************************)
(* What a work queue promises: an open task is held by at most one worker  *)
(* at a time, a worker holds one task at a time and gives it back open, to *)
(* be tried again, or with a final outcome, and a final outcome stays.     *)
(***************************************************************************)
CONSTANTS Tasks, Workers

VARIABLES
    outcome,    \* of each task: "open", "completed" or "dead"
    holders     \* of each task: the workers that hold it

vars == <<outcome, holders>>

Init ==
    /\ outcome = [t \in Tasks |-> "open"]
    /\ holders = [t \in Tasks |-> {}]

Take(t, w) ==
    /\ outcome[t] = "open"
    /\ holders[t] = {}
    /\ \A u \in Tasks : w \notin holders[u]
    /\ holders' = [holders EXCEPT ![t] = {w}]
    /\ UNCHANGED outcome

GiveBack(t, w, result) ==
    /\ outcome[t] = "open"
    /\ w \in holders[t]
    /\ outcome' = [outcome EXCEPT ![t] = result]
    /\ holders' = [holders EXCEPT ![t] = {}]

Next ==
    \E t \in Tasks, w \in Workers :
        Take(t, w) \/ \E result \in {"open", "completed", "dead"} : GiveBack(t, w, result)

Spec == Init /\ [][Next]_vars

=============================================================================
