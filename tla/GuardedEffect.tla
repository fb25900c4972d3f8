--------------------------- MODULE GuardedEffect ---------------------------
(***************************************************************************)
(* What the approval subsystem promises for every proposed action: it is   *)
(* decided at most once, a refusal is final, and its side effect happens   *)
(* at most once and only after it was granted.  How requests, decisions,   *)
(* claims, retries and crashes bring that about is left to the             *)
(* specifications that implement this one.                                 *)
(***************************************************************************)
EXTENDS Naturals

CONSTANT Proposals

VARIABLES
    decision,   \* of each proposal: "open", "granted" or "refused"
    effect      \* of each proposal: how often it was carried out

vars == <<decision, effect>>

Init ==
    /\ decision = [p \in Proposals |-> "open"]
    /\ effect = [p \in Proposals |-> 0]

Grant(p) ==
    /\ decision[p] = "open"
    /\ decision' = [decision EXCEPT ![p] = "granted"]
    /\ UNCHANGED effect

(* The expiry sweep refuses many proposals in one statement.               *)
Refuse(refusals) ==
    /\ \A p \in refusals : decision[p] = "open"
    /\ decision' = [p \in Proposals |-> IF p \in refusals THEN "refused" ELSE decision[p]]
    /\ UNCHANGED effect

CarryOut(p) ==
    /\ decision[p] = "granted"
    /\ effect[p] = 0
    /\ effect' = [effect EXCEPT ![p] = 1]
    /\ UNCHANGED decision

Next ==
    \/ \E p \in Proposals : Grant(p) \/ CarryOut(p)
    \/ \E refusals \in SUBSET Proposals : Refuse(refusals)

Spec == Init /\ [][Next]_vars

=============================================================================
