------------------------- MODULE MCApprovalExecution -------------------------
(* Small instances of ApprovalExecution: which approvals exist, of which   *)
(* kind, about which e-mail, requested under which Idempotency-Key.        *)
EXTENDS ApprovalExecution, TLC

CONSTANTS a1, a2, a3, e1, w1, w2, k1, k2

TwoReplies     == (a1 :> "reply") @@ (a2 :> "reply")
ThreeKinds     == (a1 :> "reply") @@ (a2 :> "digest") @@ (a3 :> "compose")
SameEmail      == [a \in Approvals |-> e1]
NoRequestKeys  == [a \in Approvals |-> NoKey]
SomeKeys       == (a1 :> NoKey) @@ (a2 :> k1) @@ (a3 :> k1)

=============================================================================
