------------------------- MODULE MCWebhookDelivery -------------------------
(* Instances of WebhookDelivery for TLC.                                   *)
EXTENDS WebhookDelivery, TLC

CONSTANTS c1, r1, r2, o1, o2

(* Inline dispatch with background retries, inline dispatch that gives up  *)
(* at once, and queueing with a single attempt, whose tests of the         *)
(* endpoint can end up stranded.                                           *)
InlineOrQueued ==
    {[asyncOnly |-> FALSE, maxAttempts |-> 1, maxRetries |-> 3, kills |-> 0],
     [asyncOnly |-> FALSE, maxAttempts |-> 2, maxRetries |-> 2, kills |-> 0],
     [asyncOnly |-> TRUE, maxAttempts |-> 1, maxRetries |-> 1, kills |-> 1]}
=============================================================================
