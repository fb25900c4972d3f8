---------------------------- MODULE MCJobQueue ----------------------------
(* Small instances of JobQueue: two jobs of the same priority and a more   *)
(* urgent one without a handler; jobs with different delays and retries.   *)
EXTENDS JobQueue, TLC

CONSTANTS j1, j2, j3, w1, w2

Urgent      == [j \in Jobs |-> IF j = j3 THEN 1 ELSE 0]
RetryTwice  == [j \in Jobs |-> IF j = j1 THEN 2 ELSE 1]
SecondLater == [j \in Jobs |-> IF j = j2 THEN 1 ELSE 0]

=============================================================================
