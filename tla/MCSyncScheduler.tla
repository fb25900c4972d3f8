-------------------------- MODULE MCSyncScheduler --------------------------
(* Instances of SyncScheduler for TLC.                                     *)
EXTENDS SyncScheduler, TLC

CONSTANTS a, b, s1, s2, w1, d1, d2, q1

Api     == <<"crm">>
TwoJobs == <<"digest", "cleanup">>

Deployment(signals, letters, orgs, crew, flaky) ==
    [signals |-> signals, deadLetters |-> letters, orgs |-> orgs, crew |-> crew,
     flaky |-> flaky]

Crews ==
    {\* two workers, one of which may die of an organization's mailbox
     Deployment(TRUE, TRUE, <<a, b>>, {s1, s2, w1}, {<<a, "email">>, <<b, "rest">>}),
     \* one worker, both mailboxes fail
     Deployment(TRUE, TRUE, <<a, b>>, {s1, w1}, {<<a, "email">>, <<b, "email">>}),
     \* a replay, or two on-demand syncs, beside the loop
     Deployment(TRUE, TRUE, <<a>>, {s1, w1, d1, q1}, {<<a, "crm">>}),
     Deployment(TRUE, TRUE, <<a>>, {s1, w1, d1, d2}, {<<a, "crm">>, <<a, "digest">>}),
     \* signals and dead letters off
     Deployment(FALSE, FALSE, <<a>>, {s1, w1}, {<<a, "crm">>, <<a, "digest">>})}

OneWorker == {Deployment(TRUE, TRUE, <<a, b>>, {s1, w1}, {<<a, "email">>})}
=============================================================================
