--------------------------- MODULE MCAutoApproval ---------------------------
(* Instances of AutoApproval for TLC.                                      *)
EXTENDS AutoApproval, TLC

CONSTANTS p1, p2, d1, d2, a1, a2, e1, w1, w2, r1

Change(name, u) == [what |-> name, updates |-> u]
Switch(on) == Change("rollout", [kill |-> on])
Mode(m)    == Change("policy", [mode |-> m])
Allow(b)   == Change("policy", [allow |-> b])
Cap(n)     == Change("rollout", [cap |-> n])

Enabled(b, n) == [enabled |-> b, threshold |-> n]

Nothing == [admins |-> {}, editors |-> {}, executors |-> {}, deciders |-> {}, requests |-> {},
            changes |-> {}, rollback |-> FALSE, steps |-> 0, settings |-> {}, deletes |-> FALSE]

(* Two administrators at once, and an editor of the feature flags.         *)
Administration ==
    [Nothing EXCEPT !.admins = {a1, a2}, !.editors = {e1}, !.rollback = TRUE,
                    !.changes = {Switch(TRUE), Switch(FALSE), Mode("suggest_only")}]

(* Executions and workflow steps, while the switch is thrown and the cap   *)
(* lowered.                                                                *)
Execution ==
    [Nothing EXCEPT !.admins = {a1}, !.executors = {w1, w2}, !.steps = 2,
                    !.changes = {Switch(TRUE), Switch(FALSE), Cap(1)}]

(* An execution, while the organization is told to suggest only.           *)
Suggestion ==
    [Nothing EXCEPT !.admins = {a1}, !.executors = {w1}, !.changes = {Mode("suggest_only")}]

(* Decisions and requests, while the pattern is configured and deleted.    *)
Learning ==
    [Nothing EXCEPT !.deciders = {d1, d2}, !.requests = {r1}, !.deletes = TRUE,
                    !.settings = {Enabled(TRUE, 1), Enabled(TRUE, 2), Enabled(FALSE, 2)}]

(* Requests, while the switch is thrown, or auto-approval forbidden.       *)
Requesting ==
    [Nothing EXCEPT !.admins = {a1}, !.deciders = {d1}, !.requests = {r1},
                    !.settings = {Enabled(TRUE, 1)}, !.changes = {Switch(TRUE), Switch(FALSE)}]

Forbidding == [Requesting EXCEPT !.changes = {Allow(FALSE)}]

All == {Administration, Execution, Suggestion, Learning, Requesting, Forbidding}
=============================================================================
