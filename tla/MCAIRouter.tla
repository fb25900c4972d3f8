----------------------------- MODULE MCAIRouter -----------------------------
(* Instances of AIRouter for TLC.                                          *)
EXTENDS AIRouter, TLC

CONSTANTS openai, groq, gemini, n1, n2, c1, c2, envA, old, good, bad

Env(a, b, c) == (openai :> a) @@ (groq :> b) @@ (gemini :> c)
None == Env(NoKey, NoKey, NoKey)

Deployment(keys, rows1, redis, faults, hosts, crew, mayFail, managed, new, restarts) ==
    [env |-> keys, stored |-> rows1, redis |-> redis, faults |-> faults, procs |-> hosts,
     callers |-> crew, flaky |-> mayFail, managed |-> managed, fresh |-> new,
     restarts |-> restarts]

(* Calls of one process that overlap.                                      *)
Overlapping ==
    Deployment(Env(envA, envA, NoKey), None, FALSE, FALSE, {n1}, {c1, c2}, {openai, groq}, {}, {}, {})

(* A chosen provider that does not accept its key, if it answers at all.   *)
Unauthorized ==
    Deployment(Env(bad, envA, envA), None, FALSE, FALSE, {n1}, {c1}, {openai, groq}, {}, {}, {})

(* A key managed in the dashboard, with Redis coming and going.            *)
Managed ==
    Deployment(Env(NoKey, NoKey, envA), Env(NoKey, NoKey, old), TRUE, TRUE, {n1, n2}, {c1}, {},
               {gemini}, {bad}, {n2})

(* A key is connected while another provider is configured.                *)
Validating ==
    Deployment(Env(envA, NoKey, NoKey), None, TRUE, FALSE, {n1}, {c1}, {gemini}, {gemini}, {good, bad}, {})

Hosts == {Overlapping, Unauthorized, Managed, Validating}
=============================================================================
