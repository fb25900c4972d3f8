----------------------------- MODULE AIKeyCache -----------------------------
(***************************************************************************)
(* The API keys of the AI providers of one organization: the rows of the   *)
(* integrations connected in the dashboard, a cache in the memory of each  *)
(* process (L1) and one in Redis (L2).  A cached key lives for TTL ticks;  *)
(* where no cache has one, the environment does.  An operation on Redis    *)
(* may fail, and its error is swallowed: `reach` says that it did not.     *)
(***************************************************************************)
EXTENDS Naturals

CONSTANTS Procs, Providers, Keys, NoKey,
          TTL           \* _AI_KEY_CACHE_TTL

VARIABLES
    l1,         \* _ai_key_cache of each process
    l2,         \* the cache in Redis
    stored,     \* the key of the connected integration row, if any
    rows,       \* what a starting process has read of the rows
    env,        \* the keys in the environment
    gone        \* history: ticks, plus one, since a key was withdrawn

keyVars == <<l1, l2, stored, rows, env, gone>>

Slots   == [key : Keys \cup {NoKey}, left : 0..TTL]
NoSlot  == [key |-> NoKey, left |-> 0]
Stop    == 2 * TTL                  \* bound: ages are not counted beyond
MaybeKey == Keys \cup {NoKey}

(* Every process starts by loading the rows.                               *)
NoRows == [p \in Providers |-> NoKey]

KeyTypeOK ==
    /\ l1 \in [Procs -> [Providers -> Slots]]
    /\ l2 \in [Providers -> Slots]
    /\ {stored, env} \subseteq [Providers -> MaybeKey]
    /\ rows \in [Procs -> [loading : BOOLEAN, keys : [Providers -> MaybeKey]]]
    /\ gone \in [Keys -> 0..Stop]

Booted == [loading |-> FALSE, keys |-> NoRows]

KeyInit ==
    /\ l1 = [n \in Procs |-> [p \in Providers |-> NoSlot]]
    /\ l2 = [p \in Providers |-> NoSlot]
    /\ rows = [n \in Procs |-> [loading |-> TRUE, keys |-> stored]]
    /\ gone = [k \in Keys |-> 0]

-----------------------------------------------------------------------------
Live(slot)  == slot.left > 0
Cached(k)   == [key |-> k, left |-> TTL]

(* _get_key, and what it leaves in the cache of the process                *)
Key(n, p, reach) ==
    IF Live(l1[n][p]) THEN l1[n][p].key
    ELSE IF reach /\ Live(l2[p]) THEN l2[p].key
    ELSE env[p]

\* mutant: a lookup prolongs the life of a cached key
WarmedSliding(n, p, reach) ==
    IF Live(l1[n][p]) THEN Cached(l1[n][p].key)
    ELSE IF reach /\ Live(l2[p]) THEN Cached(l2[p].key)
    ELSE NoSlot

Warmed(n, p, reach) ==
    IF Live(l1[n][p]) THEN l1[n][p]
    ELSE IF reach /\ Live(l2[p]) THEN Cached(l2[p].key)
    ELSE NoSlot

(* _get_key for each provider of P; Got are the keys this returns.         *)
Looked(n, P, reach) ==
    [p \in Providers |-> IF p \in P THEN Warmed(n, p, reach) ELSE l1[n][p]]

Got(n, reach) == [p \in Providers |-> Key(n, p, reach)]

(* set_ai_key_cache, clear_ai_key_cache                                    *)
SetKey(p, k, reach) == l2' = IF reach THEN [l2 EXCEPT ![p] = Cached(k)] ELSE l2

ClearKey(n, p, reach) ==
    /\ l1' = [l1 EXCEPT ![n][p] = NoSlot]
    /\ l2' = IF reach THEN [l2 EXCEPT ![p] = NoSlot] ELSE l2

Withdrawn(K) == gone' = [k \in Keys |-> IF k \in K /\ gone[k] = 0 THEN 1 ELSE gone[k]]

(* The row of an integration gets a key, or none.                          *)
StoreKey(p, k) ==
    /\ stored' = [stored EXCEPT ![p] = k]
    /\ Withdrawn({stored[p]} \ {k, NoKey})

-----------------------------------------------------------------------------
(* load_ai_keys_from_db, run by a process that starts: the rows are read,  *)
(* and then written to both caches.                                        *)
ReadRows(n) == rows' = [rows EXCEPT ![n] = [loading |-> TRUE, keys |-> stored]]

CacheRows(n, reach) ==
    LET found(p) == rows[n].keys[p] # NoKey
    IN  /\ rows[n].loading
        /\ l1' = [l1 EXCEPT ![n] = [p \in Providers |-> IF found(p) THEN Cached(rows[n].keys[p]) ELSE @[p]]]
        /\ l2' = [p \in Providers |-> IF reach /\ found(p) THEN Cached(rows[n].keys[p]) ELSE l2[p]]
        /\ rows' = [rows EXCEPT ![n] = Booted]
        /\ UNCHANGED <<stored, env, gone>>

Older(slot) == IF slot.left > 1 THEN [slot EXCEPT !.left = @ - 1] ELSE NoSlot

(* A start takes less than a tick.                                         *)
Tick ==
    /\ \A n \in Procs : ~rows[n].loading
    /\ l1' = [n \in Procs |-> [p \in Providers |-> Older(l1[n][p])]]
    /\ l2' = [p \in Providers |-> Older(l2[p])]
    /\ gone' = [k \in Keys |-> IF gone[k] \in 1..(Stop - 1) THEN gone[k] + 1 ELSE gone[k]]
    /\ UNCHANGED <<stored, rows, env>>

-----------------------------------------------------------------------------
(* A key that was replaced, disconnected or refused is in no cache two     *)
(* lifetimes later: one in Redis, if it could not be deleted or a starting *)
(* process put it back, and one in a process that took it from there.      *)
StaleKeyBounded ==
    \A p \in Providers :
        /\ \A n \in Procs : Live(l1[n][p]) => gone[l1[n][p].key] < 2 * TTL
        /\ Live(l2[p]) => gone[l2[p].key] <= TTL
=============================================================================
