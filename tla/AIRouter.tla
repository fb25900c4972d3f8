------------------------------ MODULE AIRouter ------------------------------
(***************************************************************************)
(* The entry point of all AI calls of one organization: call_ai picks a    *)
(* provider, skips those whose circuit is open, falls back where a failure *)
(* is transient, and keeps a circuit breaker for each provider in the      *)
(* memory of its process.  A key is connected in the dashboard by putting  *)
(* it in the caches, making a test call, and saving it if that call gets   *)
(* an answer.  The caches are those of AIKeyCache.                         *)
(*                                                                         *)
(* An action is what a process does between two awaits.  How recent health *)
(* ranks the fallbacks is left open: any order of them may be tried.       *)
(***************************************************************************)
EXTENDS Naturals, Sequences, FiniteSets, SequencesExt

CONSTANTS
    Procs, Providers, Keys, NoKey, TTL,
    BadKeys,        \* keys their provider does not accept
    Vague,          \* providers whose refusal of a key has a type outside
                    \* _NO_FALLBACK_ERRORS, and so counts as transient: Gemini,
                    \* against the comment that an authentication error does
                    \* not trigger a fallback
    Untimed,        \* providers called without a timeout: Gemini
    Callers,        \* requests
    Threshold,      \* _CIRCUIT_FAILURE_THRESHOLD, 3 in the code
    Attempts,       \* AI_RETRY_ATTEMPTS
    NoProvider,
    Deployments     \* the environment's keys (env), the keys connected at
                    \* first (stored), whether Redis is there (redis) and may
                    \* fail (faults), and as bounds the processes and callers,
                    \* the providers that may fail (flaky), those whose key is
                    \* managed in the dashboard (managed), the keys that may
                    \* be entered there (fresh), and the processes that may
                    \* be restarted (restarts)

VARIABLES
    settings, circuit, caller,
    l1, l2, stored, rows, env, gone,
    failures        \* history: transient failures of a provider in a
                    \* process since it last answered there

Cache == INSTANCE AIKeyCache

keyVars == <<l1, l2, stored, rows, env, gone>>
vars == <<settings, circuit, caller, keyVars, failures>>

ASSUME RouterAssumption ==
    /\ {Threshold, Attempts, TTL} \subseteq Nat \ {0}
    /\ BadKeys \subseteq Keys /\ {Vague, Untimed} \subseteq SUBSET Providers
    /\ NoKey \notin Keys /\ NoProvider \notin Providers
    /\ Procs # {} /\ IsFiniteSet(Providers)
    /\ \A s \in Deployments :
          /\ {s.env, s.stored} \subseteq [Providers -> Keys \cup {NoKey}]
          /\ s.managed \subseteq Providers
          \* no key belongs to two providers
          /\ \A p, q \in Providers : s.stored[p] = s.stored[q] => p = q \/ s.stored[p] = NoKey

(* (failures, opened_until): the circuit is closed, open, or was open and  *)
(* has not been looked at since.                                           *)
CircuitType == [failures : 0..Threshold, is : {"closed", "open", "lapsed"}]
Closed == [failures |-> 0, is |-> "closed"]

(* A request: prov and new are the provider and the key that are managed   *)
(* in the dashboard, order, i and try say where call_ai is, used the key   *)
(* of the attempt under way.                                               *)
CallerType ==
    [at : {"idle", "calling", "save", "clear", "commit"}, proc : Procs,
     what : {"ask", "connect", "disconnect"}, prov : Providers \cup {NoProvider},
     new : Keys \cup {NoKey}, chosen : Providers \cup {NoProvider}, order : Seq(Providers),
     i : Nat, try : Nat, used : Keys \cup {NoKey}]

Request(n, at, what, p, k) ==
    [at |-> at, proc |-> n, what |-> what, prov |-> p, new |-> k,
     chosen |-> NoProvider, order |-> <<>>, i |-> 0, try |-> 0, used |-> NoKey]

Idle(n) == Request(n, "idle", "ask", NoProvider, NoKey)

TypeOK ==
    /\ settings \in Deployments
    /\ circuit \in [Procs -> [Providers -> CircuitType]]
    /\ caller \in [Callers -> CallerType]
    /\ \A c \in Callers : caller[c].at = "calling" =>
          caller[c].i \in DOMAIN caller[c].order /\ caller[c].try \in 1..Attempts
    /\ Cache!KeyTypeOK
    /\ failures \in [Procs -> [Providers -> 0..Threshold]]

Init ==
    /\ settings \in Deployments
    /\ circuit = [n \in Procs |-> [p \in Providers |-> Closed]]
    /\ caller = [c \in Callers |-> Idle(CHOOSE n \in Procs : TRUE)]
    /\ env = settings.env
    /\ stored = settings.stored
    /\ Cache!KeyInit
    /\ failures = [n \in Procs |-> [p \in Providers |-> 0]]

-----------------------------------------------------------------------------
(* Circuit breakers.                                                       *)
Capped(n) == IF n < Threshold THEN n ELSE Threshold

(* _record_provider_transient_failure: a circuit that has lapsed opens     *)
(* again at the first failure.                                             *)
AfterFailure(s) ==
    IF s.is = "open" THEN s
    ELSE [failures |-> Capped(s.failures + 1),
          is |-> IF s.failures + 1 >= Threshold THEN "open" ELSE "closed"]

\* mutant: an answer does not forget the failures before it
AfterAnswerKept(s) == s

(* _record_provider_success                                                *)
AfterAnswer(s) == Closed

(* _is_provider_circuit_open forgets a circuit that has lapsed.            *)
Seen(s) == IF s.is = "lapsed" THEN Closed ELSE s

SeenAll(n, P) ==
    circuit' = [circuit EXCEPT ![n] = [p \in Providers |-> IF p \in P THEN Seen(@[p]) ELSE @[p]]]

CircuitLapses(n, p) ==
    /\ circuit[n][p].is = "open"
    /\ circuit' = [circuit EXCEPT ![n][p].is = "lapsed"]
    /\ UNCHANGED <<settings, caller, keyVars, failures>>

-----------------------------------------------------------------------------
(* call_ai                                                                 *)
Reaches == IF settings.redis THEN (IF settings.faults THEN BOOLEAN ELSE {TRUE}) ELSE {FALSE}

Up(n) == n \in settings.procs /\ ~rows[n].loading

(* _rank_provider_candidates                                               *)
Rank(n, chosen, configured) ==
    LET available == {p \in configured : circuit[n][p].is # "open"}
    IN  IF available = {}
        THEN {<<chosen>> \o s : s \in SetToSeqs(configured \ {chosen})}
        ELSE {s \in SetToSeqs(available) : chosen \in available => s[1] = chosen}

(* What a caller is about to do with the i-th provider of its order.       *)
Dialling(r, chosen, order, i, try, key) ==
    [at |-> "calling", proc |-> r.proc, what |-> r.what, prov |-> r.prov, new |-> r.new,
     chosen |-> chosen, order |-> order, i |-> i, try |-> try, used |-> key]

(* The call of a caller that is otherwise the record r, with the keys it   *)
(* has looked up.                                                          *)
Call(c, r, wanted, key) ==
    LET configured == {p \in Providers : key[p] # NoKey}
    IN  \E chosen \in IF wanted \in configured THEN {wanted} ELSE configured :
        \E order \in Rank(r.proc, chosen, configured) :
            /\ caller' = [caller EXCEPT ![c] =
                  Dialling(r, chosen, order, 1, 1, key[order[1]])]
            /\ SeenAll(r.proc, configured)

LookUp(n, P, reach) == l1' = [l1 EXCEPT ![n] = Cache!Looked(n, P, reach)]

Ask(c, n, wanted) ==
    /\ c \in settings.callers /\ caller[c].at = "idle"
    /\ Up(n)
    /\ \E reach \in Reaches :
       /\ Call(c, Idle(n), wanted, Cache!Got(n, reach))
       /\ LookUp(n, Providers, reach)
    /\ UNCHANGED <<settings, l2, stored, rows, env, gone, failures>>

Candidate(c) == caller[c].order[caller[c].i]
Refuses(c)   == caller[c].used = NoKey \/ caller[c].used \in BadKeys

(* What follows the call: a connect has to be saved, or taken back.        *)
Concluded(c, answered) ==
    IF caller[c].what = "connect"
    THEN [caller[c] EXCEPT !.at = IF answered THEN "save" ELSE "clear"]
    ELSE Idle(caller[c].proc)

Answer(c) ==
    /\ caller[c].at = "calling"
    /\ ~Refuses(c)
    /\ circuit' = [circuit EXCEPT ![caller[c].proc][Candidate(c)] = AfterAnswer(@)]
    /\ failures' = [failures EXCEPT ![caller[c].proc][Candidate(c)] = 0]
    /\ caller' = [caller EXCEPT ![c] = Concluded(c, TRUE)]
    /\ UNCHANGED <<settings, keyVars>>

(* The call is given up after the last provider, and where the chosen one  *)
(* failed for good.                                                        *)
GivesUp(c, transient) ==
    \/ caller[c].i = Len(caller[c].order)
    \/ Candidate(c) = caller[c].chosen /\ ~transient

\* mutant: the same provider is called again
OnwardToSame(c) ==
    LET n    == caller[c].proc
        next == Candidate(c)
    IN  \E reach \in Reaches :
        /\ caller' = [caller EXCEPT ![c] = Dialling(caller[c], caller[c].chosen, caller[c].order,
                                                   caller[c].i, 1, Cache!Key(n, next, reach))]
        /\ LookUp(n, {next}, reach)

Onward(c) ==
    LET n    == caller[c].proc
        i    == caller[c].i + 1
        next == caller[c].order[i]
    IN  \E reach \in Reaches :
        /\ caller' = [caller EXCEPT ![c] = Dialling(caller[c], caller[c].chosen, caller[c].order,
                                                   i, 1, Cache!Key(n, next, reach))]
        /\ LookUp(n, {next}, reach)

Failed(c, transient) ==
    /\ IF GivesUp(c, transient)
       THEN caller' = [caller EXCEPT ![c] = Concluded(c, FALSE)] /\ UNCHANGED l1
       ELSE Onward(c)
    /\ UNCHANGED <<settings, l2, stored, rows, env, gone>>

RecordFailure(n, p) ==
    /\ circuit' = [circuit EXCEPT ![n][p] = AfterFailure(@)]
    /\ failures' = [failures EXCEPT ![n][p] = Capped(@ + 1)]

MayFail(c) == \/ caller[c].used # NoKey /\ Candidate(c) \in settings.flaky
              \/ caller[c].used \in BadKeys /\ Candidate(c) \in Vague

(* _call_provider repeats a transient failure, with the key of the moment. *)
Retry(c) ==
    /\ caller[c].at = "calling"
    /\ MayFail(c)
    /\ caller[c].try < Attempts
    /\ \E reach \in Reaches :
       /\ caller' = [caller EXCEPT ![c] =
             Dialling(caller[c], caller[c].chosen, caller[c].order, caller[c].i, caller[c].try + 1,
                      Cache!Key(caller[c].proc, Candidate(c), reach))]
       /\ LookUp(caller[c].proc, {Candidate(c)}, reach)
    /\ UNCHANGED <<settings, circuit, l2, stored, rows, env, gone, failures>>

FailTransiently(c) ==
    /\ caller[c].at = "calling"
    /\ MayFail(c)
    /\ caller[c].try = Attempts
    /\ RecordFailure(caller[c].proc, Candidate(c))
    /\ Failed(c, TRUE)

(* No key, or an authentication error.                                     *)
FailForGood(c) ==
    /\ caller[c].at = "calling"
    /\ Refuses(c)
    /\ caller[c].used # NoKey => Candidate(c) \notin Vague
    /\ Failed(c, FALSE)
    /\ UNCHANGED <<circuit, failures>>

(* An error of a type no provider lists escapes call_ai, whatever its      *)
(* docstring says, and ends the request.  A key that was to be connected   *)
(* is not saved, but stays in the caches.                                  *)
Escape(c) ==
    /\ caller[c].at = "calling"
    /\ caller[c].used # NoKey /\ Candidate(c) \in settings.flaky
    /\ Cache!Withdrawn({caller[c].new})
    /\ caller' = [caller EXCEPT ![c] = Idle(caller[c].proc)]
    /\ UNCHANGED <<settings, circuit, l1, l2, stored, rows, env, failures>>

(* stream_ai uses one provider, with neither circuit nor fallback, and     *)
(* ai_provider_status only looks at the keys.                              *)
Stream(n, p) ==
    /\ Up(n)
    /\ \E reach \in Reaches : LookUp(n, {p}, reach)
    /\ UNCHANGED <<settings, circuit, caller, l2, stored, rows, env, gone, failures>>

Status(n) ==
    /\ Up(n)
    /\ \E reach \in Reaches : LookUp(n, Providers, reach)
    /\ UNCHANGED <<settings, circuit, caller, l2, stored, rows, env, gone, failures>>

-----------------------------------------------------------------------------
(* ai_provider_connect and ai_provider_disconnect                          *)
Known(k) ==
    \/ gone[k] > 0
    \/ \E p \in Providers :
          \/ k \in {env[p], stored[p]} \/ l2[p].key = k
          \/ \E n \in Procs : l1[n][p].key = k \/ rows[n].keys[p] = k
    \/ \E c \in Callers : k \in {caller[c].new, caller[c].used}

(* A new key is in the caches before its test call.  A key is entered once *)
(* (a bound).                                                              *)
Connect(c, n, p, k) ==
    /\ c \in settings.callers /\ caller[c].at = "idle"
    /\ Up(n)
    /\ p \in settings.managed /\ k \in settings.fresh /\ ~Known(k)
    /\ \E reach, written \in Reaches :
       /\ Call(c, Request(n, "idle", "connect", p, k), p,
               [Cache!Got(n, reach) EXCEPT ![p] = k])
       /\ l1' = [l1 EXCEPT ![n] = [Cache!Looked(n, Providers, reach) EXCEPT ![p] = Cache!Cached(k)]]
       /\ Cache!SetKey(p, k, written)
    /\ UNCHANGED <<settings, stored, rows, env, gone, failures>>

(* The test call got an answer: the key is saved.                          *)
Save(c) ==
    /\ caller[c].at = "save"
    /\ Cache!StoreKey(caller[c].prov, caller[c].new)
    /\ caller' = [caller EXCEPT ![c] = Idle(caller[c].proc)]
    /\ UNCHANGED <<settings, circuit, l1, l2, rows, env, failures>>

(* It got none: the key is taken from the caches.                          *)
TakeBack(c) ==
    /\ caller[c].at = "clear"
    /\ \E reach \in Reaches : Cache!ClearKey(caller[c].proc, caller[c].prov, reach)
    /\ Cache!Withdrawn({caller[c].new})
    /\ caller' = [caller EXCEPT ![c] = Idle(caller[c].proc)]
    /\ UNCHANGED <<settings, circuit, stored, rows, env, failures>>

Disconnect(c, n, p) ==
    /\ c \in settings.callers /\ caller[c].at = "idle"
    /\ Up(n)
    /\ p \in settings.managed
    /\ \E reach \in Reaches : Cache!ClearKey(n, p, reach)
    /\ caller' = [caller EXCEPT ![c] = Request(n, "commit", "disconnect", p, NoKey)]
    /\ UNCHANGED <<settings, circuit, stored, rows, env, gone, failures>>

CommitDisconnect(c) ==
    /\ caller[c].at = "commit"
    /\ Cache!StoreKey(caller[c].prov, NoKey)
    /\ caller' = [caller EXCEPT ![c] = Idle(caller[c].proc)]
    /\ UNCHANGED <<settings, circuit, l1, l2, rows, env, failures>>

-----------------------------------------------------------------------------
(* A process is killed and starts again; its requests are lost, with the   *)
(* keys they were about to connect.                                        *)
Restart(n) ==
    LET lost == {c \in Callers : caller[c].proc = n /\ caller[c].at # "idle"}
    IN  /\ n \in settings.restarts
        /\ Cache!ReadRows(n)
        /\ Cache!Withdrawn({caller[c].new : c \in lost})
        /\ l1' = [l1 EXCEPT ![n] = [p \in Providers |-> Cache!NoSlot]]
        /\ circuit' = [circuit EXCEPT ![n] = [p \in Providers |-> Closed]]
        /\ failures' = [failures EXCEPT ![n] = [p \in Providers |-> 0]]
        /\ caller' = [c \in Callers |-> IF c \in lost THEN Idle(n) ELSE caller[c]]
        /\ UNCHANGED <<settings, l2, stored, env>>

Load(n) ==
    /\ \E reach \in Reaches : Cache!CacheRows(n, reach)
    /\ UNCHANGED <<settings, circuit, caller, failures>>

Tick == Cache!Tick /\ UNCHANGED <<settings, circuit, caller, failures>>

-----------------------------------------------------------------------------
CallStep(c) == Answer(c) \/ Retry(c) \/ FailTransiently(c) \/ FailForGood(c) \/ Escape(c)

Next ==
    \/ \E c \in Callers :
          \/ CallStep(c) \/ Save(c) \/ TakeBack(c) \/ CommitDisconnect(c)
          \/ \E n \in Procs, p \in Providers :
                Ask(c, n, p) \/ Disconnect(c, n, p) \/ \E k \in Keys : Connect(c, n, p, k)
    \/ \E n \in Procs : \/ Restart(n) \/ Load(n) \/ Status(n)
                       \/ \E p \in Providers : CircuitLapses(n, p) \/ Stream(n, p)
    \/ Tick

Spec == Init /\ [][Next]_vars

Calling(c) == caller[c].at = "calling"

(* A call of a provider is ended by its answer or by AI_TIMEOUT_SECONDS,   *)
(* where the client is given that.                                         *)
TimedStep(c) == Calling(c) /\ Candidate(c) \notin Untimed /\ CallStep(c)

FairSpec == Spec /\ \A c \in Callers : WF_vars(TimedStep(c))

-----------------------------------------------------------------------------
(* A key that was replaced, disconnected or refused is in no cache two     *)
(* lifetimes later (set_ai_key_cache, clear_ai_key_cache, _get_key).       *)
StaleKeyBounded == Cache!StaleKeyBounded

(* A circuit is open only after Threshold transient failures in its        *)
(* process since the provider last answered there, however the calls that  *)
(* failed overlap and whenever it lapses.                                  *)
OpenAfterFailures ==
    \A n \in Procs, p \in Providers : circuit[n][p].is = "open" => failures[n][p] = Threshold

(* A call ends, with an answer, with an error, or because every provider   *)
(* that was not paused has failed, unless it waits for ever for one that   *)
(* is called without a timeout (call_ai, _call_provider, _call_gemini).    *)
CallsEnd ==
    \A c \in Callers :
        []<>~Calling(c) \/ <>[](Calling(c) /\ Candidate(c) \in Untimed)
=============================================================================
