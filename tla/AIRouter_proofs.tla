--------------------------- MODULE AIRouter_proofs ---------------------------
(* Proofs about AIRouter, for any number of processes, providers, keys and *)
(* requests, any threshold and any lifetime of a cached key.               *)
EXTENDS AIRouter, Integers, FiniteSetTheorems, TLAPS

MaybeKey == Keys \cup {NoKey}

LEMMA SettingsFacts ==
    ASSUME settings \in Deployments
    PROVE  /\ settings.env \in [Providers -> MaybeKey]
           /\ settings.stored \in [Providers -> MaybeKey]
           /\ settings.managed \subseteq Providers
           /\ \A p, q \in Providers : settings.stored[p] = settings.stored[q]
                                         => p = q \/ settings.stored[p] = NoKey
BY RouterAssumption DEF MaybeKey

LEMMA Bounds ==
    /\ Threshold \in Nat /\ Threshold >= 1
    /\ Attempts \in Nat /\ Attempts >= 1
    /\ TTL \in Nat /\ TTL >= 1
    /\ NoKey \notin Keys /\ NoProvider \notin Providers /\ BadKeys \subseteq Keys
BY RouterAssumption

-----------------------------------------------------------------------------
(* Circuits.                                                               *)
CircuitShape ==
    /\ circuit \in [Procs -> [Providers -> CircuitType]]
    /\ failures \in [Procs -> [Providers -> 0..Threshold]]

(* A circuit counts no more failures than there were, and is open only     *)
(* when there were enough.                                                 *)
Faithful(s, f) == s.failures <= f /\ (s.is = "open" => f = Threshold)

CircuitInv ==
    /\ CircuitShape
    /\ \A n \in Procs, p \in Providers : Faithful(circuit[n][p], failures[n][p])

LEMMA CircuitRecords ==
    ASSUME NEW s \in CircuitType, NEW f \in 0..Threshold, Faithful(s, f)
    PROVE  /\ Closed \in CircuitType /\ Faithful(Closed, f) /\ Faithful(Closed, 0)
           /\ Seen(s) \in CircuitType /\ Faithful(Seen(s), f)
           /\ [s EXCEPT !.is = "lapsed"] \in CircuitType /\ Faithful([s EXCEPT !.is = "lapsed"], f)
           /\ AfterFailure(s) \in CircuitType /\ Capped(f + 1) \in 0..Threshold
           /\ Faithful(AfterFailure(s), Capped(f + 1))
<1> USE Bounds
<1>1. Closed \in CircuitType /\ Faithful(Closed, f) /\ Faithful(Closed, 0)
    BY DEF Closed, CircuitType, Faithful
<1>2. Seen(s) \in CircuitType /\ Faithful(Seen(s), f)
    BY <1>1 DEF Seen
<1>3. [s EXCEPT !.is = "lapsed"] \in CircuitType /\ Faithful([s EXCEPT !.is = "lapsed"], f)
    BY DEF CircuitType, Faithful
<1>4. Capped(f + 1) \in 0..Threshold
    BY DEF Capped
<1>5. ASSUME s.is = "open"
      PROVE  AfterFailure(s) \in CircuitType /\ Faithful(AfterFailure(s), Capped(f + 1))
  <2>1. AfterFailure(s) = s /\ f = Threshold /\ Capped(f + 1) = Threshold
      BY <1>5 DEF AfterFailure, Capped, Faithful
  <2>2. QED BY <2>1
<1>6. ASSUME s.is # "open"
      PROVE  AfterFailure(s) \in CircuitType /\ Faithful(AfterFailure(s), Capped(f + 1))
  <2>1. s.failures \in 0..Threshold /\ s.failures <= f
      BY DEF Faithful, CircuitType
  <2>2. AfterFailure(s) = [failures |-> Capped(s.failures + 1),
                           is |-> IF s.failures + 1 >= Threshold THEN "open" ELSE "closed"]
      BY <1>6 DEF AfterFailure
  <2>3. AfterFailure(s) \in CircuitType
      BY <2>1, <2>2 DEF CircuitType, Capped
  <2>4. Faithful(AfterFailure(s), Capped(f + 1))
      BY <2>1, <2>2 DEF Faithful, Capped
  <2>5. QED BY <2>3, <2>4
<1>7. AfterFailure(s) \in CircuitType /\ Faithful(AfterFailure(s), Capped(f + 1))
    BY <1>4, <1>5, <1>6
<1>8. QED BY <1>1, <1>2, <1>3, <1>4, <1>7

(* What a step can do to the circuit of one provider.                      *)
CircuitStep(s, f, s1, f1) ==
    \/ s1 = s /\ f1 = f
    \/ s1 = Seen(s) /\ f1 = f
    \/ s1 = [s EXCEPT !.is = "lapsed"] /\ f1 = f
    \/ s1 = AfterFailure(s) /\ f1 = Capped(f + 1)
    \/ s1 = Closed /\ f1 = 0

CircuitSteps ==
    /\ circuit' \in [Procs -> [Providers -> CircuitType]]
    /\ failures' \in [Procs -> [Providers -> 0..Threshold]]
    /\ \A n \in Procs, p \in Providers :
          CircuitStep(circuit[n][p], failures[n][p], circuit'[n][p], failures'[n][p])

LEMMA CircuitUnchanged ==
    ASSUME CircuitInv, UNCHANGED <<circuit, failures>>
    PROVE  CircuitSteps
BY DEF CircuitInv, CircuitShape, CircuitSteps, CircuitStep

LEMMA SeenSteps ==
    ASSUME CircuitInv, NEW n, NEW P, SeenAll(n, P), failures' = failures
    PROVE  CircuitSteps
<1>1. \A m \in Procs, p \in Providers :
          circuit'[m][p] = IF m = n /\ p \in P THEN Seen(circuit[m][p]) ELSE circuit[m][p]
    BY DEF SeenAll, CircuitInv, CircuitShape
<1>2. \A m \in Procs, p \in Providers : Seen(circuit[m][p]) \in CircuitType
    BY CircuitRecords DEF CircuitInv, CircuitShape
<1>3. circuit' \in [Procs -> [Providers -> CircuitType]]
    BY <1>1, <1>2 DEF SeenAll, CircuitInv, CircuitShape
<1>4. QED BY <1>1, <1>3 DEF CircuitSteps, CircuitStep, CircuitInv, CircuitShape

LEMMA CallSeen ==
    ASSUME CircuitInv, NEW c, NEW r, NEW wanted, NEW key, Call(c, r, wanted, key),
           failures' = failures
    PROVE  CircuitSteps
BY SeenSteps DEF Call

LEMMA FailureSteps ==
    ASSUME CircuitInv, NEW n, NEW q, RecordFailure(n, q)
    PROVE  CircuitSteps
<1>1. n \in Procs /\ q \in Providers =>
          /\ AfterFailure(circuit[n][q]) \in CircuitType
          /\ Capped(failures[n][q] + 1) \in 0..Threshold
    BY CircuitRecords DEF CircuitInv, CircuitShape
<1>2. circuit' = [circuit EXCEPT ![n][q] = AfterFailure(circuit[n][q])]
    BY DEF RecordFailure, CircuitInv, CircuitShape
<1>3. failures' = [failures EXCEPT ![n][q] = Capped(failures[n][q] + 1)]
    BY DEF RecordFailure, CircuitInv, CircuitShape
<1>0. /\ circuit \in [Procs -> [Providers -> CircuitType]]
      /\ failures \in [Procs -> [Providers -> 0..Threshold]]
    BY DEF CircuitInv, CircuitShape
<1>4. \A m \in Procs, p \in Providers :
          /\ circuit'[m][p] = IF m = n /\ p = q THEN AfterFailure(circuit[m][p]) ELSE circuit[m][p]
          /\ failures'[m][p] = IF m = n /\ p = q THEN Capped(failures[m][p] + 1) ELSE failures[m][p]
    BY <1>0, <1>2, <1>3
<1>5. circuit' \in [Procs -> [Providers -> CircuitType]]
    BY <1>0, <1>1, <1>2
<1>6. failures' \in [Procs -> [Providers -> 0..Threshold]]
    BY <1>0, <1>1, <1>3
<1>7. QED BY <1>4, <1>5, <1>6 DEF CircuitSteps, CircuitStep

LEMMA AnswerSteps ==
    ASSUME CircuitInv, NEW n, NEW q,
           circuit' = [circuit EXCEPT ![n][q] = Closed],
           failures' = [failures EXCEPT ![n][q] = 0]
    PROVE  CircuitSteps
<1>0. /\ circuit \in [Procs -> [Providers -> CircuitType]]
      /\ failures \in [Procs -> [Providers -> 0..Threshold]]
      /\ Closed \in CircuitType /\ 0 \in 0..Threshold
    BY Bounds DEF CircuitInv, CircuitShape, Closed, CircuitType
<1>1. \A m \in Procs, p \in Providers :
          /\ circuit'[m][p] = IF m = n /\ p = q THEN Closed ELSE circuit[m][p]
          /\ failures'[m][p] = IF m = n /\ p = q THEN 0 ELSE failures[m][p]
    BY <1>0
<1>2. circuit' \in [Procs -> [Providers -> CircuitType]]
    BY <1>0
<1>3. failures' \in [Procs -> [Providers -> 0..Threshold]]
    BY <1>0
<1>4. QED BY <1>1, <1>2, <1>3 DEF CircuitSteps, CircuitStep

LEMMA LapseSteps ==
    ASSUME CircuitInv, NEW n \in Procs, NEW q \in Providers, CircuitLapses(n, q)
    PROVE  CircuitSteps
<1>0. /\ circuit \in [Procs -> [Providers -> CircuitType]]
      /\ failures \in [Procs -> [Providers -> 0..Threshold]]
      /\ [circuit[n][q] EXCEPT !.is = "lapsed"] \in CircuitType
    BY CircuitRecords DEF CircuitInv, CircuitShape
<1>1. circuit' = [circuit EXCEPT ![n][q] = [circuit[n][q] EXCEPT !.is = "lapsed"]]
      /\ failures' = failures
    BY <1>0 DEF CircuitLapses
<1>2. \A m \in Procs, p \in Providers :
          circuit'[m][p] = IF m = n /\ p = q THEN [circuit[n][q] EXCEPT !.is = "lapsed"]
                                            ELSE circuit[m][p]
    BY <1>0, <1>1
<1>3. circuit' \in [Procs -> [Providers -> CircuitType]]
    BY <1>0, <1>1
<1>4. QED BY <1>0, <1>1, <1>2, <1>3 DEF CircuitSteps, CircuitStep

LEMMA RestartSteps ==
    ASSUME CircuitInv, NEW n \in Procs, Restart(n)
    PROVE  CircuitSteps
<1>0. /\ circuit \in [Procs -> [Providers -> CircuitType]]
      /\ failures \in [Procs -> [Providers -> 0..Threshold]]
      /\ Closed \in CircuitType /\ 0 \in 0..Threshold
    BY Bounds DEF CircuitInv, CircuitShape, Closed, CircuitType
<1>1. /\ circuit' = [circuit EXCEPT ![n] = [p \in Providers |-> Closed]]
      /\ failures' = [failures EXCEPT ![n] = [p \in Providers |-> 0]]
    BY DEF Restart
<1>2. \A m \in Procs, p \in Providers :
          /\ circuit'[m][p] = IF m = n THEN Closed ELSE circuit[m][p]
          /\ failures'[m][p] = IF m = n THEN 0 ELSE failures[m][p]
    BY <1>0, <1>1
<1>3. circuit' \in [Procs -> [Providers -> CircuitType]]
    BY <1>0, <1>1
<1>4. failures' \in [Procs -> [Providers -> 0..Threshold]]
    BY <1>0, <1>1
<1>5. QED BY <1>2, <1>3, <1>4 DEF CircuitSteps, CircuitStep

LEMMA CircuitNext ==
    ASSUME CircuitInv, [Next]_vars
    PROVE  CircuitSteps
<1>1. ASSUME NEW c \in Callers, NEW n \in Procs, NEW p \in Providers, Ask(c, n, p)
      PROVE  CircuitSteps
    BY <1>1, CallSeen DEF Ask
<1>2. ASSUME NEW c \in Callers, NEW n \in Procs, NEW p \in Providers, NEW k \in Keys,
             Connect(c, n, p, k)
      PROVE  CircuitSteps
    BY <1>2, CallSeen DEF Connect
<1>3. ASSUME NEW c \in Callers, Answer(c)
      PROVE  CircuitSteps
  <2>1. circuit' = [circuit EXCEPT ![caller[c].proc][Candidate(c)] = Closed]
      BY <1>3 DEF Answer, AfterAnswer
  <2>2. failures' = [failures EXCEPT ![caller[c].proc][Candidate(c)] = 0]
      BY <1>3 DEF Answer
  <2>3. QED BY <2>1, <2>2, AnswerSteps
<1>4. ASSUME NEW c \in Callers, FailTransiently(c)
      PROVE  CircuitSteps
    BY <1>4, FailureSteps DEF FailTransiently
<1>5. ASSUME NEW c \in Callers, Retry(c) \/ FailForGood(c) \/ Escape(c) \/ Save(c)
                                \/ TakeBack(c) \/ CommitDisconnect(c)
      PROVE  CircuitSteps
    BY <1>5, CircuitUnchanged DEF Retry, FailForGood, Escape, Save, TakeBack, CommitDisconnect
<1>6. ASSUME NEW c \in Callers, NEW n \in Procs, NEW p \in Providers, Disconnect(c, n, p)
      PROVE  CircuitSteps
    BY <1>6, CircuitUnchanged DEF Disconnect
<1>7. ASSUME NEW n \in Procs, Load(n) \/ Status(n) \/ \E p \in Providers : Stream(n, p)
      PROVE  CircuitSteps
    BY <1>7, CircuitUnchanged DEF Load, Status, Stream
<1>8. CASE Tick
    BY <1>8, CircuitUnchanged DEF Tick
<1>9. CASE UNCHANGED vars
    BY <1>9, CircuitUnchanged DEF vars
<1>10. QED
    BY <1>1, <1>2, <1>3, <1>4, <1>5, <1>6, <1>7, <1>8, <1>9, LapseSteps, RestartSteps
    DEF Next, CallStep

LEMMA CircuitKept ==
    ASSUME CircuitInv, CircuitSteps
    PROVE  CircuitInv'
<1>1. ASSUME NEW n \in Procs, NEW p \in Providers
      PROVE  Faithful(circuit'[n][p], failures'[n][p])
  <2>1. circuit[n][p] \in CircuitType /\ failures[n][p] \in 0..Threshold
        /\ Faithful(circuit[n][p], failures[n][p])
      BY DEF CircuitInv, CircuitShape
  <2>2. CircuitStep(circuit[n][p], failures[n][p], circuit'[n][p], failures'[n][p])
      BY DEF CircuitSteps
  <2>3. QED BY <2>1, <2>2, CircuitRecords DEF CircuitStep
<1>2. QED BY <1>1 DEF CircuitInv, CircuitShape, CircuitSteps

LEMMA CircuitStart ==
    Init => CircuitInv
BY Bounds DEF Init, CircuitInv, CircuitShape, CircuitType, Closed, Faithful

(* _record_provider_transient_failure, _is_provider_circuit_open: a        *)
(* circuit is open only after Threshold transient failures in its process  *)
(* since the provider last answered there.                                 *)
THEOREM OpenedRightly == Spec => []OpenAfterFailures
<1>1. Init => CircuitInv
    BY CircuitStart
<1>2. CircuitInv /\ [Next]_vars => CircuitInv'
    BY CircuitNext, CircuitKept
<1>3. CircuitInv => OpenAfterFailures
    BY DEF CircuitInv, Faithful, OpenAfterFailures
<1>4. QED BY <1>1, <1>2, <1>3, PTL DEF Spec
-----------------------------------------------------------------------------
(* Requests.  A request that connects a key has one, and no other has; the *)
(* steps that end a connect or a disconnect are taken by those.            *)
Sound(r) ==
    /\ r.what = "connect" => r.prov \in Providers /\ r.new \in Keys
    /\ r.what # "connect" => r.new = NoKey
    /\ r.at \in {"save", "clear"} => r.what = "connect"
    /\ r.at = "commit" => r.prov \in Providers

CallerOK(r) ==
    /\ r \in CallerType
    /\ r.at = "calling" => r.i \in DOMAIN r.order /\ r.try \in 1..Attempts
    /\ Sound(r)

LEMMA RequestRecord ==
    ASSUME NEW n \in Procs, NEW p \in Providers, NEW k \in Keys
    PROVE  /\ CallerOK(Idle(n)) /\ Idle(n).proc = n /\ Idle(n).new = NoKey
           /\ Idle(n).at = "idle" /\ Idle(n).what = "ask"
           /\ CallerOK(Request(n, "idle", "connect", p, k))
           /\ Request(n, "idle", "connect", p, k).new = k
           /\ Request(n, "idle", "connect", p, k).proc = n
           /\ CallerOK(Request(n, "commit", "disconnect", p, NoKey))
           /\ Request(n, "commit", "disconnect", p, NoKey).new = NoKey
           /\ Request(n, "commit", "disconnect", p, NoKey).proc = n
<1>1. <<>> \in Seq(Providers)
    OBVIOUS
<1>2. QED BY <1>1 DEF Idle, Request, CallerOK, CallerType, Sound

LEMMA DiallingRecord ==
    ASSUME NEW r, CallerOK(r), NEW chosen \in Providers \cup {NoProvider}, NEW order \in Seq(Providers),
           NEW i \in DOMAIN order, NEW try \in 1..Attempts, NEW key \in MaybeKey
    PROVE  /\ CallerOK(Dialling(r, chosen, order, i, try, key))
           /\ Dialling(r, chosen, order, i, try, key).proc = r.proc
           /\ Dialling(r, chosen, order, i, try, key).new = r.new
<1>1. i \in Nat /\ try \in Nat
    BY Bounds
<1>2. QED BY <1>1 DEF Dialling, CallerOK, CallerType, Sound, MaybeKey

LEMMA ConcludedRecord ==
    ASSUME NEW c, CallerOK(caller[c]), NEW b \in BOOLEAN
    PROVE  /\ CallerOK(Concluded(c, b)) /\ Concluded(c, b).proc = caller[c].proc
           /\ Concluded(c, b).new = caller[c].new
           /\ Concluded(c, b).at # "calling"
<1>1. CASE caller[c].what = "connect"
    BY <1>1 DEF Concluded, CallerOK, CallerType, Sound
<1>2. CASE caller[c].what # "connect"
  <2>1. Concluded(c, b) = Idle(caller[c].proc) /\ caller[c].proc \in Procs
        /\ caller[c].new = NoKey
      BY <1>2 DEF Concluded, CallerOK, CallerType, Sound
  <2>2. CallerOK(Idle(caller[c].proc)) /\ Idle(caller[c].proc).proc = caller[c].proc
        /\ Idle(caller[c].proc).new = NoKey /\ Idle(caller[c].proc).at = "idle"
      BY <2>1, <1>1 DEF Idle, Request, CallerOK, CallerType, Sound
  <2>3. QED BY <2>1, <2>2
<1>3. QED BY <1>1, <1>2

(* The orders in which the providers of a call may be tried.               *)
LEMMA Orders ==
    ASSUME NEW S \in SUBSET Providers, NEW s \in SetToSeqs(S)
    PROVE  s \in Seq(Providers) /\ (S # {} => 1 \in DOMAIN s)
<1>1. IsFiniteSet(S)
    BY FS_Subset, RouterAssumption
<1>2. Cardinality(S) \in Nat /\ (S # {} => Cardinality(S) # 0)
    BY <1>1, FS_CardinalityType, FS_EmptySet
<1>3. s \in [1..Cardinality(S) -> S]
    BY DEF SetToSeqs
<1>4. QED BY <1>2, <1>3

LEMMA RankedOrders ==
    ASSUME NEW n, NEW chosen \in Providers, NEW configured \in SUBSET Providers,
           NEW s \in Rank(n, chosen, configured)
    PROVE  s \in Seq(Providers) /\ 1 \in DOMAIN s
<1> DEFINE available == {p \in configured : circuit[n][p].is # "open"}
<1>1. CASE available = {}
  <2>1. PICK u \in SetToSeqs(configured \ {chosen}) : s = <<chosen>> \o u
      BY <1>1 DEF Rank
  <2>2. u \in Seq(Providers)
      BY Orders
  <2>3. QED BY <2>1, <2>2
<1>2. CASE available # {}
  <2>1. s \in SetToSeqs(available)
      BY <1>2 DEF Rank
  <2>2. QED BY <1>2, <2>1, Orders
<1>3. QED BY <1>1, <1>2
-----------------------------------------------------------------------------
(* Keys.  The age of a cached key is bounded by the time it has left, that *)
(* of a key a starting process holds by one tick; a key in a row, and one  *)
(* that is being connected, is still good, and each is in one place only.  *)
Young1(s) == Cache!Live(s) => s.key \in Keys /\ gone[s.key] <= 2 * TTL - s.left
Young2(s) == Cache!Live(s) => s.key \in Keys /\ gone[s.key] <= TTL - s.left + 1

CachesInv ==
    /\ \A n \in Procs, p \in Providers : Young1(l1[n][p])
    /\ \A p \in Providers : Young2(l2[p])

RowsInv ==
    \A n \in Procs : rows[n].loading =>
        \A p \in Providers : rows[n].keys[p] # NoKey => gone[rows[n].keys[p]] <= 1

StoredInv ==
    \A p \in Providers : stored[p] # NoKey =>
        gone[stored[p]] = 0 /\ \A q \in Providers : stored[q] = stored[p] => q = p

NewInv ==
    \A c \in Callers : caller[c].new # NoKey =>
        /\ gone[caller[c].new] = 0
        /\ \A p \in Providers : stored[p] # caller[c].new
        /\ \A d \in Callers : caller[d].new = caller[c].new => d = c

CallersInv == caller \in [Callers -> CallerType] /\ \A c \in Callers : CallerOK(caller[c])

KeyInv ==
    /\ Cache!KeyTypeOK /\ CallersInv
    /\ CachesInv /\ RowsInv /\ StoredInv /\ NewInv

LEMMA KeyShape ==
    ASSUME Cache!KeyTypeOK
    PROVE  /\ l1 \in [Procs -> [Providers -> Cache!Slots]]
           /\ l2 \in [Providers -> Cache!Slots]
           /\ stored \in [Providers -> MaybeKey] /\ env \in [Providers -> MaybeKey]
           /\ rows \in [Procs -> [loading : BOOLEAN, keys : [Providers -> MaybeKey]]]
           /\ gone \in [Keys -> 0..(2 * TTL)]
BY DEF Cache!KeyTypeOK, Cache!MaybeKey, MaybeKey, Cache!Stop

LEMMA ShapeKept ==
    ASSUME l1' \in [Procs -> [Providers -> Cache!Slots]],
           l2' \in [Providers -> Cache!Slots],
           stored' \in [Providers -> MaybeKey], env' \in [Providers -> MaybeKey],
           rows' \in [Procs -> [loading : BOOLEAN, keys : [Providers -> MaybeKey]]],
           gone' \in [Keys -> 0..(2 * TTL)]
    PROVE  Cache!KeyTypeOK'
BY DEF Cache!KeyTypeOK, Cache!MaybeKey, MaybeKey, Cache!Stop

LEMMA SlotRecords ==
    ASSUME NEW k \in Keys
    PROVE  /\ Cache!NoSlot \in Cache!Slots /\ ~Cache!Live(Cache!NoSlot)
           /\ Cache!Cached(k) \in Cache!Slots /\ Cache!Live(Cache!Cached(k))
           /\ Cache!Cached(k).key = k /\ Cache!Cached(k).left = TTL
BY Bounds DEF Cache!NoSlot, Cache!Slots, Cache!Live, Cache!Cached

LEMMA EmptySlot == Cache!NoSlot \in Cache!Slots /\ ~Cache!Live(Cache!NoSlot)
BY Bounds DEF Cache!NoSlot, Cache!Slots, Cache!Live

(* A lookup returns a key and leaves slots that are young enough.          *)
LEMMA LookedSlots ==
    ASSUME Cache!KeyTypeOK, CachesInv, NEW n \in Procs, NEW p \in Providers, NEW reach
    PROVE  /\ Cache!Key(n, p, reach) \in MaybeKey
           /\ Cache!Warmed(n, p, reach) \in Cache!Slots
           /\ Young1(Cache!Warmed(n, p, reach))
<1>1. l1[n][p] \in Cache!Slots /\ l2[p] \in Cache!Slots /\ env[p] \in MaybeKey
      /\ gone \in [Keys -> 0..(2 * TTL)]
    BY KeyShape
<1>2. Young1(l1[n][p]) /\ Young2(l2[p])
    BY DEF CachesInv
<1>3. CASE Cache!Live(l1[n][p])
    BY <1>1, <1>2, <1>3 DEF Cache!Key, Cache!Warmed, Cache!Slots, MaybeKey
<1>4. CASE ~Cache!Live(l1[n][p]) /\ reach /\ Cache!Live(l2[p])
  <2>1. l2[p].key \in Keys /\ gone[l2[p].key] <= TTL - l2[p].left + 1
        /\ l2[p].left \in 1..TTL
      BY <1>1, <1>2, <1>4 DEF Young2, Cache!Slots, Cache!Live
  <2>2. Cache!Warmed(n, p, reach) = Cache!Cached(l2[p].key)
        /\ Cache!Key(n, p, reach) = l2[p].key
      BY <1>4 DEF Cache!Warmed, Cache!Key
  <2>3. gone[l2[p].key] <= 2 * TTL - TTL
      BY <1>1, <2>1, Bounds
  <2>4. QED BY <2>1, <2>2, <2>3, SlotRecords DEF Young1, MaybeKey
<1>5. CASE ~Cache!Live(l1[n][p]) /\ ~(reach /\ Cache!Live(l2[p]))
    BY <1>1, <1>5, EmptySlot DEF Cache!Warmed, Cache!Key, Young1
<1>6. QED BY <1>3, <1>4, <1>5

LEMMA LookedTable ==
    ASSUME Cache!KeyTypeOK, CachesInv, NEW n \in Procs, NEW P, NEW reach
    PROVE  /\ Cache!Got(n, reach) \in [Providers -> MaybeKey]
           /\ Cache!Looked(n, P, reach) \in [Providers -> Cache!Slots]
           /\ \A p \in Providers : Young1(Cache!Looked(n, P, reach)[p])
<1>1. \A p \in Providers : l1[n][p] \in Cache!Slots /\ Young1(l1[n][p])
    BY KeyShape DEF CachesInv
<1>2. QED BY <1>1, LookedSlots DEF Cache!Got, Cache!Looked

(* One process gets new slots.                                             *)
LEMMA SlotsPut ==
    ASSUME Cache!KeyTypeOK, CachesInv, NEW n \in Procs, NEW f \in [Providers -> Cache!Slots],
           \A p \in Providers : Young1(f[p]),
           l1' = [l1 EXCEPT ![n] = f], gone' = gone
    PROVE  /\ l1' \in [Procs -> [Providers -> Cache!Slots]]
           /\ \A m \in Procs, p \in Providers : Young1(l1[m][p])'
<1>1. l1 \in [Procs -> [Providers -> Cache!Slots]]
    BY KeyShape
<1>2. \A m \in Procs, p \in Providers : Young1(l1'[m][p])
    BY <1>1 DEF CachesInv
<1>3. QED BY <1>1, <1>2 DEF Young1

(* A withdrawal makes no key older than one tick, and withdraws no other.  *)
LEMMA WithdrawnAges ==
    ASSUME gone \in [Keys -> 0..(2 * TTL)], NEW K, Cache!Withdrawn(K)
    PROVE  /\ gone' \in [Keys -> 0..(2 * TTL)]
           /\ \A k \in Keys : gone'[k] = gone[k] \/ (k \in K /\ gone'[k] = 1)
BY Bounds DEF Cache!Withdrawn

LEMMA StaysYoung ==
    ASSUME gone \in [Keys -> 0..(2 * TTL)], NEW K, Cache!Withdrawn(K),
           NEW s \in Cache!Slots
    PROVE  (Young1(s) => Young1(s)') /\ (Young2(s) => Young2(s)')
<1>1. CASE ~Cache!Live(s)
    BY <1>1 DEF Young1, Young2
<1>2. CASE Cache!Live(s) /\ s.key \in Keys
  <2>1. s.left \in 1..TTL
      BY <1>2 DEF Cache!Live, Cache!Slots
  <2>2. gone'[s.key] = gone[s.key] \/ gone'[s.key] = 1
      BY <1>2, WithdrawnAges
  <2>3. QED BY <1>2, <2>1, <2>2, Bounds DEF Young1, Young2
<1>3. CASE Cache!Live(s) /\ s.key \notin Keys
    BY <1>3 DEF Young1, Young2
<1>4. QED BY <1>1, <1>2, <1>3
-----------------------------------------------------------------------------
(* Steps that only look a key up, or leave the keys alone.                 *)
KeysKept == (Cache!KeyTypeOK /\ CachesInv /\ RowsInv /\ StoredInv)'

LEMMA LookUpKeeps ==
    ASSUME KeyInv, NEW n \in Procs, NEW P, NEW reach, LookUp(n, P, reach),
           UNCHANGED <<l2, stored, rows, env, gone>>
    PROVE  KeysKept
<1>0. Cache!KeyTypeOK /\ CachesInv /\ RowsInv /\ StoredInv
    BY DEF KeyInv
<1>1. PICK f \in [Providers -> Cache!Slots] : f = Cache!Looked(n, P, reach)
    BY <1>0, LookedTable
<1>2. /\ l1' \in [Procs -> [Providers -> Cache!Slots]]
      /\ \A m \in Procs, p \in Providers : Young1(l1[m][p])'
  <2>1. \A p \in Providers : Young1(f[p])
      BY <1>0, <1>1, LookedTable
  <2>2. l1' = [l1 EXCEPT ![n] = f]
      BY <1>1 DEF LookUp
  <2>3. QED BY <1>0, <2>1, <2>2, SlotsPut
<1>3. Cache!KeyTypeOK'
    BY <1>0, <1>2, KeyShape, ShapeKept
<1>4. CachesInv'
  <2>1. \A p \in Providers : Young2(l2[p])'
      BY <1>0 DEF CachesInv, Young2
  <2>2. QED BY <1>2, <2>1 DEF CachesInv
<1>5. RowsInv' /\ StoredInv'
    BY <1>0 DEF RowsInv, StoredInv
<1>6. QED BY <1>3, <1>4, <1>5 DEF KeysKept

LEMMA NothingKeeps ==
    ASSUME KeyInv, UNCHANGED keyVars
    PROVE  KeysKept
<1>1. UNCHANGED <<l1, l2, stored, rows, env, gone>>
    BY DEF keyVars
<1>2. Cache!KeyTypeOK'
    BY <1>1, KeyShape, ShapeKept DEF KeyInv
<1>3. CachesInv' /\ RowsInv' /\ StoredInv'
    BY <1>1 DEF KeyInv, CachesInv, RowsInv, StoredInv, Young1, Young2
<1>4. QED BY <1>2, <1>3 DEF KeysKept

(* Steps of requests that bring no new key.                                *)
Moved == CallersInv' /\ \A c \in Callers : caller'[c].new \in {caller[c].new, NoKey}

LEMMA Moves ==
    ASSUME CallersInv, NEW c \in Callers, NEW r, CallerOK(r), r.new \in {caller[c].new, NoKey},
           caller' = [caller EXCEPT ![c] = r]
    PROVE  Moved
BY DEF CallersInv, CallerOK, Moved

LEMMA MovedNew ==
    ASSUME NewInv, Moved, UNCHANGED <<stored, gone>>
    PROVE  NewInv'
BY DEF NewInv, Moved

LEMMA CallMoves ==
    ASSUME NEW c \in Callers, NEW r, CallerOK(r), NEW wanted,
           NEW key \in [Providers -> MaybeKey], Call(c, r, wanted, key)
    PROVE  \E q \in CallerType : /\ CallerOK(q) /\ q.new = r.new
                                 /\ caller' = [caller EXCEPT ![c] = q]
<1> DEFINE configured == {p \in Providers : key[p] # NoKey}
<1>1. PICK chosen \in IF wanted \in configured THEN {wanted} ELSE configured :
        \E order \in Rank(r.proc, chosen, configured) :
            caller' = [caller EXCEPT ![c] = Dialling(r, chosen, order, 1, 1, key[order[1]])]
    BY DEF Call
<1>2. chosen \in Providers
    BY <1>1
<1>3. PICK order \in Rank(r.proc, chosen, configured) :
            caller' = [caller EXCEPT ![c] = Dialling(r, chosen, order, 1, 1, key[order[1]])]
    BY <1>1
<1>4. order \in Seq(Providers) /\ 1 \in DOMAIN order
    BY <1>2, RankedOrders
<1>5. key[order[1]] \in MaybeKey /\ 1 \in 1..Attempts
    BY <1>4, Bounds
<1>6. CallerOK(Dialling(r, chosen, order, 1, 1, key[order[1]]))
      /\ Dialling(r, chosen, order, 1, 1, key[order[1]]).new = r.new
    BY <1>2, <1>4, <1>5, DiallingRecord
<1>7. QED BY <1>3, <1>6 DEF CallerOK

LEMMA SameNew ==
    ASSUME CallersInv, UNCHANGED caller
    PROVE  Moved
BY DEF CallersInv, CallerOK, Moved, Sound

LEMMA CallerFacts ==
    ASSUME CallersInv, NEW c \in Callers
    PROVE  /\ caller[c] \in CallerType /\ CallerOK(caller[c]) /\ caller[c].proc \in Procs
           /\ caller[c].at = "calling" =>
                 /\ Candidate(c) \in Providers
                 /\ caller[c].i \in DOMAIN caller[c].order
                 /\ caller[c].order \in Seq(Providers) /\ caller[c].try \in 1..Attempts
                 /\ caller[c].chosen \in Providers \cup {NoProvider}
BY DEF CallersInv, CallerOK, CallerType, Candidate
-----------------------------------------------------------------------------
(* Each action keeps the invariant.                                        *)
LEMMA Together ==
    ASSUME KeysKept, CallersInv', NewInv'
    PROVE  KeyInv'
BY DEF KeysKept, KeyInv

LEMMA AskKeeps ==
    ASSUME KeyInv, NEW c \in Callers, NEW n \in Procs, NEW p \in Providers, Ask(c, n, p)
    PROVE  KeyInv'
<1>1. PICK reach \in Reaches : /\ Call(c, Idle(n), p, Cache!Got(n, reach))
                               /\ LookUp(n, Providers, reach)
    BY DEF Ask
<1>2. UNCHANGED <<l2, stored, rows, env, gone>>
    BY DEF Ask
<1>3. KeysKept
    BY <1>1, <1>2, LookUpKeeps
<1>4. CallerOK(Idle(n)) /\ Idle(n).new = NoKey
  <2>1. <<>> \in Seq(Providers)
      OBVIOUS
  <2>2. QED BY <2>1 DEF Idle, Request, CallerOK, CallerType, Sound
<1>5. Cache!Got(n, reach) \in [Providers -> MaybeKey]
    BY LookedTable DEF KeyInv
<1>6. PICK q \in CallerType : /\ CallerOK(q) /\ q.new = NoKey
                              /\ caller' = [caller EXCEPT ![c] = q]
    BY <1>1, <1>4, <1>5, CallMoves
<1>7. Moved
    BY <1>6, Moves DEF KeyInv
<1>8. NewInv'
    BY <1>2, <1>7, MovedNew DEF KeyInv
<1>9. QED BY <1>3, <1>7, <1>8, Together DEF Moved

LEMMA LooksKeep ==
    ASSUME KeyInv, NEW n \in Procs, Status(n) \/ \E p \in Providers : Stream(n, p)
    PROVE  KeyInv'
<1>1. UNCHANGED <<caller, l2, stored, rows, env, gone>>
    BY DEF Status, Stream
<1>2. KeysKept
    BY <1>1, LookUpKeeps DEF Status, Stream
<1>3. Moved /\ NewInv'
    BY <1>1, SameNew, MovedNew DEF KeyInv
<1>4. QED BY <1>2, <1>3, Together DEF Moved

LEMMA AnswerKeeps ==
    ASSUME KeyInv, NEW c \in Callers, Answer(c)
    PROVE  KeyInv'
<1>1. UNCHANGED keyVars /\ caller' = [caller EXCEPT ![c] = Concluded(c, TRUE)]
    BY DEF Answer
<1>2. KeysKept
    BY <1>1, NothingKeeps
<1>3. Moved
    BY <1>1, CallerFacts, ConcludedRecord, Moves DEF KeyInv
<1>4. NewInv'
    BY <1>1, <1>3, MovedNew DEF KeyInv, keyVars
<1>5. QED BY <1>2, <1>3, <1>4, Together DEF Moved

LEMMA RetryKeeps ==
    ASSUME KeyInv, NEW c \in Callers, Retry(c)
    PROVE  KeyInv'
<1> DEFINE r == caller[c]
<1>1. PICK reach \in Reaches :
          /\ caller' = [caller EXCEPT ![c] =
                Dialling(r, r.chosen, r.order, r.i, r.try + 1, Cache!Key(r.proc, Candidate(c), reach))]
          /\ LookUp(r.proc, {Candidate(c)}, reach)
    BY DEF Retry
<1>2. UNCHANGED <<l2, stored, rows, env, gone>> /\ r.at = "calling" /\ r.try < Attempts
    BY DEF Retry
<1>3. /\ CallerOK(r) /\ r.proc \in Procs /\ Candidate(c) \in Providers
      /\ r.i \in DOMAIN r.order /\ r.order \in Seq(Providers) /\ r.try \in 1..Attempts
      /\ r.chosen \in Providers \cup {NoProvider}
    BY <1>2, CallerFacts DEF KeyInv
<1>4. KeysKept
    BY <1>1, <1>2, <1>3, LookUpKeeps
<1>5. Cache!Key(r.proc, Candidate(c), reach) \in MaybeKey
    BY <1>3, LookedSlots DEF KeyInv
<1>6. PICK key \in MaybeKey : key = Cache!Key(r.proc, Candidate(c), reach)
    BY <1>5
<1>7. PICK t \in 1..Attempts : t = r.try + 1
    BY <1>2, <1>3, Bounds
<1>8. PICK q : q = Dialling(r, r.chosen, r.order, r.i, t, key)
    OBVIOUS
<1>9. CallerOK(q) /\ q.new = r.new
    BY <1>3, <1>8, DiallingRecord
<1>10. Moved
    BY <1>1, <1>6, <1>7, <1>8, <1>9, Moves DEF KeyInv
<1>11. NewInv'
    BY <1>2, <1>10, MovedNew DEF KeyInv
<1>12. QED BY <1>4, <1>10, <1>11, Together DEF Moved

LEMMA FailedKeeps ==
    ASSUME KeyInv, NEW c \in Callers, caller[c].at = "calling", NEW b, Failed(c, b)
    PROVE  KeyInv'
<1> DEFINE r == caller[c]
<1>1. UNCHANGED <<l2, stored, rows, env, gone>>
    BY DEF Failed
<1>2. /\ CallerOK(r) /\ r.proc \in Procs /\ Candidate(c) \in Providers
      /\ r.i \in DOMAIN r.order /\ r.order \in Seq(Providers)
      /\ r.chosen \in Providers \cup {NoProvider}
    BY CallerFacts DEF KeyInv
<1>3. CASE GivesUp(c, b)
  <2>1. UNCHANGED keyVars /\ caller' = [caller EXCEPT ![c] = Concluded(c, FALSE)]
      BY <1>3 DEF Failed, keyVars
  <2>2. KeysKept
      BY <2>1, NothingKeeps
  <2>3. Moved
      BY <2>1, <1>2, ConcludedRecord, Moves DEF KeyInv
  <2>4. NewInv'
      BY <1>1, <2>3, MovedNew DEF KeyInv
  <2>5. QED BY <2>2, <2>3, <2>4, Together DEF Moved
<1>4. CASE ~GivesUp(c, b)
  <2>1. Onward(c)
      BY <1>4 DEF Failed
  <2>2. PICK reach \in Reaches :
          /\ caller' = [caller EXCEPT ![c] =
                Dialling(r, r.chosen, r.order, r.i + 1, 1, Cache!Key(r.proc, r.order[r.i + 1], reach))]
          /\ LookUp(r.proc, {r.order[r.i + 1]}, reach)
      BY <2>1 DEF Onward
  <2>3. r.i + 1 \in DOMAIN r.order /\ r.order[r.i + 1] \in Providers
    <3>1. r.i # Len(r.order)
        BY <1>4 DEF GivesUp
    <3>2. QED BY <1>2, <3>1
  <2>4. KeysKept
      BY <1>1, <1>2, <2>2, LookUpKeeps
  <2>5. PICK key \in MaybeKey : key = Cache!Key(r.proc, r.order[r.i + 1], reach)
      BY <1>2, <2>3, LookedSlots DEF KeyInv
  <2>6. PICK q : q = Dialling(r, r.chosen, r.order, r.i + 1, 1, key)
      OBVIOUS
  <2>7. CallerOK(q) /\ q.new = r.new
      BY <1>2, <2>3, <2>5, <2>6, DiallingRecord, Bounds
  <2>8. Moved
      BY <2>2, <2>5, <2>6, <2>7, Moves DEF KeyInv
  <2>9. NewInv'
      BY <1>1, <2>8, MovedNew DEF KeyInv
  <2>10. QED BY <2>4, <2>8, <2>9, Together DEF Moved
<1>5. QED BY <1>3, <1>4

(* A key that is entered is nowhere yet, so it has no age.                 *)
LEMMA ConnectKeeps ==
    ASSUME KeyInv, NEW c \in Callers, NEW n \in Procs, NEW p \in Providers, NEW k \in Keys,
           Connect(c, n, p, k)
    PROVE  KeyInv'
<1>0. Cache!KeyTypeOK /\ CachesInv /\ RowsInv /\ StoredInv /\ NewInv /\ CallersInv
    BY DEF KeyInv
<1>1. PICK reach \in Reaches, written \in Reaches :
          /\ Call(c, Request(n, "idle", "connect", p, k), p,
                  [Cache!Got(n, reach) EXCEPT ![p] = k])
          /\ l1' = [l1 EXCEPT ![n] = [Cache!Looked(n, Providers, reach) EXCEPT ![p] = Cache!Cached(k)]]
          /\ Cache!SetKey(p, k, written)
    BY DEF Connect
<1>2. UNCHANGED <<stored, rows, env, gone>>
    BY DEF Connect
<1>3. /\ gone[k] = 0 /\ \A q \in Providers : stored[q] # k
      /\ \A d \in Callers : caller[d].new # k
  <2>1. ~Known(k)
      BY DEF Connect
  <2>2. gone[k] \in 0..(2 * TTL)
      BY <1>0, KeyShape
  <2>3. QED BY <2>1, <2>2, Bounds DEF Known
<1>4. PICK s \in Cache!Slots : s = Cache!Cached(k)
    BY SlotRecords
<1>5. s.key = k /\ s.left = TTL /\ Young1(s) /\ Young2(s)
    BY <1>3, <1>4, SlotRecords, Bounds DEF Young1, Young2
<1>6. PICK f \in [Providers -> Cache!Slots] : f = Cache!Looked(n, Providers, reach)
    BY <1>0, LookedTable
<1>7. PICK g \in [Providers -> Cache!Slots] : g = [f EXCEPT ![p] = s]
    OBVIOUS
<1>8. \A q \in Providers : Young1(g[q])
  <2>1. \A q \in Providers : Young1(f[q])
      BY <1>0, <1>6, LookedTable
  <2>2. \A q \in Providers : g[q] = IF q = p THEN s ELSE f[q]
      BY <1>7
  <2>3. QED BY <1>5, <2>1, <2>2
<1>9. /\ l1' \in [Procs -> [Providers -> Cache!Slots]]
      /\ \A m \in Procs, q \in Providers : Young1(l1[m][q])'
  <2>1. l1' = [l1 EXCEPT ![n] = g]
      BY <1>1, <1>4, <1>6, <1>7
  <2>2. QED BY <1>0, <1>2, <1>8, <2>1, SlotsPut
<1>10. l2 \in [Providers -> Cache!Slots] /\ (l2' = l2 \/ l2' = [l2 EXCEPT ![p] = s])
    BY <1>0, <1>1, <1>4, KeyShape DEF Cache!SetKey
<1>11. l2' \in [Providers -> Cache!Slots] /\ \A q \in Providers : l2'[q] \in {l2[q], s}
    BY <1>10
<1>12. Cache!KeyTypeOK'
    BY <1>0, <1>2, <1>9, <1>11, KeyShape, ShapeKept
<1>13. CachesInv'
  <2>1. \A q \in Providers : Young2(l2'[q])
      BY <1>0, <1>5, <1>11 DEF CachesInv
  <2>2. \A q \in Providers : Young2(l2[q])'
      BY <1>2, <2>1 DEF Young2
  <2>3. QED BY <1>9, <2>2 DEF CachesInv
<1>14. RowsInv' /\ StoredInv'
    BY <1>0, <1>2 DEF RowsInv, StoredInv
<1>15. PICK r \in CallerType : /\ CallerOK(r) /\ r.new = k
                               /\ caller' = [caller EXCEPT ![c] = r]
  <2>1. [Cache!Got(n, reach) EXCEPT ![p] = k] \in [Providers -> MaybeKey]
      BY <1>0, LookedTable DEF MaybeKey
  <2>2. CallerOK(Request(n, "idle", "connect", p, k))
        /\ Request(n, "idle", "connect", p, k).new = k
      BY RequestRecord
  <2>3. PICK q : q = Request(n, "idle", "connect", p, k)
      OBVIOUS
  <2>4. PICK key \in [Providers -> MaybeKey] : key = [Cache!Got(n, reach) EXCEPT ![p] = k]
      BY <2>1
  <2>5. Call(c, q, p, key)
      BY <1>1, <2>3, <2>4
  <2>6. CallerOK(q) /\ q.new = k
      BY <2>2, <2>3
  <2>7. \E r \in CallerType : /\ CallerOK(r) /\ r.new = q.new
                             /\ caller' = [caller EXCEPT ![c] = r]
      BY ONLY <2>5, <2>6, c \in Callers, key \in [Providers -> MaybeKey], CallMoves
  <2>8. QED BY <2>6, <2>7
<1>16. CallersInv'
    BY <1>0, <1>15 DEF CallersInv, CallerOK
<1>17. NewInv'
  <2>1. \A d \in Callers : caller'[d].new = IF d = c THEN k ELSE caller[d].new
      BY <1>0, <1>15 DEF CallersInv
  <2>2. QED BY <1>0, <1>2, <1>3, <2>1 DEF NewInv
<1>18. QED BY <1>12, <1>13, <1>14, <1>16, <1>17 DEF KeyInv

(* Withdrawing keys, and emptying slots, keeps the caches young enough.    *)
Emptied ==
    /\ l1' \in [Procs -> [Providers -> Cache!Slots]]
    /\ l2' \in [Providers -> Cache!Slots]
    /\ \A n \in Procs, p \in Providers : l1'[n][p] \in {l1[n][p], Cache!NoSlot}
    /\ \A p \in Providers : l2'[p] \in {l2[p], Cache!NoSlot}

LEMMA NothingEmptied ==
    ASSUME KeyInv, UNCHANGED <<l1, l2>>
    PROVE  Emptied
BY KeyShape DEF KeyInv, Emptied

LEMMA NothingWithdrawn ==
    ASSUME KeyInv, UNCHANGED gone
    PROVE  Cache!Withdrawn({})
BY KeyShape DEF KeyInv, Cache!Withdrawn

LEMMA EmptiedCaches ==
    ASSUME KeyInv, NEW K, Cache!Withdrawn(K), Emptied
    PROVE  CachesInv'
<1>0. gone \in [Keys -> 0..(2 * TTL)] /\ l1 \in [Procs -> [Providers -> Cache!Slots]]
      /\ l2 \in [Providers -> Cache!Slots]
    BY KeyShape DEF KeyInv
<1>1. ASSUME NEW n \in Procs, NEW p \in Providers
      PROVE  Young1(l1[n][p])'
  <2>1. PICK s \in Cache!Slots : s = l1[n][p]
      BY <1>0
  <2>2. Young1(s)
      BY <2>1 DEF KeyInv, CachesInv
  <2>3. Young1(s)'
      BY <1>0, <2>2, StaysYoung
  <2>4. l1'[n][p] = s \/ l1'[n][p] = Cache!NoSlot
      BY <2>1 DEF Emptied
  <2>5. QED BY <2>3, <2>4, EmptySlot DEF Young1
<1>2. ASSUME NEW p \in Providers
      PROVE  Young2(l2[p])'
  <2>1. PICK s \in Cache!Slots : s = l2[p]
      BY <1>0
  <2>2. Young2(s)
      BY <2>1 DEF KeyInv, CachesInv
  <2>3. Young2(s)'
      BY <1>0, <2>2, StaysYoung
  <2>4. l2'[p] = s \/ l2'[p] = Cache!NoSlot
      BY <2>1 DEF Emptied
  <2>5. QED BY <2>3, <2>4, EmptySlot DEF Young2
<1>3. QED BY <1>1, <1>2 DEF CachesInv

LEMMA WithdrawnRows ==
    ASSUME KeyInv, NEW K, Cache!Withdrawn(K), UNCHANGED rows
    PROVE  RowsInv'
<1>1. /\ \A k \in Keys : gone'[k] = gone[k] \/ gone'[k] = 1
      /\ \A n \in Procs, p \in Providers : rows[n].keys[p] \in MaybeKey
    BY WithdrawnAges, KeyShape DEF KeyInv
<1>2. QED BY <1>1 DEF KeyInv, RowsInv, MaybeKey

LEMMA ClearedSlots ==
    ASSUME KeyInv, NEW n \in Procs, NEW p \in Providers, NEW reach, Cache!ClearKey(n, p, reach)
    PROVE  Emptied
<1>1. l1 \in [Procs -> [Providers -> Cache!Slots]] /\ l2 \in [Providers -> Cache!Slots]
    BY KeyShape DEF KeyInv
<1>2. /\ l1' = [l1 EXCEPT ![n] = [l1[n] EXCEPT ![p] = Cache!NoSlot]]
      /\ l2' = l2 \/ l2' = [l2 EXCEPT ![p] = Cache!NoSlot]
    BY <1>1 DEF Cache!ClearKey
<1>3. QED BY <1>1, <1>2, EmptySlot DEF Emptied

LEMMA IdleAgain ==
    ASSUME CallersInv, NEW c \in Callers, caller' = [caller EXCEPT ![c] = Idle(caller[c].proc)]
    PROVE  /\ CallersInv'
           /\ \A d \in Callers : caller'[d].new = IF d = c THEN NoKey ELSE caller[d].new
<1>1. PICK n \in Procs : n = caller[c].proc
    BY CallerFacts
<1>2. PICK r : r = Idle(n)
    OBVIOUS
<1>3. CallerOK(r) /\ r.new = NoKey /\ caller' = [caller EXCEPT ![c] = r]
  <2>1. <<>> \in Seq(Providers)
      OBVIOUS
  <2>2. CallerOK(r) /\ r.new = NoKey
      BY <1>2, <2>1 DEF Idle, Request, CallerOK, CallerType, Sound
  <2>3. QED BY <1>1, <1>2, <2>2
<1>4. QED BY <1>3 DEF CallersInv, CallerOK

(* The row of an integration gets a new key, or none.                      *)
LEMMA StoreKeeps ==
    ASSUME KeyInv, NEW c \in Callers, NEW p \in Providers, NEW k \in MaybeKey,
           k \in {caller[c].new, NoKey}, Cache!StoreKey(p, k),
           caller' = [caller EXCEPT ![c] = Idle(caller[c].proc)],
           UNCHANGED <<l1, l2, rows, env>>
    PROVE  KeyInv'
<1> DEFINE K == {stored[p]} \ {k, NoKey}
<1>0. Cache!KeyTypeOK /\ StoredInv /\ NewInv /\ CallersInv
    BY DEF KeyInv
<1>1. Cache!Withdrawn(K) /\ stored' = [stored EXCEPT ![p] = k]
    BY DEF Cache!StoreKey
<1>2. CachesInv' /\ RowsInv'
    BY <1>1, NothingEmptied, EmptiedCaches, WithdrawnRows
<1>3. /\ gone \in [Keys -> 0..(2 * TTL)] /\ gone' \in [Keys -> 0..(2 * TTL)]
      /\ \A q \in Keys : gone'[q] = gone[q] \/ q \in K
    BY <1>0, <1>1, KeyShape, WithdrawnAges
<1>4. stored \in [Providers -> MaybeKey] /\ stored' \in [Providers -> MaybeKey]
      /\ \A q \in Providers : stored'[q] = IF q = p THEN k ELSE stored[q]
    BY <1>0, <1>1, KeyShape
<1>5. Cache!KeyTypeOK'
    BY <1>0, <1>3, <1>4, KeyShape, ShapeKept
<1>6. CallersInv' /\ \A d \in Callers : caller'[d].new = IF d = c THEN NoKey ELSE caller[d].new
    BY <1>0, IdleAgain
<1>7. StoredInv'
  <2>1. ASSUME NEW q \in Providers, stored'[q] # NoKey
        PROVE  gone'[stored'[q]] = 0 /\ \A u \in Providers : stored'[u] = stored'[q] => u = q
    <3>1. CASE q = p
      <4>1. k = caller[c].new /\ k # NoKey /\ k \in Keys /\ stored'[q] = k
          BY <1>4, <2>1, <3>1 DEF MaybeKey
      <4>2. gone[k] = 0 /\ \A u \in Providers : stored[u] # k
          BY <1>0, <4>1 DEF NewInv
      <4>3. QED BY <1>3, <1>4, <3>1, <4>1, <4>2
    <3>2. CASE q # p
      <4>1. stored'[q] = stored[q] /\ stored[q] \in Keys
          BY <1>4, <2>1, <3>2 DEF MaybeKey
      <4>2. gone[stored[q]] = 0 /\ stored[p] # stored[q]
          BY <1>0, <2>1, <3>2, <4>1 DEF StoredInv
      <4>3. stored[q] # k
          BY <1>0, <2>1, <4>1 DEF NewInv
      <4>4. gone'[stored[q]] = 0
          BY <1>3, <4>1, <4>2
      <4>5. QED BY <1>0, <1>4, <2>1, <3>2, <4>1, <4>3, <4>4 DEF StoredInv
    <3>3. QED BY <3>1, <3>2
  <2>2. QED BY <2>1 DEF StoredInv
<1>8. NewInv'
  <2>1. ASSUME NEW d \in Callers, caller'[d].new # NoKey
        PROVE  /\ gone'[caller'[d].new] = 0
               /\ \A q \in Providers : stored'[q] # caller'[d].new
               /\ \A e \in Callers : caller'[e].new = caller'[d].new => e = d
    <3>1. d # c /\ caller'[d].new = caller[d].new /\ caller[d].new \in Keys
      <4>1. caller[d].new \in MaybeKey
          BY <1>0, CallerFacts DEF CallerType, MaybeKey
      <4>2. QED BY <1>6, <2>1, <4>1 DEF MaybeKey
    <3>2. gone[caller[d].new] = 0 /\ \A q \in Providers : stored[q] # caller[d].new
        BY <1>0, <2>1, <3>1 DEF NewInv
    <3>3. caller[d].new # k
        BY <1>0, <2>1, <3>1 DEF NewInv
    <3>4. QED BY <1>0, <1>3, <1>4, <1>6, <2>1, <3>1, <3>2, <3>3 DEF NewInv
  <2>2. QED BY <2>1 DEF NewInv
<1>9. QED BY <1>2, <1>5, <1>6, <1>7, <1>8 DEF KeyInv

LEMMA SavesKeep ==
    ASSUME KeyInv, NEW c \in Callers, Save(c) \/ CommitDisconnect(c)
    PROVE  KeyInv'
<1>1. CallerOK(caller[c]) /\ caller[c].new \in MaybeKey
    BY CallerFacts DEF KeyInv, CallerType, MaybeKey
<1>2. CASE Save(c)
  <2>1. caller[c].prov \in Providers
      BY <1>1, <1>2 DEF Save, CallerOK, Sound
  <2>2. QED BY <1>1, <1>2, <2>1, StoreKeeps DEF Save
<1>3. CASE CommitDisconnect(c)
  <2>1. caller[c].prov \in Providers
      BY <1>1, <1>3 DEF CommitDisconnect, CallerOK, Sound
  <2>2. QED BY <1>3, <2>1, StoreKeeps DEF CommitDisconnect, MaybeKey
<1>4. QED BY <1>2, <1>3

(* A key that was to be connected is withdrawn with its request.           *)
LEMMA WithdrawKeeps ==
    ASSUME KeyInv, NEW c \in Callers, Emptied, Cache!Withdrawn({caller[c].new}),
           UNCHANGED <<stored, rows, env>>,
           caller' = [caller EXCEPT ![c] = Idle(caller[c].proc)]
    PROVE  KeyInv'
<1>0. Cache!KeyTypeOK /\ StoredInv /\ NewInv /\ CallersInv
    BY DEF KeyInv
<1>1. /\ Cache!Withdrawn({caller[c].new}) /\ UNCHANGED <<stored, rows, env>>
      /\ caller' = [caller EXCEPT ![c] = Idle(caller[c].proc)]
    OBVIOUS
<1>4. CachesInv' /\ RowsInv'
    BY <1>1, EmptiedCaches, WithdrawnRows
<1>5. /\ gone' \in [Keys -> 0..(2 * TTL)]
      /\ \A q \in Keys : gone'[q] = gone[q] \/ q = caller[c].new
      /\ stored \in [Providers -> MaybeKey]
    BY <1>0, <1>1, KeyShape, WithdrawnAges
<1>6. Cache!KeyTypeOK'
    BY <1>0, <1>1, <1>5, KeyShape, ShapeKept DEF Emptied
<1>7. CallersInv' /\ \A d \in Callers : caller'[d].new = IF d = c THEN NoKey ELSE caller[d].new
    BY <1>0, <1>1, IdleAgain
<1>8. \A p \in Providers : stored[p] # NoKey => stored[p] # caller[c].new
    BY <1>0 DEF NewInv
<1>9. StoredInv'
    BY <1>0, <1>1, <1>5, <1>8 DEF StoredInv, MaybeKey
<1>10. NewInv'
  <2>1. ASSUME NEW d \in Callers, caller'[d].new # NoKey
        PROVE  d # c /\ gone'[caller[d].new] = 0
    <3>1. d # c /\ caller[d].new # NoKey /\ caller[d].new \in Keys
      <4>1. caller[d].new \in MaybeKey
          BY <1>0, CallerFacts DEF CallerType, MaybeKey
      <4>2. QED BY <1>7, <2>1, <4>1 DEF MaybeKey
    <3>2. caller[d].new # caller[c].new /\ gone[caller[d].new] = 0
        BY <1>0, <3>1 DEF NewInv
    <3>3. QED BY <1>5, <3>1, <3>2
  <2>2. QED BY <1>0, <1>1, <1>7, <2>1 DEF NewInv
<1>11. QED BY <1>4, <1>6, <1>7, <1>9, <1>10 DEF KeyInv

LEMMA TakeBackKeeps ==
    ASSUME KeyInv, NEW c \in Callers, TakeBack(c)
    PROVE  KeyInv'
<1>1. caller[c].proc \in Procs /\ caller[c].prov \in Providers
    BY CallerFacts DEF TakeBack, KeyInv, CallerOK, Sound
<1>2. Emptied
    BY <1>1, ClearedSlots DEF TakeBack
<1>3. QED BY <1>2, WithdrawKeeps DEF TakeBack

LEMMA EscapeKeeps ==
    ASSUME KeyInv, NEW c \in Callers, Escape(c)
    PROVE  KeyInv'
<1>1. Emptied
    BY NothingEmptied DEF Escape
<1>2. QED BY <1>1, WithdrawKeeps DEF Escape

LEMMA DisconnectKeeps ==
    ASSUME KeyInv, NEW c \in Callers, NEW n \in Procs, NEW p \in Providers, Disconnect(c, n, p)
    PROVE  KeyInv'
<1>1. /\ UNCHANGED <<stored, rows, env, gone>> /\ Emptied
      /\ caller' = [caller EXCEPT ![c] = Request(n, "commit", "disconnect", p, NoKey)]
    BY ClearedSlots DEF Disconnect
<1>2. CachesInv'
    BY <1>1, NothingWithdrawn, EmptiedCaches
<1>3. Cache!KeyTypeOK'
    BY <1>1, KeyShape, ShapeKept DEF Emptied, KeyInv
<1>4. RowsInv' /\ StoredInv'
    BY <1>1 DEF KeyInv, RowsInv, StoredInv
<1>5. PICK r : r = Request(n, "commit", "disconnect", p, NoKey)
    OBVIOUS
<1>6. CallerOK(r) /\ r.new = NoKey
  <2>1. <<>> \in Seq(Providers)
      OBVIOUS
  <2>2. QED BY <1>5, <2>1 DEF Request, CallerOK, CallerType, Sound
<1>7. Moved
    BY <1>1, <1>5, <1>6, Moves DEF KeyInv
<1>8. NewInv'
    BY <1>1, <1>7, MovedNew DEF KeyInv
<1>9. QED BY <1>2, <1>3, <1>4, <1>7, <1>8 DEF KeyInv, Moved

LEMMA RestartKeeps ==
    ASSUME KeyInv, NEW n \in Procs, Restart(n)
    PROVE  KeyInv'
<1> DEFINE lost == {c \in Callers : caller[c].proc = n /\ caller[c].at # "idle"}
           K    == {caller[c].new : c \in lost}
<1>0. Cache!KeyTypeOK /\ StoredInv /\ NewInv /\ CallersInv
    BY DEF KeyInv
<1>1. /\ Cache!Withdrawn(K) /\ UNCHANGED <<l2, stored, env>>
      /\ rows' = [rows EXCEPT ![n] = [loading |-> TRUE, keys |-> stored]]
      /\ l1' = [l1 EXCEPT ![n] = [p \in Providers |-> Cache!NoSlot]]
      /\ caller' = [c \in Callers |-> IF c \in lost THEN Idle(n) ELSE caller[c]]
    BY DEF Restart, Cache!ReadRows
<1>2. Emptied
    BY <1>0, <1>1, KeyShape, EmptySlot DEF Emptied
<1>3. CachesInv'
    BY <1>1, <1>2, EmptiedCaches
<1>4. /\ gone \in [Keys -> 0..(2 * TTL)] /\ gone' \in [Keys -> 0..(2 * TTL)]
      /\ \A q \in Keys : gone'[q] = gone[q] \/ (q \in K /\ gone'[q] = 1)
      /\ stored \in [Providers -> MaybeKey]
      /\ rows \in [Procs -> [loading : BOOLEAN, keys : [Providers -> MaybeKey]]]
    BY <1>0, <1>1, KeyShape, WithdrawnAges
<1>5. Cache!KeyTypeOK'
  <2>1. rows' \in [Procs -> [loading : BOOLEAN, keys : [Providers -> MaybeKey]]]
      BY <1>1, <1>4
  <2>2. QED BY <1>0, <1>1, <1>2, <1>4, <2>1, KeyShape, ShapeKept DEF Emptied
<1>6. \A p \in Providers : stored[p] # NoKey => stored[p] \in Keys /\ stored[p] \notin K
    BY <1>0, <1>4 DEF NewInv, MaybeKey
<1>7. \A p \in Providers : stored[p] # NoKey => gone'[stored[p]] = 0
    BY <1>0, <1>4, <1>6 DEF StoredInv
<1>8. StoredInv'
    BY <1>0, <1>1, <1>7 DEF StoredInv
<1>9. RowsInv'
  <2>1. ASSUME NEW m \in Procs, rows'[m].loading, NEW p \in Providers, rows'[m].keys[p] # NoKey
        PROVE  gone'[rows'[m].keys[p]] <= 1
    <3>1. CASE m = n
        BY <1>1, <1>4, <1>7, <2>1, <3>1
    <3>2. CASE m # n
      <4>1. rows'[m] = rows[m] /\ rows[m].keys[p] \in Keys
          BY <1>1, <1>4, <2>1, <3>2 DEF MaybeKey
      <4>2. gone[rows[m].keys[p]] <= 1
          BY <2>1, <4>1 DEF KeyInv, RowsInv
      <4>3. QED BY <1>4, <4>1, <4>2
    <3>3. QED BY <3>1, <3>2
  <2>2. QED BY <2>1 DEF RowsInv
<1>10. PICK r : r = Idle(n)
    OBVIOUS
<1>11. CallerOK(r) /\ r.new = NoKey
  <2>1. <<>> \in Seq(Providers)
      OBVIOUS
  <2>2. QED BY <1>10, <2>1 DEF Idle, Request, CallerOK, CallerType, Sound
<1>12. CallersInv' /\ \A d \in Callers : caller'[d].new = IF d \in lost THEN NoKey ELSE caller[d].new
    BY <1>0, <1>1, <1>10, <1>11 DEF CallersInv, CallerOK
<1>13. NewInv'
  <2>1. ASSUME NEW d \in Callers, caller'[d].new # NoKey
        PROVE  d \notin lost /\ caller[d].new # NoKey /\ gone'[caller[d].new] = 0
    <3>1. d \notin lost /\ caller[d].new # NoKey /\ caller[d].new \in Keys
      <4>1. caller[d].new \in MaybeKey
          BY <1>0, CallerFacts DEF CallerType, MaybeKey
      <4>2. QED BY <1>12, <2>1, <4>1 DEF MaybeKey
    <3>2. caller[d].new \notin K /\ gone[caller[d].new] = 0
        BY <1>0, <3>1 DEF NewInv
    <3>3. QED BY <1>4, <3>1, <3>2
  <2>2. QED BY <1>0, <1>1, <1>12, <2>1 DEF NewInv
<1>14. QED BY <1>3, <1>5, <1>8, <1>9, <1>12, <1>13 DEF KeyInv

LEMMA LoadKeeps ==
    ASSUME KeyInv, NEW n \in Procs, Load(n)
    PROVE  KeyInv'
<1>0. Cache!KeyTypeOK /\ StoredInv /\ NewInv /\ CallersInv /\ CachesInv /\ RowsInv
    BY DEF KeyInv
<1> DEFINE found(p) == rows[n].keys[p] # NoKey
<1>1. PICK reach \in Reaches :
          /\ rows[n].loading
          /\ l1' = [l1 EXCEPT ![n] = [p \in Providers |->
                       IF found(p) THEN Cache!Cached(rows[n].keys[p]) ELSE @[p]]]
          /\ l2' = [p \in Providers |->
                       IF reach /\ found(p) THEN Cache!Cached(rows[n].keys[p]) ELSE l2[p]]
          /\ rows' = [rows EXCEPT ![n] = Cache!Booted]
          /\ UNCHANGED <<stored, env, gone>>
    BY DEF Load, Cache!CacheRows
<1>2. UNCHANGED caller
    BY DEF Load
<1>3. /\ l1 \in [Procs -> [Providers -> Cache!Slots]] /\ l2 \in [Providers -> Cache!Slots]
      /\ rows \in [Procs -> [loading : BOOLEAN, keys : [Providers -> MaybeKey]]]
      /\ gone \in [Keys -> 0..(2 * TTL)]
    BY <1>0, KeyShape
<1>4. ASSUME NEW p \in Providers, found(p)
      PROVE  /\ Cache!Cached(rows[n].keys[p]) \in Cache!Slots
             /\ Young1(Cache!Cached(rows[n].keys[p])) /\ Young2(Cache!Cached(rows[n].keys[p]))
  <2>1. PICK k \in Keys : k = rows[n].keys[p]
      BY <1>3, <1>4 DEF MaybeKey
  <2>2. gone[k] \in 0..(2 * TTL) /\ gone[k] <= 1
      BY <1>0, <1>1, <1>3, <1>4, <2>1 DEF RowsInv
  <2>3. QED BY <2>1, <2>2, SlotRecords, Bounds DEF Young1, Young2
<1>5. PICK f : f = [p \in Providers |-> IF found(p) THEN Cache!Cached(rows[n].keys[p]) ELSE l1[n][p]]
    OBVIOUS
<1>6. f \in [Providers -> Cache!Slots] /\ \A p \in Providers : Young1(f[p])
    BY <1>0, <1>3, <1>4, <1>5 DEF CachesInv
<1>7. /\ l1' \in [Procs -> [Providers -> Cache!Slots]]
      /\ \A m \in Procs, p \in Providers : Young1(l1[m][p])'
  <2>1. l1' = [l1 EXCEPT ![n] = f]
      BY <1>1, <1>3, <1>5
  <2>2. QED BY <1>0, <1>1, <1>6, <2>1, SlotsPut
<1>8. l2' \in [Providers -> Cache!Slots] /\ \A p \in Providers : Young2(l2[p])'
  <2>1. \A p \in Providers : l2'[p] \in Cache!Slots /\ Young2(l2'[p])
      BY <1>0, <1>1, <1>3, <1>4 DEF CachesInv
  <2>2. l2' \in [Providers -> Cache!Slots]
      BY <1>1, <2>1
  <2>3. QED BY <1>1, <2>1, <2>2 DEF Young2
<1>9. rows' \in [Procs -> [loading : BOOLEAN, keys : [Providers -> MaybeKey]]]
      /\ \A m \in Procs : rows'[m].loading => m # n /\ rows'[m] = rows[m]
  <2>1. Cache!Booted \in [loading : BOOLEAN, keys : [Providers -> MaybeKey]]
        /\ ~Cache!Booted.loading
      BY DEF Cache!Booted, Cache!NoRows, MaybeKey
  <2>2. QED BY <1>1, <1>3, <2>1
<1>10. Cache!KeyTypeOK'
    BY <1>0, <1>1, <1>7, <1>8, <1>9, KeyShape, ShapeKept
<1>11. CachesInv' /\ StoredInv'
    BY <1>0, <1>1, <1>7, <1>8 DEF CachesInv, StoredInv
<1>12. RowsInv'
    BY <1>0, <1>1, <1>9 DEF RowsInv
<1>13. Moved /\ NewInv'
    BY <1>0, <1>1, <1>2, SameNew, MovedNew
<1>14. QED BY <1>10, <1>11, <1>12, <1>13 DEF KeyInv, Moved

(* A tick takes one from the time a slot has left, and gives one to the    *)
(* age of its key.                                                         *)
LEMMA TickKeeps ==
    ASSUME KeyInv, Tick
    PROVE  KeyInv'
<1>0. Cache!KeyTypeOK /\ StoredInv /\ NewInv /\ CallersInv /\ CachesInv /\ RowsInv
    BY DEF KeyInv
<1>1. /\ \A n \in Procs : ~rows[n].loading
      /\ l1' = [n \in Procs |-> [p \in Providers |-> Cache!Older(l1[n][p])]]
      /\ l2' = [p \in Providers |-> Cache!Older(l2[p])]
      /\ gone' = [k \in Keys |-> IF gone[k] \in 1..(Cache!Stop - 1) THEN gone[k] + 1 ELSE gone[k]]
      /\ UNCHANGED <<stored, rows, env, caller>>
    BY DEF Tick, Cache!Tick
<1>2. /\ l1 \in [Procs -> [Providers -> Cache!Slots]] /\ l2 \in [Providers -> Cache!Slots]
      /\ gone \in [Keys -> 0..(2 * TTL)]
    BY <1>0, KeyShape
<1>3. gone' \in [Keys -> 0..(2 * TTL)]
      /\ \A k \in Keys : gone'[k] <= gone[k] + 1 /\ (gone[k] = 0 => gone'[k] = 0)
    BY <1>1, <1>2, Bounds DEF Cache!Stop
<1>4. ASSUME NEW s \in Cache!Slots
      PROVE  /\ Cache!Older(s) \in Cache!Slots
             /\ Young1(s) => Young1(Cache!Older(s))'
             /\ Young2(s) => Young2(Cache!Older(s))'
  <2>1. CASE s.left > 1
    <3>1. PICK o : o = [s EXCEPT !.left = s.left - 1]
        OBVIOUS
    <3>2. Cache!Older(s) = o /\ o \in Cache!Slots /\ o.key = s.key /\ o.left = s.left - 1
          /\ s.left \in 1..TTL
        BY <2>1, <3>1, Bounds DEF Cache!Older, Cache!Slots
    <3>3. Young1(s) => s.key \in Keys /\ gone[s.key] <= 2 * TTL - s.left
        BY <3>2 DEF Young1, Cache!Live
    <3>4. Young2(s) => s.key \in Keys /\ gone[s.key] <= TTL - s.left + 1
        BY <3>2 DEF Young2, Cache!Live
    <3>5. s.key \in Keys => gone[s.key] \in Nat /\ gone'[s.key] \in Nat
                            /\ gone'[s.key] <= gone[s.key] + 1
        BY <1>2, <1>3, Bounds
    <3>6. Young1(s) => o.key \in Keys /\ gone'[o.key] <= 2 * TTL - o.left
        BY <3>2, <3>3, <3>5, Bounds
    <3>7. Young2(s) => o.key \in Keys /\ gone'[o.key] <= TTL - o.left + 1
        BY <3>2, <3>4, <3>5, Bounds
    <3>8. QED BY <3>2, <3>6, <3>7 DEF Young1, Young2
  <2>2. CASE ~(s.left > 1)
    <3>1. Cache!Older(s) = Cache!NoSlot
        BY <2>2 DEF Cache!Older
    <3>2. QED BY <3>1, EmptySlot DEF Young1, Young2
  <2>3. QED BY <2>1, <2>2
<1>5. /\ l1' \in [Procs -> [Providers -> Cache!Slots]]
      /\ l2' \in [Providers -> Cache!Slots]
    BY <1>1, <1>2, <1>4
<1>6. Cache!KeyTypeOK'
    BY <1>0, <1>1, <1>3, <1>5, KeyShape, ShapeKept
<1>7. CachesInv'
  <2>1. ASSUME NEW n \in Procs, NEW p \in Providers
        PROVE  Young1(l1[n][p])'
    <3>1. PICK s \in Cache!Slots : s = l1[n][p]
        BY <1>2
    <3>2. Young1(Cache!Older(s))'
        BY <1>0, <1>4, <3>1 DEF CachesInv
    <3>3. l1'[n][p] = Cache!Older(s)
        BY <1>1, <3>1
    <3>4. QED BY <3>2, <3>3 DEF Young1
  <2>2. ASSUME NEW p \in Providers
        PROVE  Young2(l2[p])'
    <3>1. PICK s \in Cache!Slots : s = l2[p]
        BY <1>2
    <3>2. Young2(Cache!Older(s))'
        BY <1>0, <1>4, <3>1 DEF CachesInv
    <3>3. l2'[p] = Cache!Older(s)
        BY <1>1, <3>1
    <3>4. QED BY <3>2, <3>3 DEF Young2
  <2>3. QED BY <2>1, <2>2 DEF CachesInv
<1>8. RowsInv'
    BY <1>1 DEF RowsInv
<1>9. StoredInv' /\ CallersInv' /\ NewInv'
  <2>1. \A p \in Providers : stored[p] \in MaybeKey
      BY <1>0, KeyShape
  <2>2. \A c \in Callers : caller[c].new \in MaybeKey
      BY <1>0, CallerFacts DEF CallerType, MaybeKey
  <2>3. StoredInv'
      BY <1>0, <1>1, <1>3, <2>1 DEF StoredInv, MaybeKey
  <2>4. NewInv'
      BY <1>0, <1>1, <1>3, <2>2 DEF NewInv, MaybeKey
  <2>5. QED BY <1>0, <1>1, <2>3, <2>4, SameNew DEF Moved
<1>10. QED BY <1>6, <1>7, <1>8, <1>9 DEF KeyInv
-----------------------------------------------------------------------------
LEMMA KeyNext ==
    ASSUME KeyInv, [Next]_vars
    PROVE  KeyInv'
<1>1. ASSUME NEW c \in Callers, FailTransiently(c) \/ FailForGood(c)
      PROVE  KeyInv'
    BY <1>1, FailedKeeps DEF FailTransiently, FailForGood
<1>2. CASE UNCHANGED vars
  <2>1. UNCHANGED keyVars /\ UNCHANGED caller
      BY <1>2 DEF vars
  <2>2. KeysKept /\ Moved
      BY <2>1, NothingKeeps, SameNew DEF KeyInv
  <2>3. NewInv'
      BY <2>1, <2>2, MovedNew DEF KeyInv, keyVars
  <2>4. QED BY <2>2, <2>3, Together DEF Moved
<1>3. CASE \E c \in Callers :
          \/ CallStep(c) \/ Save(c) \/ TakeBack(c) \/ CommitDisconnect(c)
          \/ \E n \in Procs, p \in Providers :
                Ask(c, n, p) \/ Disconnect(c, n, p) \/ \E k \in Keys : Connect(c, n, p, k)
    BY <1>1, <1>3, AnswerKeeps, RetryKeeps, SavesKeep, TakeBackKeeps, EscapeKeeps, AskKeeps,
       DisconnectKeeps, ConnectKeeps DEF CallStep
<1>4. CASE \E n \in Procs : Restart(n) \/ Load(n) \/ Status(n) \/ \E p \in Providers : Stream(n, p)
    BY <1>4, RestartKeeps, LoadKeeps, LooksKeep
<1>5. ASSUME NEW n \in Procs, NEW p \in Providers, CircuitLapses(n, p)
      PROVE  KeyInv'
  <2>1. UNCHANGED keyVars /\ UNCHANGED caller
      BY <1>5 DEF CircuitLapses
  <2>2. KeysKept /\ Moved
      BY <2>1, NothingKeeps, SameNew DEF KeyInv
  <2>3. NewInv'
      BY <2>1, <2>2, MovedNew DEF KeyInv, keyVars
  <2>4. QED BY <2>2, <2>3, Together DEF Moved
<1>6. QED BY <1>2, <1>3, <1>4, <1>5, TickKeeps DEF Next

LEMMA KeyStart ==
    ASSUME Init
    PROVE  KeyInv
<1>1. /\ stored \in [Providers -> MaybeKey] /\ env \in [Providers -> MaybeKey]
      /\ \A p, q \in Providers : stored[p] = stored[q] => p = q \/ stored[p] = NoKey
    BY SettingsFacts DEF Init
<1>2. /\ l1 = [n \in Procs |-> [p \in Providers |-> Cache!NoSlot]]
      /\ l2 = [p \in Providers |-> Cache!NoSlot]
      /\ rows = [n \in Procs |-> [loading |-> TRUE, keys |-> stored]]
      /\ gone = [k \in Keys |-> 0]
    BY DEF Init, Cache!KeyInit
<1>3. Cache!KeyTypeOK
    BY <1>1, <1>2, EmptySlot, Bounds
       DEF Cache!KeyTypeOK, Cache!MaybeKey, MaybeKey, Cache!Stop
<1>4. CachesInv
    BY <1>2, EmptySlot DEF CachesInv, Young1, Young2
<1>5. RowsInv /\ StoredInv
    BY <1>1, <1>2 DEF RowsInv, StoredInv, MaybeKey
<1>6. PICK n \in Procs : n = CHOOSE m \in Procs : TRUE
    BY RouterAssumption
<1>7. PICK r : r = Idle(n)
    OBVIOUS
<1>8. CallerOK(r) /\ r.new = NoKey
  <2>1. <<>> \in Seq(Providers)
      OBVIOUS
  <2>2. QED BY <1>7, <2>1 DEF Idle, Request, CallerOK, CallerType, Sound
<1>9. caller = [c \in Callers |-> r]
    BY <1>6, <1>7 DEF Init
<1>10. CallersInv /\ NewInv
    BY <1>8, <1>9 DEF CallersInv, CallerOK, NewInv
<1>11. QED BY <1>3, <1>4, <1>5, <1>10 DEF KeyInv

LEMMA KeyAlways == Spec => []KeyInv
<1>1. KeyInv /\ [Next]_vars => KeyInv'
    BY KeyNext
<1>2. QED BY KeyStart, <1>1, PTL DEF Spec

(* set_ai_key_cache, clear_ai_key_cache, _get_key, load_ai_keys_from_db: a *)
(* key that was replaced, disconnected or refused is in no cache two       *)
(* lifetimes later, whatever Redis misses and whoever restarts.            *)
THEOREM StaleKeys == Spec => []StaleKeyBounded
<1>1. ASSUME KeyInv
      PROVE  StaleKeyBounded
  <2>1. /\ l1 \in [Procs -> [Providers -> Cache!Slots]] /\ l2 \in [Providers -> Cache!Slots]
        /\ gone \in [Keys -> 0..(2 * TTL)] /\ CachesInv
      BY <1>1, KeyShape DEF KeyInv
  <2>2. ASSUME NEW n \in Procs, NEW p \in Providers, Cache!Live(l1[n][p])
        PROVE  gone[l1[n][p].key] < 2 * TTL
    <3>1. l1[n][p].left \in 1..TTL
        BY <2>1, <2>2 DEF Cache!Slots, Cache!Live
    <3>2. l1[n][p].key \in Keys /\ gone[l1[n][p].key] <= 2 * TTL - l1[n][p].left
        BY <2>1, <2>2 DEF CachesInv, Young1
    <3>3. gone[l1[n][p].key] \in Nat
        BY <2>1, <3>2
    <3>4. QED BY <3>1, <3>2, <3>3, Bounds
  <2>3. ASSUME NEW p \in Providers, Cache!Live(l2[p])
        PROVE  gone[l2[p].key] <= TTL
    <3>1. l2[p].left \in 1..TTL
        BY <2>1, <2>3 DEF Cache!Slots, Cache!Live
    <3>2. l2[p].key \in Keys /\ gone[l2[p].key] <= TTL - l2[p].left + 1
        BY <2>1, <2>3 DEF CachesInv, Young2
    <3>3. gone[l2[p].key] \in Nat
        BY <2>1, <3>2
    <3>4. QED BY <3>1, <3>2, <3>3, Bounds
  <2>4. QED BY <2>2, <2>3 DEF StaleKeyBounded, Cache!StaleKeyBounded
<1>2. QED BY <1>1, KeyAlways, PTL

LEMMA SameSettings ==
    ASSUME [Next]_vars
    PROVE  settings' = settings
<1>1. ASSUME NEW c \in Callers,
             \/ CallStep(c) \/ Save(c) \/ TakeBack(c) \/ CommitDisconnect(c)
             \/ \E n \in Procs, p \in Providers :
                   Ask(c, n, p) \/ Disconnect(c, n, p) \/ \E k \in Keys : Connect(c, n, p, k)
      PROVE  settings' = settings
  <2>1. CASE CallStep(c)
      BY <2>1 DEF CallStep, Answer, Retry, FailTransiently, FailForGood, Escape, Failed
  <2>2. CASE Save(c) \/ TakeBack(c) \/ CommitDisconnect(c)
      BY <2>2 DEF Save, TakeBack, CommitDisconnect
  <2>3. QED BY <1>1, <2>1, <2>2 DEF Ask, Disconnect, Connect
<1>2. ASSUME NEW n \in Procs,
             \/ Restart(n) \/ Load(n) \/ Status(n)
             \/ \E p \in Providers : CircuitLapses(n, p) \/ Stream(n, p)
      PROVE  settings' = settings
    BY <1>2 DEF Restart, Load, Status, CircuitLapses, Stream
<1>3. CASE Tick \/ UNCHANGED vars
    BY <1>3 DEF Tick, vars
<1>4. QED BY <1>1, <1>2, <1>3 DEF Next

(* Every variable has its type: call_ai and its callers, the circuits and  *)
(* the caches.                                                             *)
THEOREM TypeCorrect == Spec => []TypeOK
<1> DEFINE Settled == settings \in Deployments
<1>1. Init => Settled
    BY DEF Init
<1>2. Settled /\ [Next]_vars => Settled'
    BY SameSettings
<1>3. CircuitInv /\ [Next]_vars => CircuitInv'
    BY CircuitNext, CircuitKept
<1>4. Settled /\ CircuitInv /\ KeyInv => TypeOK
    BY DEF CircuitInv, CircuitShape, KeyInv, CallersInv, CallerOK, TypeOK
<1> HIDE DEF Settled
<1>5. QED BY <1>1, <1>2, <1>3, <1>4, CircuitStart, KeyAlways, PTL DEF Spec

=============================================================================
