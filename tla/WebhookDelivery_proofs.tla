----------------------- MODULE WebhookDelivery_proofs -----------------------
(* Proofs about WebhookDelivery and its dead-letter store, for any number  *)
(* of deliveries, request handlers, retry loops, operators and kills.      *)
EXTENDS WebhookDelivery, FiniteSetTheorems, TLAPS

-----------------------------------------------------------------------------
(* Types, and what a request handler or a retry loop holds at each step.   *)
CallerOK(k) ==
    /\ k \in CallerType
    /\ k.at = "capture" => k.id \in Ids

RetrierOK(w) ==
    /\ w \in RetrierType
    /\ w.at \in {"post", "write"} => w.id \in Ids
    /\ w.at \in {"idle", "batch"} => w.id = NoId
    /\ w.at = "idle" => w.todo = {}
    /\ w.id \notin w.todo
    /\ w.at = "write" <=> w.result # "none"

RequestOK(q) ==
    /\ q \in Store!RequestType
    /\ q # Store!NoRequest => q.on \in Ids /\ q.act \in Store!Requests
    /\ q.act = "retry" => q.seen.status \in {"pending", "retrying"}

Shape ==
    /\ settings \in Deployments
    /\ endpoint \in Endpoints
    /\ row \in [Ids -> RowType]
    /\ caller \in [Callers -> CallerType] /\ \A c \in Callers : CallerOK(caller[c])
    /\ retrier \in [Retriers -> RetrierType] /\ \A r \in Retriers : RetrierOK(retrier[r])
    /\ entry \in [Ids -> Store!EntryType]
    /\ request \in [Operators -> Store!RequestType]
    /\ \A o \in Operators : RequestOK(request[o])
    /\ crashes \in 0..settings.kills
    /\ posts \in [Ids -> Nat]
    /\ accepted \in SUBSET Ids
    /\ blurred \in SUBSET Ids

LEMMA SettingsFacts ==
    ASSUME settings \in Deployments
    PROVE  /\ settings.asyncOnly \in BOOLEAN /\ settings.maxAttempts \in Nat \ {0}
           /\ settings.maxRetries \in Nat \ {0} /\ settings.kills \in Nat
           /\ NoId \notin Ids
BY WebhookAssumption

LEMMA RowRecord ==
    ASSUME NEW status \in Statuses, NEW n \in Nat, NEW scheduled \in BOOLEAN
    PROVE  /\ Row(status, n, scheduled) \in RowType
           /\ Row(status, n, scheduled).status = status
           /\ Row(status, n, scheduled).attempts = n
           /\ Row(status, n, scheduled).scheduled = scheduled
BY DEF Row, RowType

LEMMA DispatchRecord ==
    ASSUME NEW at \in {"idle", "post", "insert", "capture", "prune", "mark"},
           NEW d \in Ids \cup {NoId}, NEW n \in Nat, NEW ok \in BOOLEAN,
           NEW original \in Ids \cup {NoId}, at = "capture" => d \in Ids
    PROVE  /\ CallerOK(Dispatch(at, d, n, ok, original))
           /\ Dispatch(at, d, n, ok, original).at = at
           /\ Dispatch(at, d, n, ok, original).id = d
           /\ Dispatch(at, d, n, ok, original).original = original
BY DEF Dispatch, CallerOK, CallerType

LEMMA RoundRecord ==
    ASSUME NEW at \in {"idle", "batch", "post", "write"}, NEW todo \in SUBSET Ids,
           NEW loaded \in [Ids -> RowType], NEW seen \in {"unread", "active", "inactive"},
           NEW d \in Ids \cup {NoId}, NEW result \in {"none", "inactive", "accepted", "refused"}
    PROVE  /\ Round(at, todo, loaded, seen, d, result) \in RetrierType
           /\ Round(at, todo, loaded, seen, d, result).at = at
           /\ Round(at, todo, loaded, seen, d, result).todo = todo
           /\ Round(at, todo, loaded, seen, d, result).loaded = loaded
           /\ Round(at, todo, loaded, seen, d, result).seen = seen
           /\ Round(at, todo, loaded, seen, d, result).id = d
           /\ Round(at, todo, loaded, seen, d, result).result = result
BY DEF Round, RetrierType

LEMMA IdleRecords ==
    /\ NoRow \in RowType /\ NoRow.status = "absent" /\ NoRow.attempts = 0
    /\ CallerOK(IdleCaller) /\ IdleCaller.at = "idle" /\ IdleCaller.original = NoId
    /\ RetrierOK(IdleRetrier) /\ IdleRetrier.at = "idle" /\ IdleRetrier.todo = {}
    /\ IdleRetrier.id = NoId /\ IdleRetrier.result = "none"
    /\ \A d \in Ids : IdleRetrier.loaded[d] = NoRow
<1>1. NoRow \in RowType /\ NoRow.status = "absent" /\ NoRow.attempts = 0
    BY DEF NoRow, Row, RowType, Statuses
<1>2. CallerOK(IdleCaller) /\ IdleCaller.at = "idle" /\ IdleCaller.original = NoId
    BY DEF IdleCaller, Dispatch, CallerOK, CallerType
<1>3. [d \in Ids |-> NoRow] \in [Ids -> RowType]
    BY <1>1
<1>4. /\ IdleRetrier \in RetrierType /\ IdleRetrier.at = "idle" /\ IdleRetrier.todo = {}
      /\ IdleRetrier.id = NoId /\ IdleRetrier.result = "none"
      /\ IdleRetrier.loaded = [d \in Ids |-> NoRow]
    BY <1>3 DEF IdleRetrier, Round, RetrierType
<1>5. RetrierOK(IdleRetrier)
    BY <1>4 DEF RetrierOK
<1>6. QED BY <1>1, <1>2, <1>4, <1>5

(* One entry of a table changes.                                           *)
LEMMA CallerPut ==
    ASSUME Shape, NEW c \in Callers, NEW k, CallerOK(k), caller' = [caller EXCEPT ![c] = k]
    PROVE  /\ caller' \in [Callers -> CallerType] /\ \A e \in Callers : CallerOK(caller'[e])
           /\ caller'[c] = k /\ \A e \in Callers \ {c} : caller'[e] = caller[e]
BY DEF Shape, CallerOK

LEMMA RetrierPut ==
    ASSUME Shape, NEW r \in Retriers, NEW w, RetrierOK(w), retrier' = [retrier EXCEPT ![r] = w]
    PROVE  /\ retrier' \in [Retriers -> RetrierType]
           /\ \A q \in Retriers : RetrierOK(retrier'[q])
           /\ retrier'[r] = w /\ \A q \in Retriers \ {r} : retrier'[q] = retrier[q]
BY DEF Shape, RetrierOK

LEMMA RowPut ==
    ASSUME Shape, NEW d \in Ids, NEW v \in RowType, row' = [row EXCEPT ![d] = v]
    PROVE  /\ row' \in [Ids -> RowType] /\ row'[d] = v
           /\ \A e \in Ids \ {d} : row'[e] = row[e]
BY DEF Shape

LEMMA Same ==
    ASSUME Shape
    PROVE  /\ UNCHANGED caller => /\ caller' \in [Callers -> CallerType]
                                  /\ \A c \in Callers : CallerOK(caller'[c])
           /\ UNCHANGED retrier => /\ retrier' \in [Retriers -> RetrierType]
                                   /\ \A r \in Retriers : RetrierOK(retrier'[r])
           /\ UNCHANGED dead => /\ entry' \in [Ids -> Store!EntryType]
                                /\ request' \in [Operators -> Store!RequestType]
                                /\ \A o \in Operators : RequestOK(request'[o])
BY DEF Shape, dead
-----------------------------------------------------------------------------
(* Each action keeps the types.                                            *)
LEMMA Lifecycle ==
    ASSUME Shape, UNCHANGED settings,
           endpoint' \in Endpoints,
           row' \in [Ids -> RowType],
           caller' \in [Callers -> CallerType], \A c \in Callers : CallerOK(caller'[c]),
           retrier' \in [Retriers -> RetrierType], \A r \in Retriers : RetrierOK(retrier'[r]),
           entry' \in [Ids -> Store!EntryType],
           request' \in [Operators -> Store!RequestType],
           \A o \in Operators : RequestOK(request'[o]),
           crashes' \in 0..settings.kills, posts' \in [Ids -> Nat],
           accepted' \in SUBSET Ids, blurred' \in SUBSET Ids
    PROVE  Shape'
BY DEF Shape, CallerOK, RetrierOK, RequestOK

(* A step of one request handler that leaves everything else alone but the *)
(* rows and their history.                                                 *)
LEMMA CallerShape ==
    ASSUME Shape, NEW c \in Callers, NEW k, CallerOK(k), caller' = [caller EXCEPT ![c] = k],
           UNCHANGED <<settings, endpoint, retrier, request, blurred>>,
           row' \in [Ids -> RowType], posts' \in [Ids -> Nat], accepted' \in SUBSET Ids,
           entry' \in [Ids -> Store!EntryType], crashes' \in 0..settings.kills
    PROVE  Shape'
<1>1. caller' \in [Callers -> CallerType] /\ \A e \in Callers : CallerOK(caller'[e])
    BY CallerPut
<1>2. /\ retrier' \in [Retriers -> RetrierType] /\ \A r \in Retriers : RetrierOK(retrier'[r])
      /\ request' \in [Operators -> Store!RequestType]
      /\ \A o \in Operators : RequestOK(request'[o])
    BY Same DEF Shape
<1>3. endpoint' \in Endpoints /\ blurred' \in SUBSET Ids
    BY DEF Shape
<1>4. QED BY <1>1, <1>2, <1>3, Lifecycle

LEMMA RetrierShape ==
    ASSUME Shape, NEW r \in Retriers, NEW w, RetrierOK(w), retrier' = [retrier EXCEPT ![r] = w],
           UNCHANGED <<settings, endpoint, caller, dead>>,
           row' \in [Ids -> RowType], posts' \in [Ids -> Nat], accepted' \in SUBSET Ids,
           blurred' \in SUBSET Ids, crashes' \in 0..settings.kills
    PROVE  Shape'
<1>1. retrier' \in [Retriers -> RetrierType] /\ \A q \in Retriers : RetrierOK(retrier'[q])
    BY RetrierPut
<1>2. /\ caller' \in [Callers -> CallerType] /\ \A c \in Callers : CallerOK(caller'[c])
      /\ request' \in [Operators -> Store!RequestType] /\ entry' \in [Ids -> Store!EntryType]
      /\ \A o \in Operators : RequestOK(request'[o])
    BY Same
<1>3. endpoint' \in Endpoints
    BY DEF Shape
<1>4. QED BY <1>1, <1>2, <1>3, Lifecycle

(* The rows a prune or the deletion of the endpoint takes away.            *)
LEMMA DeletedRows ==
    ASSUME Shape, NEW D, D \subseteq Existing, row' = Deleted(D)
    PROVE  /\ row' \in [Ids -> RowType]
           /\ \A d \in Ids : \/ row'[d] = row[d]
                             \/ /\ d \in Existing /\ row'[d].status = "deleted"
                                /\ row'[d].attempts = 0
<1>1. /\ Row("deleted", 0, FALSE) \in RowType /\ Row("deleted", 0, FALSE).status = "deleted"
      /\ Row("deleted", 0, FALSE).attempts = 0
    BY DEF Row, RowType, Statuses
<1>2. QED BY <1>1 DEF Shape, Deleted

LEMMA RecordFacts ==
    ASSUME Shape
    PROVE  /\ \A c \in Callers : /\ CallerOK(caller[c]) /\ caller[c].tries \in Nat
                                 /\ caller[c].ok \in BOOLEAN
                                 /\ caller[c].id \in Ids \cup {NoId}
                                 /\ caller[c].original \in Ids \cup {NoId}
           /\ \A r \in Retriers : /\ RetrierOK(retrier[r])
                                  /\ retrier[r].loaded \in [Ids -> RowType]
                                  /\ retrier[r].todo \in SUBSET Ids
                                  /\ retrier[r].seen \in {"unread", "active", "inactive"}
                                  /\ retrier[r].id \in Ids \cup {NoId}
           /\ \A d \in Ids : /\ row[d] \in RowType /\ row[d].status \in Statuses
                             /\ row[d].attempts \in Nat /\ posts[d] \in Nat
BY DEF Shape, CallerOK, CallerType, RetrierOK, RetrierType, RowType
-----------------------------------------------------------------------------
(* The invariant.  No row counts more attempts than there were, and  *)
(* a loop that has made one knows one more than the row it has loaded.     *)
Counted ==
    /\ \A d \in Ids : row[d].attempts <= posts[d]
    /\ \A d \in Ids : row[d].status = "absent" => posts[d] = 0 /\ d \notin accepted
    /\ \A r \in Retriers, d \in Ids : retrier[r].loaded[d].attempts <= posts[d]
    /\ \A r \in Retriers : retrier[r].result \in {"accepted", "refused"} =>
          retrier[r].loaded[retrier[r].id].attempts + 1 <= posts[retrier[r].id]
    /\ \A r \in Retriers : \A d \in HeldBy(r) : row[d].status # "absent"

(* A delivery in the dead-letter store, or on its way there, was born as a *)
(* dead letter: no loop holds it, and none will.                           *)
Buried == {"dead_letter", "replayed", "deleted"}

Entombed(d) == Store!Captured(d) \/ \E c \in Callers : caller[c].at = "capture" /\ caller[c].id = d

Kept ==
    /\ \A d \in Ids : Entombed(d) => row[d].status \in Buried
    /\ \A d \in Ids : Entombed(d) => \A r \in Retriers : d \notin HeldBy(r)
    /\ \A o \in Operators : request[o] # Store!NoRequest => Store!Captured(request[o].on)

(* A delivery that was never blurred is held by one loop, which has loaded *)
(* it as it is and knows what has become of its attempt.                   *)
Alone(d) == \A r, q \in Retriers : d \in HeldBy(r) /\ d \in HeldBy(q) => r = q

Fresh(d) ==
    \A r \in Retriers : d \in HeldBy(r) =>
        \/ row[d].status = "deleted"
        \/ row[d].status \in Open /\ retrier[r].loaded[d] = row[d]

Told(d) ==
    /\ Reported(d) => /\ row[d].attempts = posts[d]
                      /\ row[d].status = "success" <=> d \in accepted
    /\ \A r \in Retriers : retrier[r].id = d /\ retrier[r].at = "write" =>
          \/ /\ retrier[r].result = "inactive"
             /\ retrier[r].loaded[d].attempts = posts[d] /\ d \notin accepted
          \/ /\ retrier[r].result \in {"accepted", "refused"}
             /\ retrier[r].loaded[d].attempts + 1 = posts[d]
             /\ d \in accepted <=> retrier[r].result = "accepted"

Exact ==
    \A d \in Ids \ blurred :
        /\ Alone(d) /\ Fresh(d)
        /\ \A c \in Callers : caller[c].original = d => row[d].status \in Buried
        /\ d \in Existing => Told(d)

Inv == Shape /\ Counted /\ Kept /\ Exact

-----------------------------------------------------------------------------
(* Steps that leave the rows and the loops alone.                          *)
Still == UNCHANGED <<row, retrier, posts, accepted, blurred>>

LEMMA StillHeld ==
    ASSUME UNCHANGED retrier
    PROVE  \A r : HeldBy(r)' = HeldBy(r)
BY DEF HeldBy

LEMMA StillRows ==
    ASSUME Inv, Still
    PROVE  /\ Counted'
           /\ \A d \in Ids \ blurred : Alone(d)' /\ Fresh(d)' /\ (d \in Existing' => Told(d)')
<1>1. Counted'
    BY StillHeld DEF Inv, Counted, Still
<1>2. Existing' = Existing
    BY DEF Existing, Still
<1>3. ASSUME NEW d \in Ids \ blurred
      PROVE  Alone(d)' /\ Fresh(d)' /\ (d \in Existing => Told(d)')
    BY StillHeld DEF Inv, Exact, Alone, Fresh, Told, Reported, Still
<1>4. QED BY <1>1, <1>2, <1>3

LEMMA CallerKeeps ==
    ASSUME Inv, Still, UNCHANGED dead, NEW c \in Callers, NEW k, CallerOK(k),
           caller' = [caller EXCEPT ![c] = k], k.at # "capture",
           \/ k.original \in {NoId, caller[c].original}
           \/ row[k.original].status \in Buried
    PROVE  Kept' /\ Exact'
<1>1. caller'[c] = k /\ \A e \in Callers \ {c} : caller'[e] = caller[e]
    BY CallerPut DEF Inv
<1>2. \A d \in Ids : Entombed(d)' => Entombed(d)
    BY <1>1 DEF Entombed, dead, Store!Captured
<1>3. Kept'
    BY <1>2, StillHeld DEF Inv, Kept, Still, dead, Store!Captured
<1>4. ASSUME NEW d \in Ids \ blurred, NEW e \in Callers, caller'[e].original = d
      PROVE  row[d].status \in Buried
  <2>1. d # NoId
      BY SettingsFacts DEF Inv, Shape
  <2>2. QED BY <1>1, <1>4, <2>1 DEF Inv, Exact
<1>5. Exact'
    BY <1>4, StillRows DEF Exact, Still
<1>6. QED BY <1>3, <1>5

LEMMA IdleDispatch ==
    ASSUME NEW at \in {"post", "insert"}, NEW n \in Nat, NEW ok \in BOOLEAN,
           NEW original \in Ids \cup {NoId}
    PROVE  /\ CallerOK(Dispatch(at, NoId, n, ok, original))
           /\ Dispatch(at, NoId, n, ok, original).at # "capture"
           /\ Dispatch(at, NoId, n, ok, original).original = original
BY DEF Dispatch, CallerOK, CallerType

LEMMA StartKeeps ==
    ASSUME Inv, NEW c \in Callers, NEW d \in Ids \cup {NoId}, Start(c, d),
           d = NoId \/ row[d].status \in Buried
    PROVE  Inv'
<1>1. PICK k : k = Dispatch("post", NoId, 0, FALSE, d)
    OBVIOUS
<1>2. CallerOK(k) /\ k.at # "capture" /\ k.original = d
    BY <1>1, IdleDispatch
<1>3. caller' = [caller EXCEPT ![c] = k] /\ Still
      /\ UNCHANGED <<settings, endpoint, crashes, dead, request, entry>>
    BY <1>1 DEF Start, Still, history, dead
<1>4. Kept' /\ Exact' /\ Counted'
    BY <1>2, <1>3, CallerKeeps, StillRows
<1>5. Shape'
    BY <1>2, <1>3, CallerShape DEF Inv, Shape, Still
<1>6. QED BY <1>4, <1>5 DEF Inv

LEMMA PostKeeps ==
    ASSUME Inv, NEW c \in Callers, NEW ok \in BOOLEAN, Post(c, ok)
    PROVE  Inv'
<1>1. PICK n \in Nat : n = caller[c].tries + 1
    BY RecordFacts DEF Inv
<1>2. PICK at \in {"post", "insert"} :
          at = IF ok \/ n = settings.maxAttempts THEN "insert" ELSE "post"
    OBVIOUS
<1>3. PICK k : k = Dispatch(at, NoId, n, ok, caller[c].original)
    OBVIOUS
<1>4. CallerOK(k) /\ k.at # "capture" /\ k.original = caller[c].original
    BY <1>3, IdleDispatch, RecordFacts DEF Inv
<1>5. caller' = [caller EXCEPT ![c] = k] /\ Still
      /\ UNCHANGED <<settings, endpoint, crashes, dead, request, entry>>
    BY <1>1, <1>2, <1>3 DEF Post, Still, history, dead
<1>6. Kept' /\ Exact' /\ Counted'
    BY <1>4, <1>5, CallerKeeps, StillRows
<1>7. Shape'
    BY <1>4, <1>5, CallerShape DEF Inv, Shape, Still
<1>8. QED BY <1>6, <1>7 DEF Inv

LEMMA CrashCallerKeeps ==
    ASSUME Inv, NEW c \in Callers, CrashCaller(c)
    PROVE  Inv'
<1>1. PICK k : k = IdleCaller
    OBVIOUS
<1>2. CallerOK(k) /\ k.at # "capture" /\ k.original = NoId
    BY <1>1, IdleRecords
<1>3. caller' = [caller EXCEPT ![c] = k] /\ Still
      /\ UNCHANGED <<settings, endpoint, dead, request, entry>>
    BY <1>1 DEF CrashCaller, Still, history, dead
<1>4. Kept' /\ Exact' /\ Counted'
    BY <1>2, <1>3, CallerKeeps, StillRows
<1>5. crashes' \in 0..settings.kills
    BY SettingsFacts DEF CrashCaller, Inv, Shape
<1>6. Shape'
    BY <1>2, <1>3, <1>5, CallerShape DEF Inv, Shape, Still
<1>7. QED BY <1>4, <1>6 DEF Inv
-----------------------------------------------------------------------------
(* Steps that insert a row.                                                *)
LEMMA BornKeeps ==
    ASSUME Inv, NEW c \in Callers, NEW k, CallerOK(k), caller' = [caller EXCEPT ![c] = k],
           k.original \in {NoId, caller[c].original},
           NEW d \in Ids, row[d].status = "absent",
           NEW v \in RowType, v.status \in {"pending", "failed", "success", "dead_letter"},
           row' = [row EXCEPT ![d] = v],
           k.at = "capture" => k.id = d /\ v.status = "dead_letter",
           posts' \in [Ids -> Nat], v.attempts = posts'[d],
           \A e \in Ids \ {d} : posts'[e] = posts[e],
           accepted' \in SUBSET Ids, d \in accepted' <=> v.status = "success",
           \A e \in Ids \ {d} : e \in accepted' <=> e \in accepted,
           UNCHANGED <<settings, endpoint, retrier, dead, blurred, crashes>>
    PROVE  Inv'
<1>1. caller'[c] = k /\ \A e \in Callers \ {c} : caller'[e] = caller[e]
    BY CallerPut DEF Inv
<1>2. row' \in [Ids -> RowType] /\ row'[d] = v /\ \A e \in Ids \ {d} : row'[e] = row[e]
    BY RowPut DEF Inv
<1>3. Shape'
    BY <1>2, CallerShape DEF Inv, Shape, dead
<1>4. \A r \in Retriers : d \notin HeldBy(r)
    BY DEF Inv, Counted
<1>5. \A e \in Ids : posts[e] <= posts'[e] /\ posts[e] \in Nat /\ posts'[e] \in Nat
    BY RecordFacts DEF Inv, Counted
<1>6. Counted'
  <2>1. \A e \in Ids : row'[e].attempts <= posts'[e]
      BY <1>2, <1>5 DEF Inv, Counted
  <2>2. \A e \in Ids : row'[e].status = "absent" => posts'[e] = 0 /\ e \notin accepted'
      BY <1>2 DEF Inv, Counted
  <2>3. \A r \in Retriers, e \in Ids : retrier'[r].loaded[e].attempts <= posts'[e]
    <3>1. \A r \in Retriers, e \in Ids : retrier[r].loaded[e].attempts \in Nat
        BY RecordFacts DEF Inv, RowType
    <3>2. QED BY <1>5, <3>1 DEF Inv, Counted
  <2>4. ASSUME NEW r \in Retriers, retrier'[r].result \in {"accepted", "refused"}
        PROVE  retrier'[r].loaded[retrier'[r].id].attempts + 1 <= posts'[retrier'[r].id]
    <3>1. retrier[r].id \in Ids /\ retrier[r].loaded[retrier[r].id].attempts \in Nat
        BY <2>4, RecordFacts DEF Inv, RetrierOK, RowType
    <3>2. QED BY <1>5, <2>4, <3>1 DEF Inv, Counted
  <2>5. \A r \in Retriers : \A e \in HeldBy(r) : row'[e].status # "absent"
    <3>1. \A r \in Retriers : HeldBy(r) \subseteq Ids
        BY RecordFacts DEF Inv, HeldBy
    <3>2. QED BY <1>2, <1>4, <3>1 DEF Inv, Counted
  <2>6. QED BY <2>1, <2>2, <2>3, <2>4, <2>5, StillHeld DEF Counted
<1>7. Kept'
  <2>1. \A e \in Ids : Entombed(e)' => Entombed(e) \/ (e = d /\ v.status = "dead_letter")
      BY <1>1 DEF Entombed, dead, Store!Captured
  <2>2. ~Entombed(d)
      BY DEF Inv, Kept, Buried
  <2>3. QED BY <1>2, <1>4, <2>1, <2>2, StillHeld DEF Inv, Kept, Buried, dead, Store!Captured
<1>8. Exact'
  <2>1. ASSUME NEW e \in Ids \ blurred, e # d
        PROVE  /\ Alone(e)' /\ Fresh(e)'
               /\ \A b \in Callers : caller'[b].original = e => row'[e].status \in Buried
               /\ e \in Existing' => Told(e)'
    <3>1. row'[e] = row[e] /\ posts'[e] = posts[e] /\ (e \in accepted' <=> e \in accepted)
          /\ (e \in Existing' <=> e \in Existing)
        BY <1>2, <2>1 DEF Existing
    <3>2. e # NoId
        BY SettingsFacts DEF Inv, Shape
    <3>3. Alone(e)' /\ Fresh(e)'
        BY <3>1, StillHeld DEF Inv, Exact, Alone, Fresh
    <3>4. \A b \in Callers : caller'[b].original = e => row'[e].status \in Buried
        BY <1>1, <3>1, <3>2 DEF Inv, Exact
    <3>5. e \in Existing' => Told(e)'
        BY <3>1 DEF Inv, Exact, Told, Reported
    <3>6. QED BY <3>3, <3>4, <3>5
  <2>2. ASSUME d \notin blurred
        PROVE  /\ Alone(d)' /\ Fresh(d)'
               /\ \A b \in Callers : caller'[b].original = d => row'[d].status \in Buried
               /\ Told(d)'
    <3>1. d # NoId /\ \A b \in Callers : caller[b].original # d
        BY <2>2, SettingsFacts DEF Inv, Exact, Buried, Shape
    <3>2. \A b \in Callers : caller'[b].original # d
        BY <1>1, <3>1
    <3>3. \A r \in Retriers : retrier[r].id # d
        BY <1>4, <3>1 DEF HeldBy
    <3>4. Alone(d)' /\ Fresh(d)'
        BY <1>4, StillHeld DEF Alone, Fresh
    <3>5. Told(d)'
        BY <1>2, <3>3 DEF Told, Reported
    <3>6. QED BY <3>2, <3>4, <3>5
  <2>3. QED BY <2>1, <2>2 DEF Exact
<1>9. QED BY <1>3, <1>6, <1>7, <1>8 DEF Inv

LEMMA QueueKeeps ==
    ASSUME Inv, NEW c \in Callers, Queue(c)
    PROVE  Inv'
<1>1. PICK d \in Ids : /\ NextId(d)
                       /\ row' = [row EXCEPT ![d] = Row("pending", 0, FALSE)]
                       /\ caller' = [caller EXCEPT ![c] = Dispatch("prune", d, 0, FALSE, NoId)]
    BY DEF Queue
<1>2. row[d].status = "absent"
    BY <1>1 DEF NextId, Unused
<1>3. PICK v \in RowType : v = Row("pending", 0, FALSE)
    BY DEF Row, RowType, Statuses
<1>4. v.status = "pending" /\ v.attempts = 0
    BY <1>3 DEF Row
<1>5. PICK k : k = Dispatch("prune", d, 0, FALSE, NoId)
    OBVIOUS
<1>6. CallerOK(k) /\ k.original = NoId /\ k.at = "prune"
    BY <1>5 DEF Dispatch, CallerOK, CallerType
<1>7. UNCHANGED <<settings, endpoint, retrier, dead, blurred, crashes, posts, accepted>>
    BY DEF Queue, history
<1>8. posts[d] = 0 /\ d \notin accepted /\ posts \in [Ids -> Nat] /\ accepted \in SUBSET Ids
    BY <1>2 DEF Inv, Counted, Shape
<1>9. QED BY <1>1, <1>2, <1>3, <1>4, <1>5, <1>6, <1>7, <1>8, BornKeeps

LEMMA InsertKeeps ==
    ASSUME Inv, NEW c \in Callers, Insert(c)
    PROVE  Inv'
<1> DEFINE w == caller[c]
           u == Verdict(w.tries, w.ok)
<1>1. UNCHANGED <<settings, endpoint, retrier, dead, crashes>>
    BY DEF Insert
<1>2. CASE UNCHANGED <<row, history>> /\ caller' = [caller EXCEPT ![c] = IdleCaller]
  <2>1. PICK k : k = IdleCaller
      OBVIOUS
  <2>2. CallerOK(k) /\ k.at # "capture" /\ k.original = NoId
      BY <2>1, IdleRecords
  <2>3. caller' = [caller EXCEPT ![c] = k] /\ Still /\ UNCHANGED <<request, entry>>
      BY <1>1, <1>2, <2>1 DEF Still, history, dead
  <2>4. Kept' /\ Exact' /\ Counted'
      BY <1>1, <2>2, <2>3, CallerKeeps, StillRows
  <2>5. Shape'
      BY <1>1, <2>2, <2>3, CallerShape DEF Inv, Shape, Still
  <2>6. QED BY <2>4, <2>5 DEF Inv
<1>3. ASSUME NEW d \in Ids,
             NextId(d),
             row' = [row EXCEPT ![d] = Row(u.status, w.tries, u.scheduled)],
             posts' = [posts EXCEPT ![d] = w.tries],
             accepted' = IF w.ok THEN accepted \cup {d} ELSE accepted,
             caller' = [caller EXCEPT ![c] =
                Dispatch(IF u.status = "dead_letter" THEN "capture" ELSE "prune",
                         d, w.tries, w.ok, w.original)],
             UNCHANGED blurred
      PROVE  Inv'
  <2>1. /\ NextId(d)
        /\ row' = [row EXCEPT ![d] = Row(u.status, w.tries, u.scheduled)]
        /\ posts' = [posts EXCEPT ![d] = w.tries]
        /\ accepted' = IF w.ok THEN accepted \cup {d} ELSE accepted
        /\ caller' = [caller EXCEPT ![c] =
               Dispatch(IF u.status = "dead_letter" THEN "capture" ELSE "prune",
                        d, w.tries, w.ok, w.original)]
        /\ UNCHANGED blurred
      BY <1>3
  <2>2. row[d].status = "absent"
      BY <2>1 DEF NextId, Unused
  <2>3. w.tries \in Nat /\ w.ok \in BOOLEAN /\ w.original \in Ids \cup {NoId}
      BY RecordFacts DEF Inv
  <2>4. /\ u.status \in {"failed", "success", "dead_letter"} /\ u.scheduled \in BOOLEAN
        /\ u.status = "success" <=> w.ok
      BY <2>3 DEF Verdict
  <2>5. PICK v \in RowType : v = Row(u.status, w.tries, u.scheduled)
      BY <2>3, <2>4 DEF Row, RowType, Statuses
  <2>6. v.status = u.status /\ v.attempts = w.tries
      BY <2>5 DEF Row
  <2>7. PICK at \in {"capture", "prune"} :
            at = IF u.status = "dead_letter" THEN "capture" ELSE "prune"
      OBVIOUS
  <2>8. PICK k : k = Dispatch(at, d, w.tries, w.ok, w.original)
      OBVIOUS
  <2>9. CallerOK(k) /\ k.original = w.original /\ k.at = at /\ k.id = d
      BY <2>3, <2>8 DEF Dispatch, CallerOK, CallerType
  <2>10. /\ d \notin accepted /\ posts \in [Ids -> Nat] /\ accepted \in SUBSET Ids
      BY <2>2 DEF Inv, Counted, Shape
  <2>11. /\ posts' \in [Ids -> Nat] /\ posts'[d] = w.tries
         /\ \A e \in Ids \ {d} : posts'[e] = posts[e]
      BY <2>1, <2>3, <2>10
  <2>12. /\ accepted' \in SUBSET Ids /\ (d \in accepted' <=> v.status = "success")
         /\ \A e \in Ids \ {d} : e \in accepted' <=> e \in accepted
      BY <2>1, <2>4, <2>6, <2>10
  <2>13. caller' = [caller EXCEPT ![c] = k] /\ row' = [row EXCEPT ![d] = v]
      BY <2>1, <2>5, <2>7, <2>8
  <2>14. k.at = "capture" => k.id = d /\ v.status = "dead_letter"
      BY <2>6, <2>7, <2>9
  <2>15. v.status \in {"pending", "failed", "success", "dead_letter"}
      BY <2>4, <2>6
  <2>16. k.original \in {NoId, caller[c].original} /\ v.attempts = posts'[d]
      BY <2>6, <2>9, <2>11
  <2>17. UNCHANGED <<settings, endpoint, retrier, dead, blurred, crashes>>
      BY <1>1, <2>1
  <2>18. QED BY <2>2, <2>9, <2>11, <2>12, <2>13, <2>14, <2>15, <2>16, <2>17, BornKeeps
<1>4. QED BY <1>2, <1>3 DEF Insert
-----------------------------------------------------------------------------
(* Steps that delete rows, and those that mark a row as replayed.          *)
Faded(d) == d \in Existing /\ row'[d].status = "deleted" /\ row'[d].attempts = 0

LEMMA FadeKeeps ==
    ASSUME Inv, row' \in [Ids -> RowType], \A d \in Ids : row'[d] = row[d] \/ Faded(d),
           UNCHANGED <<retrier, posts, accepted, blurred, dead>>,
           \A d \in Ids : Entombed(d)' => Entombed(d),
           \A c \in Callers : caller'[c].original \in {caller[c].original, NoId}
    PROVE  Counted' /\ Kept' /\ Exact'
<1>1. \A d \in Ids : row[d].attempts \in Nat /\ posts[d] \in Nat /\ d # NoId
    BY RecordFacts, SettingsFacts DEF Inv, Shape
<1>2. Counted'
  <2>1. \A d \in Ids : row'[d].attempts <= posts[d]
      BY <1>1 DEF Inv, Counted, Faded
  <2>2. \A r \in Retriers : HeldBy(r) \subseteq Ids
      BY RecordFacts DEF Inv, HeldBy
  <2>3. \A d \in Ids : row'[d].status = "absent" => row[d].status = "absent"
      BY DEF Faded
  <2>4. QED BY <2>1, <2>2, <2>3, StillHeld DEF Inv, Counted
<1>3. Kept'
    BY StillHeld DEF Inv, Kept, Buried, Faded, dead, Store!Captured
<1>4. ASSUME NEW d \in Ids \ blurred
      PROVE  /\ Alone(d)' /\ Fresh(d)'
             /\ \A c \in Callers : caller'[c].original = d => row'[d].status \in Buried
             /\ d \in Existing' => Told(d)'
  <2>1. Alone(d)' /\ Fresh(d)'
      BY StillHeld DEF Inv, Exact, Alone, Fresh, Faded
  <2>2. \A c \in Callers : caller'[c].original = d => row'[d].status \in Buried
      BY <1>1 DEF Inv, Exact, Buried, Faded
  <2>3. d \in Existing' => row'[d] = row[d] /\ d \in Existing
      BY DEF Existing, Present, Faded
  <2>4. d \in Existing' => Told(d)'
      BY <2>3 DEF Inv, Exact, Told, Reported
  <2>5. QED BY <2>1, <2>2, <2>4
<1>5. QED BY <1>2, <1>3, <1>4 DEF Exact

LEMMA PruneKeeps ==
    ASSUME Inv, NEW c \in Callers, Prune(c)
    PROVE  Inv'
<1>1. /\ row' = Deleted(Pruned) /\ Pruned \subseteq Existing
      /\ UNCHANGED <<settings, endpoint, retrier, dead, crashes, posts, accepted, blurred>>
    BY DEF Prune, Pruned, history
<1>2. /\ row' \in [Ids -> RowType]
      /\ \A d \in Ids : row'[d] = row[d] \/ Faded(d)
    BY <1>1, DeletedRows DEF Inv, Faded
<1>3. PICK k : k = IF caller[c].original = NoId THEN IdleCaller ELSE [caller[c] EXCEPT !.at = "mark"]
    OBVIOUS
<1>4. CallerOK(k) /\ k.at # "capture" /\ k.original \in {NoId, caller[c].original}
  <2>1. CallerOK(caller[c])
      BY RecordFacts DEF Inv
  <2>2. QED BY <1>3, <2>1, IdleRecords DEF CallerOK, CallerType
<1>5. caller' = [caller EXCEPT ![c] = k]
    BY <1>3 DEF Prune, Inv, Shape
<1>6. caller'[c] = k /\ \A e \in Callers \ {c} : caller'[e] = caller[e]
    BY <1>4, <1>5, CallerPut DEF Inv
<1>7. /\ \A d \in Ids : Entombed(d)' => Entombed(d)
      /\ \A e \in Callers : caller'[e].original \in {caller[e].original, NoId}
    BY <1>1, <1>4, <1>6 DEF Entombed, dead, Store!Captured
<1>8. Counted' /\ Kept' /\ Exact'
    BY <1>1, <1>2, <1>7, FadeKeeps
<1>9. Shape'
    BY <1>1, <1>2, <1>4, <1>5, CallerShape DEF Inv, Shape, dead
<1>10. QED BY <1>8, <1>9 DEF Inv

LEMMA DeleteKeeps ==
    ASSUME Inv, Delete
    PROVE  Inv'
<1>1. /\ row' = Deleted(Existing)
      /\ UNCHANGED <<settings, caller, retrier, dead, crashes, posts, accepted, blurred>>
    BY DEF Delete, history
<1>2. /\ row' \in [Ids -> RowType]
      /\ \A d \in Ids : row'[d] = row[d] \/ Faded(d)
    BY <1>1, DeletedRows DEF Inv, Faded
<1>3. \A d \in Ids : Entombed(d)' => Entombed(d)
    BY <1>1 DEF Entombed, dead, Store!Captured
<1>4. Counted' /\ Kept' /\ Exact'
    BY <1>1, <1>2, <1>3, FadeKeeps
<1>5. Shape'
  <2>1. endpoint' \in Endpoints
      BY DEF Delete, Endpoints
  <2>2. /\ crashes' \in 0..settings.kills /\ posts' \in [Ids -> Nat]
        /\ accepted' \in SUBSET Ids /\ blurred' \in SUBSET Ids
      BY <1>1 DEF Inv, Shape
  <2>3. QED BY <1>1, <1>2, <2>1, <2>2, Same, Lifecycle DEF Inv
<1>6. QED BY <1>4, <1>5 DEF Inv

LEMMA SwitchKeeps ==
    ASSUME Inv, Toggle \/ ChangeKey
    PROVE  Inv'
<1>1. /\ UNCHANGED <<settings, row, caller, retrier, dead, crashes, posts, accepted, blurred>>
      /\ Still
    BY DEF Toggle, ChangeKey, history, Still
<1>2. \A d \in Ids : Entombed(d)' => Entombed(d)
    BY <1>1 DEF Entombed, dead, Store!Captured
<1>3. row' \in [Ids -> RowType]
    BY <1>1 DEF Inv, Shape
<1>4. Counted' /\ Kept' /\ Exact'
    BY <1>1, <1>2, <1>3, FadeKeeps
<1>5. Shape'
  <2>1. endpoint' \in Endpoints
      BY DEF Toggle, ChangeKey, Endpoints
  <2>2. /\ crashes' \in 0..settings.kills /\ posts' \in [Ids -> Nat]
        /\ accepted' \in SUBSET Ids /\ blurred' \in SUBSET Ids
      BY <1>1 DEF Inv, Shape
  <2>3. QED BY <1>1, <1>3, <2>1, <2>2, Same, Lifecycle DEF Inv
<1>6. QED BY <1>4, <1>5 DEF Inv

LEMMA MarkKeeps ==
    ASSUME Inv, NEW c \in Callers, Mark(c)
    PROVE  Inv'
<1> DEFINE d == caller[c].original
<1>1. /\ row' = IF d \in Existing THEN [row EXCEPT ![d].status = "replayed"] ELSE row
      /\ caller' = [caller EXCEPT ![c] = IdleCaller]
      /\ UNCHANGED <<settings, endpoint, retrier, dead, crashes, posts, accepted, blurred>>
    BY DEF Mark, history
<1>2. PICK k : k = IdleCaller
    OBVIOUS
<1>3. CallerOK(k) /\ k.at # "capture" /\ k.original = NoId
    BY <1>2, IdleRecords
<1>4. caller'[c] = k /\ \A e \in Callers \ {c} : caller'[e] = caller[e]
    BY <1>1, <1>2, <1>3, CallerPut DEF Inv
<1>5. /\ \A e \in Ids : Entombed(e)' => Entombed(e)
      /\ \A e \in Callers : caller'[e].original \in {caller[e].original, NoId}
    BY <1>1, <1>3, <1>4 DEF Entombed, dead, Store!Captured
<1>6. CASE d \notin Existing
  <2>1. row' = row /\ row' \in [Ids -> RowType]
      BY <1>1, <1>6 DEF Inv, Shape
  <2>2. Counted' /\ Kept' /\ Exact'
      BY <1>1, <1>5, <2>1, FadeKeeps
  <2>3. Shape'
      BY <1>1, <1>2, <1>3, <2>1, CallerShape DEF Inv, Shape, dead
  <2>4. QED BY <2>2, <2>3 DEF Inv
<1>7. CASE d \in Existing
  <2>1. PICK e \in Ids : e = d
      BY <1>7 DEF Existing
  <2>2. PICK v : v = [row[e] EXCEPT !.status = "replayed"]
      OBVIOUS
  <2>3. v \in RowType /\ v.status = "replayed" /\ v.attempts = row[e].attempts
      BY <2>2, RecordFacts DEF Inv, RowType, Statuses
  <2>4. row' = [row EXCEPT ![e] = v]
      BY <1>1, <1>7, <2>1, <2>2 DEF Inv, Shape
  <2>5. row' \in [Ids -> RowType] /\ row'[e] = v /\ \A f \in Ids \ {e} : row'[f] = row[f]
      BY <2>3, <2>4, RowPut DEF Inv
  <2>6. Shape'
      BY <1>1, <1>2, <1>3, <2>5, CallerShape DEF Inv, Shape, dead
  <2>7. Counted'
    <3>1. \A f \in Ids : row'[f].attempts <= posts[f]
        BY <2>3, <2>5 DEF Inv, Counted
    <3>2. \A r \in Retriers : HeldBy(r) \subseteq Ids
        BY RecordFacts DEF Inv, HeldBy
    <3>3. \A f \in Ids : row'[f].status = "absent" => row[f].status = "absent"
        BY <2>3, <2>5
    <3>4. QED BY <1>1, <3>1, <3>2, <3>3, StillHeld DEF Inv, Counted
  <2>8. Kept'
    <3>1. \A f \in Ids : row[f].status \in Buried => row'[f].status \in Buried
        BY <2>3, <2>5 DEF Buried
    <3>2. QED BY <1>1, <1>5, <3>1, StillHeld DEF Inv, Kept, dead, Store!Captured
  <2>9. ASSUME NEW f \in Ids \ blurred
        PROVE  /\ Alone(f)' /\ Fresh(f)'
               /\ \A b \in Callers : caller'[b].original = f => row'[f].status \in Buried
               /\ f \in Existing' => Told(f)'
    <3>0. f # NoId
        BY SettingsFacts DEF Inv, Shape
    <3>1. \A b \in Callers : caller'[b].original = f => row'[f].status \in Buried
        BY <1>5, <2>3, <2>5, <3>0 DEF Inv, Exact, Buried
    <3>2. CASE f # e
      <4>1. row'[f] = row[f] /\ (f \in Existing' => f \in Existing)
          BY <2>5, <3>2 DEF Existing
      <4>2. Alone(f)' /\ Fresh(f)'
          BY <1>1, <4>1, StillHeld DEF Inv, Exact, Alone, Fresh
      <4>3. f \in Existing' => Told(f)'
          BY <1>1, <4>1 DEF Inv, Exact, Told, Reported
      <4>4. QED BY <3>1, <4>2, <4>3
    <3>3. CASE f = e
      <4>1. /\ row[e].status \in Buried /\ row[e].status # "deleted" /\ e \in Existing
            /\ Fresh(e) /\ Alone(e) /\ Told(e)
          BY <1>7, <2>1, <3>3 DEF Inv, Exact, Existing, Present
      <4>2. \A r \in Retriers : e \notin HeldBy(r)
          BY <4>1 DEF Fresh, Buried, Open
      <4>3. Alone(e)' /\ Fresh(e)'
          BY <1>1, <4>2, StillHeld DEF Alone, Fresh
      <4>4. \A r \in Retriers : retrier[r].id # e
          BY <3>0, <3>3, <4>2 DEF HeldBy
      <4>5. row[e].attempts = posts[e] /\ e \notin accepted
          BY <4>1, <4>4 DEF Told, Reported, Buried
      <4>6. Told(e)'
          BY <1>1, <2>3, <2>5, <4>4, <4>5 DEF Told, Reported
      <4>7. QED BY <3>1, <3>3, <4>3, <4>6
    <3>4. QED BY <3>2, <3>3
  <2>10. Exact'
      BY <1>1, <2>9 DEF Exact
  <2>11. QED BY <2>6, <2>7, <2>8, <2>10 DEF Inv
<1>8. QED BY <1>6, <1>7
-----------------------------------------------------------------------------
(* The dead-letter store.                                                  *)
LEMMA ExactHere ==
    ASSUME Inv, Still, \A c \in Callers : caller'[c].original = caller[c].original
    PROVE  Counted' /\ Exact'
<1>1. \A d \in Ids \ blurred, c \in Callers : caller'[c].original = d => row[d].status \in Buried
    BY DEF Inv, Exact
<1>2. QED BY <1>1, StillRows DEF Exact, Still

LEMMA CaptureKeeps ==
    ASSUME Inv, NEW c \in Callers, Capture(c)
    PROVE  Inv'
<1> DEFINE d == caller[c].id
<1>1. /\ Still /\ UNCHANGED <<settings, endpoint, retrier, request, blurred, crashes, row, posts, accepted>>
      /\ caller[c].at = "capture"
      /\ caller' = [caller EXCEPT ![c] = [caller[c] EXCEPT !.at = "prune"]]
    BY DEF Capture, history, Still, Inv, Shape
<1>2. PICK k : k = [caller[c] EXCEPT !.at = "prune"]
    OBVIOUS
<1>3. /\ CallerOK(k) /\ k.at = "prune" /\ k.original = caller[c].original /\ d \in Ids
  <2>1. CallerOK(caller[c])
      BY RecordFacts DEF Inv
  <2>2. QED BY <1>1, <1>2, <2>1 DEF CallerOK, CallerType
<1>4. caller'[c] = k /\ \A e \in Callers \ {c} : caller'[e] = caller[e]
    BY <1>1, <1>2, <1>3, CallerPut DEF Inv
<1>5. /\ entry' \in [Ids -> Store!EntryType]
      /\ \A e \in Ids : entry'[e] = entry[e] \/ (e = d /\ entry'[e].status = "pending")
  <2>1. \A e \in Ids : [entry[e] EXCEPT !.status = "pending"] \in Store!EntryType
                       /\ [entry[e] EXCEPT !.status = "pending"].status = "pending"
      BY DEF Inv, Shape, Store!EntryType, Store!EntryStatuses
  <2>2. \/ UNCHANGED entry
        \/ entry' = [entry EXCEPT ![d] = [entry[d] EXCEPT !.status = "pending"]]
      BY <1>3 DEF Capture, Store!CaptureFailure, Inv, Shape
  <2>3. QED BY <1>3, <2>1, <2>2 DEF Inv, Shape
<1>6. Entombed(d)
    BY <1>1 DEF Entombed
<1>7. \A e \in Ids : Entombed(e)' => Entombed(e)
    BY <1>3, <1>4, <1>5, <1>6 DEF Entombed, Store!Captured
<1>8. \A e \in Ids : Store!Captured(e) => Store!Captured(e)'
    BY <1>5 DEF Store!Captured
<1>9. Kept'
  <2>1. \A o \in Operators : request[o] # Store!NoRequest => request[o].on \in Ids
      BY DEF Inv, Shape, RequestOK
  <2>2. \A o \in Operators : request'[o] # Store!NoRequest => Store!Captured(request[o].on)'
      BY <1>1, <1>8, <2>1 DEF Inv, Kept
  <2>3. \A o \in Operators : request'[o] # Store!NoRequest => Store!Captured(request[o].on)'
                             /\ request'[o] = request[o]
      BY <1>1, <2>2
  <2>4. \A o \in Operators : (request[o] # Store!NoRequest => Store!Captured(request[o].on))'
      BY <1>1, <2>3 DEF Store!Captured
  <2>5. QED BY <1>1, <1>7, <2>4, StillHeld DEF Inv, Kept
<1>10. Counted' /\ Exact'
    BY <1>1, <1>3, <1>4, ExactHere
<1>11. Shape'
    BY <1>1, <1>2, <1>3, <1>5, CallerShape DEF Inv, Shape
<1>12. QED BY <1>9, <1>10, <1>11 DEF Inv

LEMMA HandleKeeps ==
    ASSUME Inv, Handle
    PROVE  Inv'
<1>1. /\ UNCHANGED <<settings, endpoint, row, caller, retrier, crashes, posts, accepted, blurred>>
      /\ Still
    BY DEF Handle, history, Still
<1>2. Counted' /\ Exact'
    BY <1>1, ExactHere
<1>3. PICK o \in Operators :
          \/ \E act \in Store!Requests, s \in Ids : Store!Load(o, act, s)
          \/ Store!Save(o)
    BY DEF Handle, Store!DeadLetterNext
<1>4. /\ entry \in [Ids -> Store!EntryType] /\ request \in [Operators -> Store!RequestType]
      /\ \A p \in Operators : RequestOK(request[p])
      /\ \A p \in Operators : request[p] # Store!NoRequest =>
            entry[request[p].on].status # "absent"
    BY DEF Inv, Shape, Kept, Store!Captured
<1>5. /\ entry' \in [Ids -> Store!EntryType] /\ request' \in [Operators -> Store!RequestType]
      /\ \A p \in Operators : RequestOK(request'[p])
      /\ \A p \in Operators : request'[p] # Store!NoRequest =>
            entry'[request'[p].on].status # "absent"
      /\ \A s \in Ids : entry'[s].status = "absent" <=> entry[s].status = "absent"
  <2>1. CASE \E act \in Store!Requests, s \in Ids : Store!Load(o, act, s)
    <3>1. PICK act \in Store!Requests, s \in Ids : Store!Load(o, act, s)
        BY <2>1
    <3>2. PICK q : q = [act |-> act, on |-> s, seen |-> entry[s]]
        OBVIOUS
    <3>3. /\ request' = [request EXCEPT ![o] = q] /\ entry' = entry
          /\ Store!Captured(s) /\ (act = "retry" => entry[s].status \notin Store!Terminal)
        BY <3>1, <3>2 DEF Store!Load, Store!Admits
    <3>4. q \in Store!RequestType /\ q.on = s /\ q.act = act /\ q.seen = entry[s]
        BY <1>4, <3>2 DEF Store!RequestType
    <3>5. RequestOK(q)
        BY <1>4, <3>3, <3>4 DEF RequestOK, Store!Captured, Store!Terminal, Store!EntryType,
              Store!EntryStatuses
    <3>6. \A p \in Operators : request'[p] = IF p = o THEN q ELSE request[p]
        BY <1>4, <3>3
    <3>7. request' \in [Operators -> Store!RequestType]
        BY <1>4, <3>3, <3>4
    <3>8. QED BY <1>4, <3>3, <3>4, <3>5, <3>6, <3>7 DEF Store!Captured
  <2>2. CASE Store!Save(o)
    <3>1. PICK q : q = request[o]
        OBVIOUS
    <3>2. q # Store!NoRequest /\ q.on \in Ids /\ q.act \in Store!Requests
          /\ q.seen \in Store!EntryType /\ Store!Captured(q.on)
        BY <1>4, <2>2, <3>1 DEF Store!Captured, Store!Save, RequestOK, Store!RequestType
    <3>3. PICK x : x = Store!Outcome(q.act)
        OBVIOUS
    <3>4. x \in [status : {"retrying", "resolved", "archived"}, stamped : BOOLEAN]
        BY <3>2, <3>3 DEF Store!Outcome, Store!Requests
    <3>5. PICK y : y = Store!Merged(q.seen, x, entry[q.on])
        OBVIOUS
    <3>6. y \in Store!EntryType /\ y.status # "absent"
      <4>1. entry[q.on] \in Store!EntryType /\ entry[q.on].status # "absent"
          BY <1>4, <3>2 DEF Store!Captured
      <4>2. QED BY <3>2, <3>4, <3>5, <4>1 DEF Store!Merged, Store!EntryType, Store!EntryStatuses
    <3>7. /\ entry' = [entry EXCEPT ![q.on] = y]
          /\ request' = [request EXCEPT ![o] = Store!NoRequest]
        BY <1>4, <2>2, <3>1, <3>2, <3>3, <3>5 DEF Store!Save
    <3>8. /\ entry' \in [Ids -> Store!EntryType]
          /\ \A s \in Ids : entry'[s] = IF s = q.on THEN y ELSE entry[s]
        BY <1>4, <3>6, <3>7
    <3>9. \A s \in Ids : entry'[s].status = "absent" <=> entry[s].status = "absent"
        BY <3>2, <3>6, <3>8 DEF Store!Captured
    <3>10. RequestOK(Store!NoRequest)
        BY DEF RequestOK, Store!NoRequest, Store!RequestType, Store!NoEntry, Store!EntryType,
               Store!EntryStatuses
    <3>11. /\ request' \in [Operators -> Store!RequestType]
           /\ \A p \in Operators : request'[p] = IF p = o THEN Store!NoRequest ELSE request[p]
        BY <1>4, <3>7, <3>10 DEF RequestOK
    <3>12. \A p \in Operators : request'[p] # Store!NoRequest =>
                entry'[request'[p].on].status # "absent"
      <4>1. \A p \in Operators : request'[p] # Store!NoRequest =>
                request'[p] = request[p] /\ request[p].on \in Ids
                /\ entry[request[p].on].status # "absent"
          BY <1>4, <3>11 DEF RequestOK, Store!Captured
      <4>2. QED BY <3>6, <3>8, <4>1
    <3>13. QED BY <1>4, <3>8, <3>9, <3>10, <3>11, <3>12
  <2>3. QED BY <1>3, <2>1, <2>2
<1>6. Kept'
  <2>1. \A d \in Ids : Entombed(d)' => Entombed(d)
      BY <1>1, <1>5 DEF Entombed, Store!Captured
  <2>2. QED BY <1>1, <1>5, <2>1, StillHeld DEF Inv, Kept, Store!Captured
<1>7. Shape'
  <2>1. /\ endpoint' \in Endpoints /\ row' \in [Ids -> RowType]
        /\ crashes' \in 0..settings.kills /\ posts' \in [Ids -> Nat]
        /\ accepted' \in SUBSET Ids /\ blurred' \in SUBSET Ids
      BY <1>1 DEF Inv, Shape
  <2>2. QED BY <1>1, <1>5, <2>1, Same, Lifecycle DEF Inv
<1>8. QED BY <1>2, <1>6, <1>7 DEF Inv
-----------------------------------------------------------------------------
(* The retry loops.                                                        *)
LEMMA Hold ==
    ASSUME Inv, NEW r \in Retriers, NEW w, RetrierOK(w), retrier' = [retrier EXCEPT ![r] = w]
    PROVE  /\ HeldBy(r)' = w.todo \cup ({w.id} \ {NoId})
           /\ \A q \in Retriers \ {r} : HeldBy(q)' = HeldBy(q)
           /\ \A q \in Retriers : HeldBy(q) \subseteq Ids
           /\ retrier'[r] = w /\ \A q \in Retriers \ {r} : retrier'[q] = retrier[q]
<1>1. retrier'[r] = w /\ \A q \in Retriers \ {r} : retrier'[q] = retrier[q]
    BY RetrierPut DEF Inv
<1>2. \A q \in Retriers : HeldBy(q) \subseteq Ids
    BY RecordFacts DEF Inv, HeldBy
<1>3. QED BY <1>1, <1>2 DEF HeldBy

LEMMA SelectKeeps ==
    ASSUME Inv, NEW r \in Retriers, NEW S \in SUBSET Ids, Select(r, S)
    PROVE  Inv'
<1>1. /\ retrier[r].at = "idle" /\ \A d \in S : Due(d)
      /\ blurred' = blurred \cup (S \cap UNION {HeldBy(q) : q \in Retriers})
      /\ UNCHANGED <<settings, endpoint, row, caller, dead, crashes, posts, accepted>>
    BY DEF Select
<1>2. PICK loaded : loaded = [d \in Ids |-> IF d \in S THEN row[d] ELSE NoRow]
    OBVIOUS
<1>3. loaded \in [Ids -> RowType]
    BY <1>2, IdleRecords DEF Inv, Shape
<1>4. PICK w : w = Round("batch", S, loaded, "unread", NoId, "none")
    OBVIOUS
<1>5. /\ RetrierOK(w) /\ w.at = "batch" /\ w.todo = S /\ w.id = NoId
      /\ w.loaded = loaded /\ w.result = "none"
  <2>1. w \in RetrierType /\ w.at = "batch" /\ w.todo = S /\ w.id = NoId
        /\ w.loaded = loaded /\ w.result = "none"
      BY <1>3, <1>4 DEF Round, RetrierType
  <2>2. NoId \notin S
      BY SettingsFacts DEF Inv, Shape
  <2>3. QED BY <2>1, <2>2 DEF RetrierOK
<1>6. retrier' = [retrier EXCEPT ![r] = w]
    BY <1>2, <1>4 DEF Select
<1>7. /\ HeldBy(r)' = S /\ \A q \in Retriers \ {r} : HeldBy(q)' = HeldBy(q)
      /\ \A q \in Retriers : HeldBy(q) \subseteq Ids
      /\ retrier'[r] = w /\ \A q \in Retriers \ {r} : retrier'[q] = retrier[q]
  <2>1. /\ HeldBy(r)' = w.todo \cup ({w.id} \ {NoId})
        /\ \A q \in Retriers \ {r} : HeldBy(q)' = HeldBy(q)
        /\ \A q \in Retriers : HeldBy(q) \subseteq Ids
        /\ retrier'[r] = w /\ \A q \in Retriers \ {r} : retrier'[q] = retrier[q]
      BY <1>5, <1>6, Hold
  <2>2. w.todo \cup ({w.id} \ {NoId}) = S
      BY <1>5
  <2>3. QED BY <2>1, <2>2
<1>8. \A d \in S : row[d].status \in Open
    BY <1>1 DEF Due, Open
<1>9. Shape'
  <2>1. blurred' \in SUBSET Ids
      BY <1>1 DEF Inv, Shape
  <2>2. QED BY <1>1, <1>5, <1>6, <2>1, RetrierShape DEF Inv, Shape
<1>10. Counted'
  <2>1. \A d \in Ids : loaded[d].attempts <= posts[d]
      BY <1>2, IdleRecords, RecordFacts DEF Inv, Counted
  <2>2. \A q \in Retriers : \A d \in HeldBy(q)' : row[d].status # "absent"
      BY <1>7, <1>8 DEF Inv, Counted, Open
  <2>3. QED BY <1>1, <1>5, <1>7, <2>1, <2>2 DEF Inv, Counted
<1>11. Kept'
  <2>1. \A d \in Ids : Entombed(d)' <=> Entombed(d)
      BY <1>1 DEF Entombed, dead, Store!Captured
  <2>2. \A d \in Ids : Entombed(d) => d \notin S
      BY <1>8 DEF Inv, Kept, Buried, Open
  <2>3. QED BY <1>1, <1>7, <2>1, <2>2 DEF Inv, Kept, dead, Store!Captured
<1>12. ASSUME NEW d \in Ids \ blurred'
       PROVE  /\ Alone(d)' /\ Fresh(d)'
              /\ \A c \in Callers : caller'[c].original = d => row'[d].status \in Buried
              /\ d \in Existing' => Told(d)'
  <2>1. d \in Ids \ blurred /\ (d \in S => \A q \in Retriers : d \notin HeldBy(q))
      BY <1>1, <1>12
  <2>2. Alone(d) /\ Fresh(d) /\ (d \in Existing => Told(d))
        /\ \A c \in Callers : caller[c].original = d => row[d].status \in Buried
      BY <2>1 DEF Inv, Exact
  <2>3. Alone(d)'
      BY <1>7, <2>1, <2>2 DEF Alone
  <2>4. Fresh(d)'
      BY <1>1, <1>2, <1>5, <1>7, <1>8, <2>1, <2>2 DEF Fresh
  <2>5. d \in Existing' => Told(d)'
      BY <1>1, <1>5, <1>7, <2>2 DEF Existing, Told, Reported
  <2>6. QED BY <1>1, <2>2, <2>3, <2>4, <2>5
<1>13. Exact'
    BY <1>12 DEF Exact
<1>14. QED BY <1>9, <1>10, <1>11, <1>13 DEF Inv

LEMMA RepostKeeps ==
    ASSUME Inv, NEW r \in Retriers, NEW ok \in BOOLEAN, Repost(r, ok)
    PROVE  Inv'
<1> DEFINE v == retrier[r]
<1>0. v.at = "post" /\ RetrierOK(v) /\ v.loaded \in [Ids -> RowType] /\ v.todo \in SUBSET Ids
      /\ v.seen \in {"unread", "active", "inactive"}
    BY RecordFacts DEF Repost, Inv
<1>1. PICK d \in Ids : d = v.id
    BY <1>0 DEF RetrierOK
<1>2. PICK result \in {"accepted", "refused"} :
          /\ result = IF ok THEN "accepted" ELSE "refused"
          /\ retrier' = [retrier EXCEPT ![r] = Round("write", v.todo, v.loaded, v.seen, d, result)]
    BY <1>1 DEF Repost
<1>3. /\ posts' = [posts EXCEPT ![d] = posts[d] + 1]
      /\ accepted' = IF ok THEN accepted \cup {d} ELSE accepted
      /\ UNCHANGED <<settings, endpoint, row, caller, dead, crashes, blurred>>
    BY <1>1 DEF Repost, Inv, Shape
<1>4. /\ posts \in [Ids -> Nat] /\ posts' \in [Ids -> Nat] /\ posts'[d] = posts[d] + 1
      /\ \A e \in Ids \ {d} : posts'[e] = posts[e]
      /\ accepted' \in SUBSET Ids /\ \A e \in Ids \ {d} : e \in accepted' <=> e \in accepted
      /\ d # NoId
    BY <1>3, SettingsFacts DEF Inv, Shape
<1>5. PICK w : w = Round("write", v.todo, v.loaded, v.seen, d, result)
    OBVIOUS
<1>6. /\ w \in RetrierType /\ w.at = "write" /\ w.todo = v.todo /\ w.loaded = v.loaded
      /\ w.id = d /\ w.result = result
    BY <1>0, <1>5 DEF Round, RetrierType
<1>7. RetrierOK(w) /\ retrier' = [retrier EXCEPT ![r] = w]
    BY <1>0, <1>1, <1>2, <1>5, <1>6 DEF RetrierOK
<1>8. /\ \A q \in Retriers : HeldBy(q)' = HeldBy(q)
      /\ \A q \in Retriers : HeldBy(q) \subseteq Ids
      /\ retrier'[r] = w /\ \A q \in Retriers \ {r} : retrier'[q] = retrier[q]
  <2>1. /\ HeldBy(r)' = w.todo \cup ({w.id} \ {NoId})
        /\ \A q \in Retriers \ {r} : HeldBy(q)' = HeldBy(q)
        /\ \A q \in Retriers : HeldBy(q) \subseteq Ids
        /\ retrier'[r] = w /\ \A q \in Retriers \ {r} : retrier'[q] = retrier[q]
      BY <1>7, Hold
  <2>2. w.todo \cup ({w.id} \ {NoId}) = HeldBy(r)
      BY <1>1, <1>6 DEF HeldBy
  <2>3. QED BY <2>1, <2>2
<1>9. d \in HeldBy(r)
    BY <1>1, <1>4 DEF HeldBy
<1>10. Shape'
  <2>1. row' \in [Ids -> RowType] /\ blurred' \in SUBSET Ids /\ crashes' \in 0..settings.kills
      BY <1>3 DEF Inv, Shape
  <2>2. UNCHANGED <<settings, endpoint, caller, dead>>
      BY <1>3
  <2>3. QED BY <1>4, <1>7, <2>1, <2>2, RetrierShape DEF Inv
<1>11. \A e \in Ids : posts[e] <= posts'[e] /\ posts[e] \in Nat /\ posts'[e] \in Nat
    BY <1>4
<1>12. Counted'
  <2>1. \A e \in Ids : row'[e].attempts <= posts'[e]
    <3>1. \A e \in Ids : row[e].attempts \in Nat /\ row[e].attempts <= posts[e]
        BY RecordFacts DEF Inv, Counted
    <3>2. QED BY <1>3, <1>11, <3>1
  <2>2. \A e \in Ids : row'[e].status = "absent" => posts'[e] = 0 /\ e \notin accepted'
    <3>1. row[d].status # "absent"
        BY <1>9 DEF Inv, Counted
    <3>2. QED BY <1>3, <1>4, <3>1 DEF Inv, Counted
  <2>3. \A q \in Retriers : retrier'[q].loaded = retrier[q].loaded
      BY <1>6, <1>8
  <2>4. \A q \in Retriers, e \in Ids : retrier[q].loaded[e].attempts \in Nat
      BY RecordFacts DEF Inv, RowType
  <2>5. \A q \in Retriers, e \in Ids : retrier'[q].loaded[e].attempts <= posts'[e]
      BY <1>11, <2>3, <2>4 DEF Inv, Counted
  <2>6. ASSUME NEW q \in Retriers, retrier'[q].result \in {"accepted", "refused"}
        PROVE  retrier'[q].loaded[retrier'[q].id].attempts + 1 <= posts'[retrier'[q].id]
    <3>1. CASE q = r
      <4>1. v.loaded[d].attempts <= posts[d] /\ v.loaded[d].attempts \in Nat
          BY <2>4 DEF Inv, Counted
      <4>2. QED BY <1>4, <1>6, <1>8, <3>1, <4>1
    <3>2. CASE q # r
      <4>1. retrier[q].id \in Ids
          BY <1>8, <2>6, <3>2, RecordFacts DEF Inv, RetrierOK
      <4>2. retrier[q].loaded[retrier[q].id].attempts + 1 <= posts[retrier[q].id]
          BY <1>8, <2>6, <3>2 DEF Inv, Counted
      <4>3. QED BY <1>8, <1>11, <2>4, <3>2, <4>1, <4>2
    <3>3. QED BY <3>1, <3>2
  <2>7. \A q \in Retriers : \A e \in HeldBy(q)' : row'[e].status # "absent"
      BY <1>3, <1>8 DEF Inv, Counted
  <2>8. QED BY <2>1, <2>2, <2>5, <2>6, <2>7 DEF Counted
<1>13. Kept'
    BY <1>3, <1>8 DEF Inv, Kept, Entombed, dead, Store!Captured
<1>14. ASSUME NEW e \in Ids \ blurred
       PROVE  /\ Alone(e)' /\ Fresh(e)'
              /\ \A c \in Callers : caller'[c].original = e => row'[e].status \in Buried
              /\ e \in Existing' => Told(e)'
  <2>1. Alone(e) /\ Fresh(e) /\ (e \in Existing => Told(e))
        /\ \A c \in Callers : caller[c].original = e => row[e].status \in Buried
      BY DEF Inv, Exact
  <2>2. Alone(e)' /\ Fresh(e)'
      BY <1>3, <1>6, <1>8, <2>1 DEF Alone, Fresh
  <2>3. e \in Existing' => e \in Existing
      BY <1>3 DEF Existing
  <2>4. ASSUME e # d, e \in Existing
        PROVE  Told(e)'
    <3>1. posts'[e] = posts[e] /\ (e \in accepted' <=> e \in accepted)
        BY <1>4, <2>4
    <3>2. \A q \in Retriers : retrier'[q].id = e /\ retrier'[q].at = "write" <=>
                              retrier[q].id = e /\ retrier[q].at = "write"
        BY <1>1, <1>6, <1>8, <2>4
    <3>3. \A q \in Retriers : retrier'[q].id = e => retrier'[q] = retrier[q]
        BY <1>6, <1>8, <2>4
    <3>4. QED BY <1>3, <2>1, <2>4, <3>1, <3>2, <3>3 DEF Told, Reported
  <2>5. ASSUME e = d, e \in Existing
        PROVE  Told(d)'
    <3>1. row[d].status \in Open /\ v.loaded[d] = row[d]
        BY <1>9, <2>1, <2>5 DEF Fresh, Existing, Present
    <3>2. \A q \in Retriers : retrier[q].id = d => q = r
        BY <1>4, <1>9, <2>1, <2>5 DEF Alone, HeldBy
    <3>3. row[d].attempts = posts[d] /\ d \notin accepted
        BY <1>0, <2>1, <2>5, <3>1, <3>2 DEF Told, Reported, Open
    <3>4. d \in accepted' <=> result = "accepted"
        BY <1>2, <1>3, <3>3
    <3>5. ~Reported(d)'
        BY <1>6, <1>8 DEF Reported
    <3>6. \A q \in Retriers : retrier'[q].id = d =>
              /\ retrier'[q].result = result
              /\ retrier'[q].loaded[d].attempts + 1 = posts'[d]
        BY <1>4, <1>6, <1>8, <3>1, <3>2, <3>3
    <3>7. QED BY <3>4, <3>5, <3>6 DEF Told
  <2>6. QED BY <1>3, <2>1, <2>2, <2>3, <2>4, <2>5
<1>15. Exact'
    BY <1>3, <1>14 DEF Exact
<1>16. QED BY <1>10, <1>12, <1>13, <1>15 DEF Inv

(* A loop is done with the delivery it was on: what it still holds of its  *)
(* batch is as it was loaded.                                              *)
LEMMA Release ==
    ASSUME Inv, NEW r \in Retriers, NEW w, RetrierOK(w), retrier' = [retrier EXCEPT ![r] = w],
           w.id = NoId, w.at # "write", w.result = "none", w.todo \subseteq retrier[r].todo,
           \A e \in Ids : w.loaded[e] \in {retrier[r].loaded[e], NoRow},
           \A e \in w.todo : w.loaded[e] = retrier[r].loaded[e]
    PROVE  /\ retrier'[r] = w /\ \A q \in Retriers \ {r} : retrier'[q] = retrier[q]
           /\ HeldBy(r)' = w.todo /\ \A q \in Retriers \ {r} : HeldBy(q)' = HeldBy(q)
           /\ \A q \in Retriers : HeldBy(q)' \subseteq HeldBy(q) /\ HeldBy(q) \subseteq Ids
           /\ \A q \in Retriers : \A e \in HeldBy(q)' : retrier'[q].loaded[e] = retrier[q].loaded[e]
           /\ \A q \in Retriers, e \in Ids : retrier'[q].loaded[e] \in {retrier[q].loaded[e], NoRow}
<1>1. /\ HeldBy(r)' = w.todo \cup ({w.id} \ {NoId})
      /\ \A q \in Retriers \ {r} : HeldBy(q)' = HeldBy(q)
      /\ \A q \in Retriers : HeldBy(q) \subseteq Ids
      /\ retrier'[r] = w /\ \A q \in Retriers \ {r} : retrier'[q] = retrier[q]
    BY Hold
<1>2. w.todo \cup ({w.id} \ {NoId}) = w.todo
    OBVIOUS
<1>3. w.todo \subseteq HeldBy(r)
    BY DEF HeldBy
<1>4. QED BY <1>1, <1>2, <1>3

LEMMA ReleaseCounts ==
    ASSUME Inv, NEW r \in Retriers, NEW w, RetrierOK(w), retrier' = [retrier EXCEPT ![r] = w],
           w.id = NoId, w.at # "write", w.result = "none", w.todo \subseteq retrier[r].todo,
           \A e \in Ids : w.loaded[e] \in {retrier[r].loaded[e], NoRow},
           \A e \in w.todo : w.loaded[e] = retrier[r].loaded[e],
           \A e \in Ids : row'[e].attempts <= posts[e],
           \A e \in Ids : row'[e].status = "absent" <=> row[e].status = "absent",
           UNCHANGED <<posts, accepted, caller, dead>>,
           \A e \in Ids : Entombed(e) => row'[e].status \in Buried
    PROVE  Counted' /\ Kept'
<1>0. /\ \A q \in Retriers \ {r} : retrier'[q] = retrier[q]
      /\ \A q \in Retriers : HeldBy(q)' \subseteq HeldBy(q) /\ HeldBy(q) \subseteq Ids
      /\ \A q \in Retriers, e \in Ids : retrier'[q].loaded[e] \in {retrier[q].loaded[e], NoRow}
      /\ retrier'[r] = w
  <2>1. /\ retrier'[r] = w /\ \A q \in Retriers \ {r} : retrier'[q] = retrier[q]
        /\ HeldBy(r)' = w.todo /\ \A q \in Retriers \ {r} : HeldBy(q)' = HeldBy(q)
        /\ \A q \in Retriers : HeldBy(q)' \subseteq HeldBy(q) /\ HeldBy(q) \subseteq Ids
        /\ \A q \in Retriers : \A e \in HeldBy(q)' : retrier'[q].loaded[e] = retrier[q].loaded[e]
        /\ \A q \in Retriers, e \in Ids : retrier'[q].loaded[e] \in {retrier[q].loaded[e], NoRow}
      BY Release
  <2>2. QED BY <2>1
<1>1. \A q \in Retriers, e \in Ids : retrier'[q].loaded[e].attempts <= posts[e]
  <2>1. \A e \in Ids : NoRow.attempts <= posts[e]
      BY IdleRecords, RecordFacts DEF Inv
  <2>2. QED BY <2>1 DEF Inv, Counted
<1>2. \A q \in Retriers : retrier'[q].result \in {"accepted", "refused"} => retrier'[q] = retrier[q]
    BY <1>0
<1>3. \A q \in Retriers : retrier'[q].result \in {"accepted", "refused"} =>
          retrier'[q].loaded[retrier'[q].id].attempts + 1 <= posts[retrier'[q].id]
    BY <1>2 DEF Inv, Counted
<1>4. \A q \in Retriers : \A e \in HeldBy(q)' : row'[e].status # "absent"
    BY <1>0 DEF Inv, Counted
<1>5. Counted'
    BY <1>1, <1>3, <1>4 DEF Inv, Counted
<1>6. Kept'
    BY <1>0 DEF Inv, Kept, Entombed, dead, Store!Captured
<1>7. QED BY <1>5, <1>6

(* A loop that drops its batch, because it is killed or cannot read the    *)
(* secret.                                                                 *)
LEMMA DropKeeps ==
    ASSUME Inv, NEW r \in Retriers,
           retrier' = [retrier EXCEPT ![r] = IdleRetrier],
           blurred' = IF retrier[r].result \in {"accepted", "refused"}
                      THEN blurred \cup {retrier[r].id} ELSE blurred,
           UNCHANGED <<settings, endpoint, row, caller, dead, posts, accepted>>,
           crashes' \in 0..settings.kills
    PROVE  Inv'
<1> DEFINE v == retrier[r]
<1>1. /\ retrier' = [retrier EXCEPT ![r] = IdleRetrier]
      /\ blurred' = IF v.result \in {"accepted", "refused"} THEN blurred \cup {v.id} ELSE blurred
      /\ UNCHANGED <<settings, endpoint, row, caller, dead, posts, accepted>>
    OBVIOUS
<1>2. RetrierOK(v) /\ v.id \in Ids \cup {NoId} /\ v.todo \in SUBSET Ids
    BY RecordFacts DEF Inv
<1>3. /\ RetrierOK(IdleRetrier) /\ IdleRetrier.at = "idle" /\ IdleRetrier.todo = {}
      /\ IdleRetrier.id = NoId /\ IdleRetrier.result = "none"
      /\ \A e \in Ids : IdleRetrier.loaded[e] = NoRow
    BY IdleRecords
<1>4. /\ retrier'[r] = IdleRetrier /\ \A q \in Retriers \ {r} : retrier'[q] = retrier[q]
      /\ HeldBy(r)' = IdleRetrier.todo /\ \A q \in Retriers \ {r} : HeldBy(q)' = HeldBy(q)
      /\ \A q \in Retriers : HeldBy(q)' \subseteq HeldBy(q) /\ HeldBy(q) \subseteq Ids
      /\ \A q \in Retriers : \A e \in HeldBy(q)' : retrier'[q].loaded[e] = retrier[q].loaded[e]
      /\ \A q \in Retriers, e \in Ids : retrier'[q].loaded[e] \in {retrier[q].loaded[e], NoRow}
    BY <1>1, <1>3, Release
<1>5. v.result \in {"accepted", "refused"} => v.id \in Ids
    BY <1>2 DEF RetrierOK
<1>6. Shape'
  <2>1. crashes' \in 0..settings.kills
      OBVIOUS
  <2>2. blurred' \in SUBSET Ids
      BY <1>1, <1>5 DEF Inv, Shape
  <2>3. row' \in [Ids -> RowType] /\ posts' \in [Ids -> Nat] /\ accepted' \in SUBSET Ids
      BY <1>1 DEF Inv, Shape
  <2>4. UNCHANGED <<settings, endpoint, caller, dead>>
      BY <1>1
  <2>5. QED BY <1>1, <1>3, <2>1, <2>2, <2>3, <2>4, RetrierShape DEF Inv
<1>7. Counted' /\ Kept'
  <2>1. /\ IdleRetrier.at # "write" /\ IdleRetrier.todo \subseteq v.todo
        /\ \A e \in Ids : IdleRetrier.loaded[e] \in {v.loaded[e], NoRow}
        /\ \A e \in IdleRetrier.todo : IdleRetrier.loaded[e] = v.loaded[e]
      BY <1>3
  <2>2. /\ \A e \in Ids : row'[e].attempts <= posts[e]
        /\ \A e \in Ids : row'[e].status = "absent" <=> row[e].status = "absent"
        /\ \A e \in Ids : Entombed(e) => row'[e].status \in Buried
        /\ UNCHANGED <<posts, accepted, caller, dead>>
      BY <1>1 DEF Inv, Counted, Kept
  <2>3. QED BY <1>1, <1>3, <2>1, <2>2, ReleaseCounts
<1>8. ASSUME NEW e \in Ids \ blurred'
      PROVE  /\ Alone(e)' /\ Fresh(e)'
             /\ \A c \in Callers : caller'[c].original = e => row'[e].status \in Buried
             /\ e \in Existing' => Told(e)'
  <2>1. e \in Ids \ blurred /\ (v.id = e => v.result \notin {"accepted", "refused"}) /\ e # NoId
      BY <1>1, <1>8, SettingsFacts DEF Inv, Shape
  <2>2. Alone(e) /\ Fresh(e) /\ (e \in Existing => Told(e))
        /\ \A c \in Callers : caller[c].original = e => row[e].status \in Buried
      BY <2>1 DEF Inv, Exact
  <2>3. Alone(e)'
      BY <1>4, <2>2 DEF Alone
  <2>4. Fresh(e)'
      BY <1>1, <1>4, <2>2 DEF Fresh
  <2>5. e \in Existing' => e \in Existing
      BY <1>1 DEF Existing
  <2>6. ASSUME e \in Existing
        PROVE  Told(e)'
    <3>1. ASSUME NEW q \in Retriers, retrier'[q].id = e
          PROVE  retrier'[q] = retrier[q] /\ q # r
        BY <1>3, <1>4, <2>1, <3>1
    <3>2. \/ row[e].attempts = posts[e] /\ (row[e].status = "success" <=> e \in accepted)
          \/ \E q \in Retriers \ {r} : retrier[q].id = e /\ retrier[q].at = "write"
      <4>1. CASE v.id = e /\ v.at = "write"
        <5>1. v.result = "inactive" /\ v.loaded[e].attempts = posts[e] /\ e \notin accepted
            BY <2>1, <2>2, <2>6, <4>1 DEF Told
        <5>2. row[e].status \in Open /\ v.loaded[e] = row[e]
            BY <2>1, <2>2, <2>6, <4>1 DEF Fresh, HeldBy, Existing, Present
        <5>3. QED BY <5>1, <5>2 DEF Open
      <4>2. CASE ~(v.id = e /\ v.at = "write")
          BY <2>2, <2>6, <4>2 DEF Told, Reported
      <4>3. QED BY <4>1, <4>2
    <3>3. Reported(e)' => row[e].attempts = posts[e] /\ (row[e].status = "success" <=> e \in accepted)
        BY <1>4, <3>2 DEF Reported
    <3>4. \A q \in Retriers : retrier'[q].id = e /\ retrier'[q].at = "write" =>
              \/ /\ retrier'[q].result = "inactive"
                 /\ retrier'[q].loaded[e].attempts = posts[e] /\ e \notin accepted
              \/ /\ retrier'[q].result \in {"accepted", "refused"}
                 /\ retrier'[q].loaded[e].attempts + 1 = posts[e]
                 /\ e \in accepted <=> retrier'[q].result = "accepted"
        BY <2>2, <2>6, <3>1 DEF Told
    <3>5. QED BY <1>1, <3>3, <3>4 DEF Told
  <2>7. QED BY <1>1, <2>2, <2>3, <2>4, <2>5, <2>6
<1>9. Exact'
    BY <1>8 DEF Exact
<1>10. QED BY <1>6, <1>7, <1>9 DEF Inv

LEMMA CrashRetrierKeeps ==
    ASSUME Inv, NEW r \in Retriers, CrashRetrier(r)
    PROVE  Inv'
<1>1. crashes' \in 0..settings.kills
    BY SettingsFacts DEF CrashRetrier, Inv, Shape
<1>2. QED BY <1>1, DropKeeps DEF CrashRetrier

LEMMA TakeKeeps ==
    ASSUME Inv, NEW r \in Retriers, NEW d \in Ids, Take(r, d)
    PROVE  Inv'
<1> DEFINE v == retrier[r]
<1>1. /\ v.at = "batch" /\ d \in v.todo
      /\ UNCHANGED <<settings, endpoint, row, caller, dead, crashes, posts, accepted, blurred>>
    BY DEF Take, history, Still
<1>2. /\ RetrierOK(v) /\ v.loaded \in [Ids -> RowType] /\ v.todo \in SUBSET Ids /\ d # NoId
      /\ v.seen \in {"unread", "active", "inactive"} /\ v.id = NoId
    BY <1>1, RecordFacts, SettingsFacts DEF Inv, Shape, RetrierOK
<1>0. CASE IF v.seen = "unread" THEN endpoint = "unreadable" ELSE v.seen = "unreadable"
  <2>1. retrier' = [retrier EXCEPT ![r] = IdleRetrier]
      BY <1>0 DEF Take
  <2>2. v.result = "none" /\ crashes' \in 0..settings.kills
      BY <1>1, <1>2 DEF Inv, Shape, RetrierOK
  <2>3. QED BY <1>1, <2>1, <2>2, DropKeeps
<1>00. SUFFICES ASSUME (IF v.seen = "unread" THEN endpoint ELSE v.seen) # "unreadable"
                PROVE  Inv'
    BY <1>0
<1>3. PICK at \in {"post", "write"}, seen \in {"unread", "active", "inactive"},
           result \in {"none", "inactive"} :
          /\ retrier' = [retrier EXCEPT ![r] = Round(at, v.todo \ {d}, v.loaded, seen, d, result)]
          /\ at = "write" <=> result = "inactive"
  <2> DEFINE seen == IF v.seen = "unread" THEN endpoint ELSE v.seen
             live == endpoint # "deleted" /\ seen = "active"
  <2>1. retrier' = [retrier EXCEPT ![r] =
          Round(IF live THEN "post" ELSE "write", v.todo \ {d}, v.loaded,
                IF endpoint = "deleted" THEN v.seen ELSE seen, d,
                IF live THEN "none" ELSE "inactive")]
      BY <1>00 DEF Take
  <2>2. (IF endpoint = "deleted" THEN v.seen ELSE seen) \in {"unread", "active", "inactive"}
      BY <1>2, <1>00 DEF Inv, Shape, Endpoints
  <2>3. CASE live
      BY <2>1, <2>2, <2>3
  <2>4. CASE ~live
      BY <2>1, <2>2, <2>4
  <2>5. QED BY <2>3, <2>4
<1>4. PICK w : w = Round(at, v.todo \ {d}, v.loaded, seen, d, result)
    OBVIOUS
<1>5. /\ w \in RetrierType /\ w.at = at /\ w.todo = v.todo \ {d} /\ w.loaded = v.loaded
      /\ w.id = d /\ w.result = result
    BY <1>2, <1>4 DEF Round, RetrierType
<1>6. RetrierOK(w)
    BY <1>3, <1>5 DEF RetrierOK
<1>7. retrier' = [retrier EXCEPT ![r] = w]
    BY <1>3, <1>4
<1>8. /\ \A q \in Retriers : HeldBy(q)' = HeldBy(q)
      /\ retrier'[r] = w /\ \A q \in Retriers \ {r} : retrier'[q] = retrier[q]
  <2>1. /\ HeldBy(r)' = w.todo \cup ({w.id} \ {NoId})
        /\ \A q \in Retriers \ {r} : HeldBy(q)' = HeldBy(q)
        /\ retrier'[r] = w /\ \A q \in Retriers \ {r} : retrier'[q] = retrier[q]
      BY <1>6, <1>7, Hold
  <2>2. w.todo \cup ({w.id} \ {NoId}) = HeldBy(r)
      BY <1>1, <1>2, <1>5 DEF HeldBy
  <2>3. QED BY <2>1, <2>2
<1>9. Shape'
    BY <1>1, <1>6, <1>7, RetrierShape DEF Inv, Shape
<1>10. Counted'
  <2>1. \A q \in Retriers : retrier'[q].loaded = retrier[q].loaded
      BY <1>5, <1>8
  <2>2. \A q \in Retriers : retrier'[q].result \in {"accepted", "refused"} =>
            retrier'[q] = retrier[q]
      BY <1>5, <1>8
  <2>3. QED BY <1>1, <1>8, <2>1, <2>2 DEF Inv, Counted
<1>11. Kept'
    BY <1>1, <1>8 DEF Inv, Kept, Entombed, dead, Store!Captured
<1>12. ASSUME NEW e \in Ids \ blurred
       PROVE  /\ Alone(e)' /\ Fresh(e)'
              /\ \A c \in Callers : caller'[c].original = e => row'[e].status \in Buried
              /\ e \in Existing' => Told(e)'
  <2>1. Alone(e) /\ Fresh(e) /\ (e \in Existing => Told(e))
        /\ \A c \in Callers : caller[c].original = e => row[e].status \in Buried
      BY DEF Inv, Exact
  <2>2. Alone(e)' /\ Fresh(e)'
      BY <1>1, <1>5, <1>8, <2>1 DEF Alone, Fresh
  <2>3. e \in Existing' => e \in Existing
      BY <1>1 DEF Existing
  <2>4. CASE e # d
      BY <1>1, <1>5, <1>8, <2>1, <2>2, <2>3, <2>4 DEF Told, Reported
  <2>5. CASE e = d /\ e \in Existing
    <3>1. d \in HeldBy(r) /\ row[d].status \in Open /\ v.loaded[d] = row[d]
        BY <1>1, <2>1, <2>5 DEF HeldBy, Fresh, Existing, Present
    <3>2. \A q \in Retriers : retrier[q].id # d
        BY <1>2, <2>1, <2>5, <3>1 DEF Alone, HeldBy
    <3>3. row[d].attempts = posts[d] /\ d \notin accepted
        BY <2>1, <2>5, <3>1, <3>2 DEF Told, Reported, Open
    <3>4. Told(d)'
      <4>1. row[d].status # "success" /\ v.loaded[d].attempts = posts[d]
          BY <3>1, <3>3 DEF Open
      <4>2. \A q \in Retriers : retrier'[q].id = d /\ retrier'[q].at = "write" =>
                q = r /\ result = "inactive"
          BY <1>3, <1>5, <1>8, <3>2
      <4>3. \A q \in Retriers : retrier'[q].id = d /\ retrier'[q].at = "write" =>
                retrier'[q].result = "inactive" /\ retrier'[q].loaded[d].attempts = posts[d]
          BY <1>5, <1>8, <4>1, <4>2
      <4>4. QED BY <1>1, <3>3, <4>1, <4>3 DEF Told, Reported
    <3>5. QED BY <1>1, <2>1, <2>2, <2>5, <3>4
  <2>6. QED BY <1>1, <2>1, <2>2, <2>3, <2>4, <2>5
<1>13. Exact'
    BY <1>1, <1>12 DEF Exact
<1>14. QED BY <1>9, <1>10, <1>11, <1>13 DEF Inv

(* What the loop sets on the row, and what the UPDATE makes of it.         *)
LEMMA RewrittenFacts ==
    ASSUME Shape, NEW loaded \in RowType, NEW result \in {"inactive", "accepted", "refused"}
    PROVE  /\ Rewritten(loaded, result) \in RowType
           /\ Rewritten(loaded, result).attempts =
                 IF result = "inactive" THEN loaded.attempts ELSE loaded.attempts + 1
           /\ result = "accepted" => Rewritten(loaded, result).status = "success"
           /\ result = "inactive" => Rewritten(loaded, result).status = "dead_letter"
           /\ result = "refused" =>
                 /\ Rewritten(loaded, result).status \in {"dead_letter", loaded.status}
                 /\ Rewritten(loaded, result).status # loaded.status =>
                       loaded.attempts + 1 >= settings.maxRetries
<1>1. loaded.status \in Statuses /\ loaded.attempts \in Nat /\ loaded.attempts + 1 \in Nat
      /\ {"dead_letter", "success"} \subseteq Statuses /\ settings.maxRetries \in Nat
    BY SettingsFacts DEF RowType, Statuses, Shape
<1>2. CASE result = "inactive"
  <2>1. Rewritten(loaded, result) = Row("dead_letter", loaded.attempts, FALSE)
      BY <1>2 DEF Rewritten
  <2>2. /\ Row("dead_letter", loaded.attempts, FALSE) \in RowType
        /\ Row("dead_letter", loaded.attempts, FALSE).status = "dead_letter"
        /\ Row("dead_letter", loaded.attempts, FALSE).attempts = loaded.attempts
      BY <1>1, RowRecord
  <2>3. QED BY <1>1, <1>2, <2>1, <2>2
<1>3. CASE result = "accepted"
  <2>1. Rewritten(loaded, result) = Row("success", loaded.attempts + 1, FALSE)
      BY <1>3 DEF Rewritten
  <2>2. /\ Row("success", loaded.attempts + 1, FALSE) \in RowType
        /\ Row("success", loaded.attempts + 1, FALSE).status = "success"
        /\ Row("success", loaded.attempts + 1, FALSE).attempts = loaded.attempts + 1
      BY <1>1, RowRecord
  <2>3. QED BY <1>1, <1>3, <2>1, <2>2
<1>4. CASE result = "refused" /\ Exhausted(loaded.attempts + 1)
  <2>1. Rewritten(loaded, result) = Row("dead_letter", loaded.attempts + 1, FALSE)
      BY <1>4 DEF Rewritten
  <2>2. /\ Row("dead_letter", loaded.attempts + 1, FALSE) \in RowType
        /\ Row("dead_letter", loaded.attempts + 1, FALSE).status = "dead_letter"
        /\ Row("dead_letter", loaded.attempts + 1, FALSE).attempts = loaded.attempts + 1
      BY <1>1, RowRecord
  <2>3. QED BY <1>1, <1>4, <2>1, <2>2 DEF Exhausted
<1>5. CASE result = "refused" /\ ~Exhausted(loaded.attempts + 1)
  <2>1. Rewritten(loaded, result) = Row(loaded.status, loaded.attempts + 1, TRUE)
      BY <1>5 DEF Rewritten
  <2>2. /\ Row(loaded.status, loaded.attempts + 1, TRUE) \in RowType
        /\ Row(loaded.status, loaded.attempts + 1, TRUE).status = loaded.status
        /\ Row(loaded.status, loaded.attempts + 1, TRUE).attempts = loaded.attempts + 1
      BY <1>1, RowRecord
  <2>3. QED BY <1>1, <1>5, <2>1, <2>2
<1>6. QED BY <1>2, <1>3, <1>4, <1>5

LEMMA FlushedFacts ==
    ASSUME NEW loaded \in RowType, NEW new \in RowType, NEW now \in RowType
    PROVE  /\ Flushed(loaded, new, now) \in RowType
           /\ Flushed(loaded, new, now).status =
                 IF new.status = loaded.status THEN now.status ELSE new.status
           /\ Flushed(loaded, new, now).attempts \in {now.attempts, new.attempts}
           /\ loaded = now => /\ Flushed(loaded, new, now).status = new.status
                              /\ Flushed(loaded, new, now).attempts = new.attempts
BY DEF Flushed, RowType

LEMMA WriteKeeps ==
    ASSUME Inv, NEW r \in Retriers, Write(r)
    PROVE  Inv'
<1> DEFINE v == retrier[r]
<1>1. /\ v.at = "write" /\ RetrierOK(v) /\ v.loaded \in [Ids -> RowType]
      /\ v.todo \in SUBSET Ids /\ v.seen \in {"unread", "active", "inactive"}
      /\ v.result \in {"inactive", "accepted", "refused"}
      /\ UNCHANGED <<settings, endpoint, caller, dead, crashes, posts, accepted, blurred>>
  <2>1. RetrierOK(v) /\ v.loaded \in [Ids -> RowType] /\ v.at = "write"
        /\ v.todo \in SUBSET Ids /\ v.seen \in {"unread", "active", "inactive"}
      BY RecordFacts DEF Inv, Write
  <2>2. v.result \in {"inactive", "accepted", "refused"}
      BY <2>1 DEF RetrierOK, RetrierType
  <2>3. QED BY <2>1, <2>2 DEF Write, history
<1>2. PICK d \in Ids : d = v.id /\ d # NoId /\ d \notin v.todo
    BY <1>1, SettingsFacts DEF RetrierOK, Inv, Shape
<1>3. PICK w :
          /\ RetrierOK(w) /\ retrier' = [retrier EXCEPT ![r] = w]
          /\ w.id = NoId /\ w.at # "write" /\ w.result = "none" /\ w.todo \subseteq v.todo
          /\ \A e \in Ids : w.loaded[e] \in {v.loaded[e], NoRow}
          /\ \A e \in w.todo : w.loaded[e] = v.loaded[e]
  <2>1. CASE d \notin Existing \/ v.todo = {}
    <3>1. retrier' = [retrier EXCEPT ![r] = IdleRetrier]
        BY <1>2, <2>1 DEF Write
    <3>2. QED BY <3>1, IdleRecords
  <2>2. CASE d \in Existing /\ v.todo # {}
    <3>1. PICK loaded : loaded = [v.loaded EXCEPT ![d] = NoRow]
        OBVIOUS
    <3>2. loaded \in [Ids -> RowType] /\ loaded[d] = NoRow
          /\ \A e \in Ids \ {d} : loaded[e] = v.loaded[e]
        BY <1>1, <3>1, IdleRecords
    <3>3. PICK w : w = Round("batch", v.todo, loaded, v.seen, NoId, "none")
        OBVIOUS
    <3>4. /\ w \in RetrierType /\ w.at = "batch" /\ w.todo = v.todo /\ w.loaded = loaded
          /\ w.id = NoId /\ w.result = "none"
        BY <1>1, <3>2, <3>3 DEF Round, RetrierType
    <3>5. NoId \notin v.todo
        BY <1>1, SettingsFacts DEF Inv, Shape
    <3>6. RetrierOK(w)
        BY <3>4, <3>5 DEF RetrierOK
    <3>7. retrier' = [retrier EXCEPT ![r] = w]
        BY <1>2, <2>2, <3>1, <3>3 DEF Write
    <3>8. \A e \in w.todo : w.loaded[e] = v.loaded[e]
        BY <1>1, <1>2, <3>2, <3>4
    <3>9. QED BY <3>2, <3>4, <3>6, <3>7, <3>8
  <2>3. QED BY <2>1, <2>2
<1>4. /\ retrier'[r] = w /\ \A q \in Retriers \ {r} : retrier'[q] = retrier[q]
      /\ HeldBy(r)' = w.todo /\ \A q \in Retriers \ {r} : HeldBy(q)' = HeldBy(q)
      /\ \A q \in Retriers : HeldBy(q)' \subseteq HeldBy(q) /\ HeldBy(q) \subseteq Ids
      /\ \A q \in Retriers : \A e \in HeldBy(q)' : retrier'[q].loaded[e] = retrier[q].loaded[e]
      /\ \A q \in Retriers, e \in Ids : retrier'[q].loaded[e] \in {retrier[q].loaded[e], NoRow}
    BY <1>3, Release
<1>5. PICK new \in RowType : new = Rewritten(v.loaded[d], v.result)
    BY <1>1, RewrittenFacts DEF Inv
<1>6. /\ new.attempts = IF v.result = "inactive" THEN v.loaded[d].attempts
                        ELSE v.loaded[d].attempts + 1
      /\ v.result = "accepted" => new.status = "success"
      /\ v.result = "inactive" => new.status = "dead_letter"
      /\ v.result = "refused" => new.status \in {"dead_letter", v.loaded[d].status}
    BY <1>1, <1>5, RewrittenFacts DEF Inv
<1>7. PICK now \in RowType : now = Flushed(v.loaded[d], new, row[d])
    BY <1>1, FlushedFacts DEF Inv, Shape
<1>8. /\ now.status = IF new.status = v.loaded[d].status THEN row[d].status ELSE new.status
      /\ now.attempts \in {row[d].attempts, new.attempts}
      /\ v.loaded[d] = row[d] => now.status = new.status /\ now.attempts = new.attempts
    BY <1>1, <1>7, FlushedFacts DEF Inv, Shape
<1>9. /\ row' \in [Ids -> RowType] /\ \A e \in Ids \ {d} : row'[e] = row[e]
      /\ d \notin Existing => row'[d] = row[d]
      /\ d \in Existing => row'[d] = now
  <2>1. CASE d \in Existing
    <3>1. row' = [row EXCEPT ![d] = now]
        BY <1>2, <1>5, <1>7, <2>1 DEF Write, Inv, Shape
    <3>2. QED BY <2>1, <3>1, RowPut DEF Inv
  <2>2. CASE d \notin Existing
      BY <1>2, <2>2 DEF Write, Inv, Shape
  <2>3. QED BY <2>1, <2>2
<1>10. d \in HeldBy(r) /\ d \notin HeldBy(r)'
    BY <1>2, <1>3, <1>4 DEF HeldBy
<1>11. Shape'
  <2>1. crashes' \in 0..settings.kills /\ posts' \in [Ids -> Nat]
        /\ accepted' \in SUBSET Ids /\ blurred' \in SUBSET Ids
      BY <1>1 DEF Inv, Shape
  <2>2. UNCHANGED <<settings, endpoint, caller, dead>>
      BY <1>1
  <2>3. QED BY <1>3, <1>9, <2>1, <2>2, RetrierShape DEF Inv
<1>12. d \in Existing => now.status \in Present
  <2>1. v.result = "refused" => new.status = v.loaded[d].status \/ new.status = "dead_letter"
      BY <1>6
  <2>2. {"success", "dead_letter"} \subseteq Present
      BY DEF Present, Statuses
  <2>3. QED BY <1>1, <1>6, <1>8, <2>1, <2>2 DEF Existing
<1>13. Existing' = Existing /\ \A e \in Ids : row'[e].status = "absent" <=> row[e].status = "absent"
  <2>1. \A e \in Ids : row'[e].status \in Present <=> row[e].status \in Present
      BY <1>9, <1>12 DEF Existing
  <2>2. d \in Existing => now.status # "absent" /\ row[d].status # "absent"
      BY <1>12 DEF Existing, Present
  <2>3. \A e \in Ids : row'[e].status = "absent" <=> row[e].status = "absent"
      BY <1>9, <2>2
  <2>4. Existing' = Existing
      BY <2>1 DEF Existing
  <2>5. QED BY <2>3, <2>4
<1>14. Counted' /\ Kept'
  <2>1. new.attempts <= posts[d]
    <3>1. v.loaded[d].attempts <= posts[d]
        BY DEF Inv, Counted
    <3>2. v.result # "inactive" => v.loaded[d].attempts + 1 <= posts[d]
        BY <1>1, <1>2 DEF Inv, Counted
    <3>3. QED BY <1>6, <3>1, <3>2
  <2>2. \A e \in Ids : row[e].attempts <= posts[e]
      BY DEF Inv, Counted
  <2>3. \A e \in Ids : row'[e].attempts <= posts[e]
      BY <1>8, <1>9, <2>1, <2>2
  <2>4. \A e \in Ids : Entombed(e) => e # d
      BY <1>10 DEF Inv, Kept
  <2>5. \A e \in Ids : Entombed(e) => row'[e].status \in Buried
      BY <1>9, <2>4 DEF Inv, Kept
  <2>6. UNCHANGED <<posts, accepted, caller, dead>>
      BY <1>1
  <2>7. QED BY <1>3, <1>13, <2>3, <2>5, <2>6, ReleaseCounts
<1>15. ASSUME NEW e \in Ids \ blurred
       PROVE  /\ Alone(e)' /\ Fresh(e)'
              /\ \A c \in Callers : caller'[c].original = e => row'[e].status \in Buried
              /\ e \in Existing' => Told(e)'
  <2>1. Alone(e) /\ Fresh(e) /\ (e \in Existing => Told(e)) /\ e # NoId
        /\ \A c \in Callers : caller[c].original = e => row[e].status \in Buried
      BY SettingsFacts DEF Inv, Exact, Shape
  <2>2. \A q \in Retriers : retrier'[q].id = e => retrier'[q] = retrier[q] /\ q # r
      BY <1>3, <1>4, <2>1
  <2>3. Alone(e)'
      BY <1>4, <2>1 DEF Alone
  <2>4. CASE ~(e = d /\ d \in Existing)
    <3>1. row'[e] = row[e]
        BY <1>9, <2>4
    <3>2. Fresh(e)'
        BY <1>4, <2>1, <3>1 DEF Fresh
    <3>3. ASSUME e \in Existing
          PROVE  Told(e)'
      <4>1. e # d /\ Told(e)
          BY <2>1, <2>4, <3>3
      <4>2. \A q \in Retriers : retrier[q].id = e => q # r /\ retrier'[q] = retrier[q]
          BY <1>2, <1>4, <4>1
      <4>3. Reported(e)' <=> Reported(e)
          BY <2>2, <4>2 DEF Reported
      <4>4. QED BY <1>1, <2>2, <3>1, <4>1, <4>3 DEF Told
    <3>4. QED BY <1>1, <1>13, <2>1, <2>3, <3>1, <3>2, <3>3
  <2>5. CASE e = d /\ d \in Existing
    <3>1. row[d].status \in Open /\ v.loaded[d] = row[d]
        BY <1>10, <2>1, <2>5 DEF Fresh, Existing, Present
    <3>2. \A q \in Retriers : d \notin HeldBy(q)' /\ retrier'[q].id # d
      <4>1. \A q \in Retriers : d \notin HeldBy(q)'
          BY <1>4, <1>10, <2>1, <2>5 DEF Alone
      <4>2. \A q \in Retriers \ {r} : d \notin HeldBy(q)
          BY <1>10, <2>1, <2>5 DEF Alone
      <4>3. \A q \in Retriers : retrier'[q].id # d
          BY <1>2, <1>3, <1>4, <4>2 DEF HeldBy
      <4>4. QED BY <4>1, <4>3
    <3>3. now.status = new.status /\ now.attempts = new.attempts
        BY <1>8, <3>1
    <3>4. \/ v.result = "inactive" /\ v.loaded[d].attempts = posts[d] /\ d \notin accepted
          \/ /\ v.result \in {"accepted", "refused"} /\ v.loaded[d].attempts + 1 = posts[d]
             /\ d \in accepted <=> v.result = "accepted"
        BY <1>1, <1>2, <2>1, <2>5 DEF Told
    <3>5. now.attempts = posts[d]
        BY <1>6, <3>3, <3>4
    <3>6. now.status = "success" <=> d \in accepted
      <4>1. v.result = "refused" => new.status \in {"dead_letter", "pending", "failed"}
          BY <1>6, <3>1 DEF Open
      <4>2. QED BY <1>6, <3>3, <3>4, <4>1
    <3>7. Told(d)'
        BY <1>1, <1>9, <2>5, <3>2, <3>5, <3>6 DEF Told
    <3>8. Fresh(d)'
        BY <3>2 DEF Fresh
    <3>9. \A c \in Callers : caller[c].original # d
        BY <2>1, <2>5, <3>1 DEF Buried, Open
    <3>10. QED BY <1>1, <2>3, <2>5, <3>7, <3>8, <3>9
  <2>6. QED BY <2>4, <2>5
<1>16. Exact'
    BY <1>1, <1>15 DEF Exact
<1>17. QED BY <1>11, <1>14, <1>16 DEF Inv

LEMMA StandsStill ==
    ASSUME Inv, UNCHANGED vars
    PROVE  Inv'
<1>1. \A r : HeldBy(r)' = HeldBy(r)
    BY DEF HeldBy, vars
<1>2. Shape'
    BY DEF Inv, Shape, vars, dead, history, CallerOK, RetrierOK, RequestOK
<1>3. Counted'
    BY <1>1 DEF Inv, Counted, vars, history
<1>4. Kept'
    BY <1>1 DEF Inv, Kept, Entombed, vars, dead, Store!Captured
<1>5. Exact'
    BY <1>1 DEF Inv, Exact, Alone, Fresh, Told, Reported, Existing, vars, dead, history
<1>6. QED BY <1>2, <1>3, <1>4, <1>5 DEF Inv

LEMMA InvStart == Init => Inv
<1> SUFFICES ASSUME Init
             PROVE  Inv
    OBVIOUS
<1>1. NoRow \in RowType /\ NoRow.status = "absent" /\ NoRow.attempts = 0
      /\ RetrierOK(IdleRetrier) /\ CallerOK(IdleCaller)
      /\ IdleRetrier.todo = {} /\ IdleRetrier.id = NoId /\ IdleRetrier.result = "none"
      /\ IdleCaller.at = "idle" /\ IdleCaller.original = NoId
      /\ \A d \in Ids : IdleRetrier.loaded[d] = NoRow
    BY IdleRecords
<1>2. settings.kills \in Nat /\ NoId \notin Ids
    BY SettingsFacts DEF Init
<1>3. /\ entry \in [Ids -> Store!EntryType]
      /\ request \in [Operators -> Store!RequestType]
      /\ \A o \in Operators : RequestOK(request[o]) /\ request[o] = Store!NoRequest
      /\ \A d \in Ids : ~Store!Captured(d)
  <2>1. Store!NoEntry \in Store!EntryType /\ Store!NoEntry.status = "absent"
      BY DEF Store!NoEntry, Store!EntryType, Store!EntryStatuses
  <2>2. Store!NoRequest \in Store!RequestType /\ RequestOK(Store!NoRequest)
      BY <2>1 DEF Store!NoRequest, Store!RequestType, RequestOK
  <2>3. QED BY <2>1, <2>2 DEF Init, Store!DeadLetterInit, Store!Captured
<1>4. Shape
    BY <1>1, <1>2, <1>3 DEF Init, Shape, Endpoints, CallerOK, RetrierOK
<1>5. \A r \in Retriers : HeldBy(r) = {}
    BY <1>1 DEF Init, HeldBy
<1>6. Counted
    BY <1>1, <1>5 DEF Init, Counted
<1>7. Kept
    BY <1>1, <1>3, <1>5 DEF Init, Kept, Entombed
<1>8. Existing = {}
    BY <1>1 DEF Init, Existing, Present
<1>9. Exact
    BY <1>1, <1>2, <1>5, <1>8 DEF Init, Exact, Alone, Fresh
<1>10. QED BY <1>4, <1>6, <1>7, <1>9 DEF Inv

LEMMA InvNext == Inv /\ [Next]_vars => Inv'
<1> SUFFICES ASSUME Inv, [Next]_vars
             PROVE  Inv'
    OBVIOUS
<1>1. CASE UNCHANGED vars
    BY <1>1, StandsStill
<1>2. ASSUME NEW c \in Callers, Trigger(c) \/ SendTest(c)
      PROVE  Inv'
    BY <1>2, StartKeeps DEF Trigger, SendTest
<1>3. ASSUME NEW c \in Callers, NEW d \in Ids, Replay(c, d)
      PROVE  Inv'
    BY <1>3, StartKeeps DEF Replay, Buried
<1>4. ASSUME NEW c \in Callers, Queue(c)
      PROVE  Inv'
    BY <1>4, QueueKeeps
<1>5. ASSUME NEW c \in Callers, CallerStep(c)
      PROVE  Inv'
    BY <1>5, PostKeeps, InsertKeeps, CaptureKeeps, PruneKeeps, MarkKeeps DEF CallerStep
<1>6. ASSUME NEW c \in Callers, CrashCaller(c)
      PROVE  Inv'
    BY <1>6, CrashCallerKeeps
<1>7. ASSUME NEW r \in Retriers, RetrierStep(r)
      PROVE  Inv'
    BY <1>7, SelectKeeps, TakeKeeps, RepostKeeps, WriteKeeps DEF RetrierStep
<1>8. ASSUME NEW r \in Retriers, CrashRetrier(r)
      PROVE  Inv'
    BY <1>8, CrashRetrierKeeps
<1>9. Toggle \/ Delete \/ ChangeKey \/ Handle => Inv'
    BY SwitchKeeps, DeleteKeeps, HandleKeeps
<1>10. QED BY <1>1, <1>2, <1>3, <1>4, <1>5, <1>6, <1>7, <1>8, <1>9 DEF Next

-----------------------------------------------------------------------------
(* What the invariant says of one step.                                    *)
LEMMA RowSteps ==
    ASSUME [Next]_vars
    PROVE  \/ UNCHANGED row
           \/ \E c \in Callers : Queue(c) \/ Insert(c) \/ Prune(c) \/ Mark(c)
           \/ \E r \in Retriers : Write(r)
           \/ Delete
<1>1. CASE UNCHANGED vars
    BY <1>1 DEF vars
<1>2. ASSUME NEW c \in Callers, NEW d \in Ids \cup {NoId}, Start(c, d)
      PROVE  UNCHANGED row
    BY <1>2 DEF Start
<1>3. ASSUME NEW c \in Callers, Trigger(c) \/ SendTest(c) \/ (\E d \in Ids : Replay(c, d))
      PROVE  UNCHANGED row
    BY <1>2, <1>3 DEF Trigger, SendTest, Replay
<1>4. ASSUME NEW c \in Callers, CallerStep(c) \/ CrashCaller(c)
      PROVE  UNCHANGED row \/ Insert(c) \/ Prune(c) \/ Mark(c)
    BY <1>4 DEF CallerStep, CrashCaller, Post, Capture
<1>5. ASSUME NEW r \in Retriers, RetrierStep(r) \/ CrashRetrier(r)
      PROVE  UNCHANGED row \/ Write(r)
    BY <1>5 DEF RetrierStep, CrashRetrier, Select, Take, Repost
<1>6. ASSUME Toggle \/ Delete \/ ChangeKey \/ Handle
      PROVE  UNCHANGED row \/ Delete
    BY <1>6 DEF Toggle, ChangeKey, Handle
<1>7. QED BY <1>1, <1>3, <1>4, <1>5, <1>6 DEF Next

(* The row a loop writes: it is the one the loop is on, and its status is  *)
(* kept, or a success, or given up for a reason.                           *)
LEMMA WrittenRow ==
    ASSUME Inv, NEW r \in Retriers, Write(r), NEW d \in Ids, row'[d] # row[d]
    PROVE  /\ retrier[r].id = d
           /\ row'[d].status \in {row[d].status, "success", "dead_letter"}
           /\ row'[d].status = "dead_letter" /\ row[d].status # "dead_letter" =>
                 retrier[r].result = "inactive" \/ posts[d] >= settings.maxRetries
<1> DEFINE v == retrier[r]
<1>1. /\ v.at = "write" /\ RetrierOK(v) /\ v.loaded \in [Ids -> RowType]
      /\ v.result \in {"inactive", "accepted", "refused"} /\ v.id \in Ids
  <2>1. RetrierOK(v) /\ v.loaded \in [Ids -> RowType] /\ v.at = "write"
      BY RecordFacts DEF Inv, Write
  <2>2. QED BY <2>1 DEF RetrierOK, RetrierType
<1>2. d = v.id /\ d \in Existing
    BY <1>1 DEF Write, Inv, Shape
<1>3. PICK new \in RowType : new = Rewritten(v.loaded[d], v.result)
    BY <1>1, RewrittenFacts DEF Inv
<1>4. /\ v.result = "accepted" => new.status = "success"
      /\ v.result = "inactive" => new.status = "dead_letter"
      /\ v.result = "refused" =>
            /\ new.status \in {"dead_letter", v.loaded[d].status}
            /\ new.status # v.loaded[d].status =>
                  v.loaded[d].attempts + 1 >= settings.maxRetries
    BY <1>1, <1>3, RewrittenFacts DEF Inv
<1>5. row'[d] = Flushed(v.loaded[d], new, row[d])
    BY <1>2, <1>3 DEF Write, Inv, Shape
<1>6. row'[d].status = IF new.status = v.loaded[d].status THEN row[d].status ELSE new.status
    BY <1>1, <1>5, FlushedFacts DEF Inv, Shape
<1>7. row'[d].status \in {row[d].status, "success", "dead_letter"}
    BY <1>1, <1>4, <1>6
<1>8. v.result = "refused" => v.loaded[d].attempts + 1 <= posts[d]
    BY <1>2 DEF Inv, Counted
<1>9. ASSUME row'[d].status = "dead_letter", row[d].status # "dead_letter",
             v.result # "inactive"
      PROVE  posts[d] >= settings.maxRetries
  <2>1. new.status = "dead_letter" /\ new.status # v.loaded[d].status
      BY <1>6, <1>9
  <2>2. v.result = "refused"
      BY <1>1, <1>4, <1>9, <2>1
  <2>3. v.loaded[d].attempts \in Nat /\ posts[d] \in Nat /\ settings.maxRetries \in Nat
      BY <1>1, RecordFacts, SettingsFacts DEF RowType, Inv, Shape
  <2>4. QED BY <1>4, <1>8, <2>1, <2>2, <2>3
<1>10. QED BY <1>2, <1>7, <1>9

(* A dispatch: what a row becomes.                                         *)
LEMMA OtherRows ==
    ASSUME Inv, NEW c \in Callers, Queue(c) \/ Insert(c) \/ Prune(c) \/ Mark(c),
           NEW d \in Ids, row'[d] # row[d]
    PROVE  \/ row[d].status = "absent" /\ row'[d].status = "pending"
           \/ /\ row[d].status = "absent" /\ Insert(c)
              /\ row'[d].status = Verdict(caller[c].tries, caller[c].ok).status
              /\ posts'[d] = caller[c].tries
           \/ row'[d].status \in {"deleted", "replayed"}
<1>1. CASE Queue(c)
  <2>1. PICK e \in Ids : NextId(e) /\ row' = [row EXCEPT ![e] = Row("pending", 0, FALSE)]
      BY <1>1 DEF Queue
  <2>2. Row("pending", 0, FALSE).status = "pending"
      BY DEF Row
  <2>3. QED BY <2>1, <2>2 DEF NextId, Unused, Inv, Shape
<1>2. CASE Insert(c)
  <2> DEFINE v == Verdict(caller[c].tries, caller[c].ok)
  <2>1. PICK e \in Ids : /\ NextId(e)
                         /\ row' = [row EXCEPT ![e] = Row(v.status, caller[c].tries, v.scheduled)]
                         /\ posts' = [posts EXCEPT ![e] = caller[c].tries]
      BY <1>2 DEF Insert
  <2>2. Row(v.status, caller[c].tries, v.scheduled).status = v.status
      BY DEF Row
  <2>3. QED BY <1>2, <2>1, <2>2 DEF NextId, Unused, Inv, Shape
<1>3. CASE Prune(c)
  <2>1. PICK D : D \subseteq Existing /\ row' = Deleted(D)
      BY <1>3 DEF Prune, Pruned
  <2>2. QED BY <2>1, DeletedRows DEF Inv
<1>4. CASE Mark(c)
    BY <1>4 DEF Mark, Existing, Inv, Shape, RowType
<1>5. QED BY <1>1, <1>2, <1>3, <1>4

LEMMA DeletedRow ==
    ASSUME Inv, Delete, NEW d \in Ids, row'[d] # row[d]
    PROVE  row'[d].status = "deleted"
<1>1. row' = Deleted(Existing)
    BY DEF Delete
<1>2. QED BY <1>1, DeletedRows DEF Inv

LEMMA GivenUpStep ==
    ASSUME Inv, [Next]_vars, NEW d \in Ids,
           row[d].status # "dead_letter", row'[d].status = "dead_letter"
    PROVE  \/ posts'[d] >= settings.maxRetries
           \/ \E r \in Retriers : retrier[r].id = d /\ retrier[r].result = "inactive"
<1>1. row'[d] # row[d]
    OBVIOUS
<1>2. CASE Delete
    BY <1>1, <1>2, DeletedRow
<1>3. ASSUME NEW c \in Callers, Queue(c) \/ Insert(c) \/ Prune(c) \/ Mark(c)
      PROVE  posts'[d] >= settings.maxRetries
  <2>1. /\ row'[d].status = Verdict(caller[c].tries, caller[c].ok).status
        /\ posts'[d] = caller[c].tries
      BY <1>1, <1>3, OtherRows
  <2>2. Verdict(caller[c].tries, caller[c].ok).status = "dead_letter" =>
            ~(caller[c].tries < settings.maxRetries)
      BY DEF Verdict
  <2>3. caller[c].tries \in Nat /\ settings.maxRetries \in Nat
      BY RecordFacts, SettingsFacts DEF Inv, Shape
  <2>4. QED BY <2>1, <2>2, <2>3
<1>4. ASSUME NEW r \in Retriers, Write(r)
      PROVE  \/ posts'[d] >= settings.maxRetries
             \/ retrier[r].id = d /\ retrier[r].result = "inactive"
  <2>1. UNCHANGED posts
      BY <1>4 DEF Write, history
  <2>2. QED BY <1>1, <1>4, <2>1, WrittenRow
<1>5. QED BY <1>1, <1>2, <1>3, <1>4, RowSteps

LEMMA NotReopenedStep ==
    ASSUME Inv, [Next]_vars, NEW d \in Ids, row[d].status \notin Open \cup {"absent"}
    PROVE  row'[d].status \notin Open
<1>1. CASE row'[d] = row[d]
    BY <1>1
<1>2. CASE row'[d] # row[d]
  <2>1. CASE Delete
      BY <1>2, <2>1, DeletedRow DEF Open
  <2>2. ASSUME NEW c \in Callers, Queue(c) \/ Insert(c) \/ Prune(c) \/ Mark(c)
        PROVE  row'[d].status \notin Open
      BY <1>2, <2>2, OtherRows DEF Open
  <2>3. ASSUME NEW r \in Retriers, Write(r)
        PROVE  row'[d].status \notin Open
    <3>1. row'[d].status \in {row[d].status, "success", "dead_letter"}
        BY <1>2, <2>3, WrittenRow
    <3>2. QED BY <3>1 DEF Open
  <2>4. QED BY <1>2, <2>1, <2>2, <2>3, RowSteps
<1>3. QED BY <1>1, <1>2

(* A step of the dead-letter store, or of anything else.                   *)
LEMMA EntrySteps ==
    ASSUME [Next]_vars
    PROVE  \/ UNCHANGED entry
           \/ \E c \in Callers : Store!CaptureFailure(caller[c].id) /\ caller[c].at = "capture"
           \/ \E o \in Operators : Store!Save(o)
<1>1. CASE UNCHANGED vars
    BY <1>1 DEF vars, dead
<1>2. ASSUME NEW c \in Callers, NEW d \in Ids \cup {NoId}, Start(c, d)
      PROVE  UNCHANGED entry
    BY <1>2 DEF Start, dead
<1>3. ASSUME NEW c \in Callers,
             Trigger(c) \/ SendTest(c) \/ Queue(c) \/ (\E d \in Ids : Replay(c, d))
      PROVE  UNCHANGED entry
    BY <1>2, <1>3 DEF Trigger, SendTest, Replay, Queue, dead
<1>4. ASSUME NEW c \in Callers, CallerStep(c) \/ CrashCaller(c)
      PROVE  UNCHANGED entry \/ (Store!CaptureFailure(caller[c].id) /\ caller[c].at = "capture")
    BY <1>4 DEF CallerStep, CrashCaller, Post, Insert, Capture, Prune, Mark, dead
<1>5. ASSUME NEW r \in Retriers, RetrierStep(r) \/ CrashRetrier(r)
      PROVE  UNCHANGED entry
    BY <1>5 DEF RetrierStep, CrashRetrier, Select, Take, Repost, Write, dead
<1>6. ASSUME Toggle \/ Delete \/ ChangeKey
      PROVE  UNCHANGED entry
    BY <1>6 DEF Toggle, Delete, ChangeKey, dead
<1>7. ASSUME Handle
      PROVE  UNCHANGED entry \/ (\E o \in Operators : Store!Save(o))
    BY <1>7 DEF Handle, Store!DeadLetterNext, Store!Load
<1>8. QED BY <1>1, <1>3, <1>4, <1>5, <1>6, <1>7 DEF Next

LEMMA EntryStep ==
    ASSUME Inv, [Next]_vars, NEW s \in Ids,
           entry[s].status \in Store!Terminal, entry'[s].status \notin Store!Terminal
    PROVE  \E o \in Operators : /\ request[o].on = s /\ request[o].act = "retry"
                                /\ request[o].seen.status = "pending"
<1>1. entry'[s] # entry[s]
    OBVIOUS
<1>2. ASSUME NEW c \in Callers, Store!CaptureFailure(caller[c].id), caller[c].at = "capture"
      PROVE  FALSE
  <2>1. caller[c].id \in Ids
      BY <1>2, RecordFacts DEF Inv, CallerOK
  <2>2. QED BY <1>1, <1>2, <2>1 DEF Store!CaptureFailure, Store!Captured, Store!Terminal, Inv, Shape
<1>3. ASSUME NEW o \in Operators, Store!Save(o)
      PROVE  /\ request[o].on = s /\ request[o].act = "retry"
             /\ request[o].seen.status = "pending"
  <2>1. /\ request[o] # Store!NoRequest /\ RequestOK(request[o])
        /\ entry' = [entry EXCEPT ![request[o].on] =
              Store!Merged(request[o].seen, Store!Outcome(request[o].act), entry[request[o].on])]
      BY <1>3 DEF Store!Save, Inv, Shape
  <2>2. /\ request[o].on \in Ids /\ request[o].act \in {"retry", "resolve", "archive"}
        /\ request[o].act = "retry" => request[o].seen.status \in {"pending", "retrying"}
      BY <2>1 DEF RequestOK, Store!Requests
  <2>3. request[o].on = s
      BY <1>1, <2>1, <2>2 DEF Inv, Shape
  <2>4. entry'[s].status = IF Store!Outcome(request[o].act).status = request[o].seen.status
                           THEN entry[s].status
                           ELSE Store!Outcome(request[o].act).status
    <3>1. entry'[s] = Store!Merged(request[o].seen, Store!Outcome(request[o].act), entry[s])
        BY <2>1, <2>3 DEF Inv, Shape
    <3>2. QED BY <3>1 DEF Store!Merged
  <2>5. Store!Outcome(request[o].act).status =
            CASE request[o].act = "retry" -> "retrying"
              [] request[o].act = "resolve" -> "resolved"
              [] request[o].act = "archive" -> "archived"
      BY <2>2 DEF Store!Outcome
  <2>6. request[o].act = "retry"
      BY <2>2, <2>4, <2>5 DEF Store!Terminal
  <2>7. request[o].seen.status = "pending"
      BY <2>2, <2>4, <2>5, <2>6
  <2>8. QED BY <2>3, <2>6, <2>7
<1>4. QED BY <1>1, <1>2, <1>3, EntrySteps

-----------------------------------------------------------------------------
(* The invariant holds in every state, whatever the loops hold.            *)
THEOREM Invariance == Spec => []Inv
<1>1. Init => Inv
    BY InvStart
<1>2. Inv /\ [Next]_vars => Inv'
    BY InvNext
<1>3. QED BY <1>1, <1>2, PTL DEF Spec

(* The type invariant of the deliveries, the loops and the dead-letter     *)
(* store.                                                                  *)
THEOREM TypeCorrect == Spec => []TypeOK
<1>1. Inv => TypeOK
    BY DEF Inv, Shape, TypeOK, Store!DeadLetterTypeOK
<1>2. QED BY <1>1, Invariance, PTL

(* Where no two loops held a delivery at once and none was killed after an *)
(* attempt, its row counts the attempts, each a POST or a refusal of the   *)
(* URL, and is a success exactly if the receiver accepted it               *)
(* (retry_failed_deliveries).                                              *)
THEOREM RowsAreTrue == Spec => []RowIsTrue
<1>1. Inv => RowIsTrue
    BY DEF Inv, Exact, Told, RowIsTrue, Existing
<1>2. QED BY <1>1, Invariance, PTL

(* The dead-letter store holds entries only of deliveries that were given  *)
(* up, whatever loops, replays and deletions do later.                     *)
THEOREM DeadLettersOnly == Spec => []EntryIsOfDeadLetter
<1>1. Inv => EntryIsOfDeadLetter
    BY DEF Inv, Kept, Entombed, Buried, EntryIsOfDeadLetter
<1>2. QED BY <1>1, Invariance, PTL

(* A delivery is given up only after max_retries attempts, or by a loop    *)
(* that found its endpoint inactive, however loops overlap, are killed or  *)
(* break their batch off because the secret cannot be decrypted.           *)
THEOREM GivenUp == Spec => GivenUpOnlyExhausted
<1> DEFINE A == \A d \in Ids :
          row[d].status # "dead_letter" /\ row'[d].status = "dead_letter"
              => \/ posts'[d] >= settings.maxRetries
                 \/ \E r \in Retriers : retrier[r].id = d /\ retrier[r].result = "inactive"
<1>1. Inv /\ [Next]_vars => [A]_vars
    BY GivenUpStep
<1> HIDE DEF A
<1>2. Spec => [][A]_vars
    BY <1>1, Invariance, PTL DEF Spec
<1>3. QED BY <1>2 DEF A, GivenUpOnlyExhausted

(* A delivery that succeeded, was given up, replayed or deleted is never   *)
(* open again, although loops write back rows loaded long before.          *)
THEOREM NeverReopens == Spec => NeverReopened
<1> DEFINE A == \A d \in Ids :
          row[d].status \notin Open \cup {"absent"} => row'[d].status \notin Open
<1>1. Inv /\ [Next]_vars => [A]_vars
    BY NotReopenedStep
<1> HIDE DEF A
<1>2. Spec => [][A]_vars
    BY <1>1, Invariance, PTL DEF Spec
<1>3. QED BY <1>2 DEF A, NeverReopened

(* A resolved or archived entry is taken up again only by a first retry    *)
(* whose SELECT came before the resolution.                                *)
THEOREM Reopened == Spec => ReopenedOnlyByFirstRetry
<1> DEFINE A == \A s \in Ids :
          entry[s].status \in Store!Terminal /\ entry'[s].status \notin Store!Terminal
              => \E o \in Operators :
                    request[o].on = s /\ request[o].act = "retry"
                        /\ request[o].seen.status = "pending"
<1>1. Inv /\ [Next]_vars => [A]_(Store!deadVars)
    BY EntryStep
<1> HIDE DEF A
<1>2. Spec => [][A]_(Store!deadVars)
    BY <1>1, Invariance, PTL DEF Spec
<1>3. QED BY <1>2 DEF A, ReopenedOnlyByFirstRetry, Store!ReopenedOnlyByFirstRetry

=============================================================================
