-------------------------- MODULE WebhookDelivery --------------------------
(***************************************************************************)
(* Outgoing webhooks.  A request handler dispatches an event to an         *)
(* endpoint inline, or queues it; the rows that are not delivered yet are  *)
(* retried by two loops, the scheduler and the webhook worker, which share *)
(* nothing but the table and claim nothing.  A delivery the dispatch gives *)
(* up is captured in the dead-letter store, and may be replayed as a new   *)
(* delivery.  One endpoint is modelled; rows get their ids in the order in *)
(* which they are inserted.                                                *)
(*                                                                         *)
(* A retry loop works on the rows its SELECT loaded: the session does not  *)
(* expire them at commit, and an UPDATE writes only the columns that       *)
(* differ from what was loaded, and fails if the row is gone.              *)
(*                                                                         *)
(* The endpoint's secret is decrypted before an attempt is counted.  Where *)
(* that fails, for a value that is corrupt or a TOKEN_ENCRYPTION_KEY that  *)
(* is not the one it was encrypted with, decrypt_token raises out of the   *)
(* dispatch and out of the whole batch of a retry loop.                    *)
(***************************************************************************)
EXTENDS Naturals, FiniteSets

CONSTANTS
    MaxId,          \* bound: deliveries inserted
    Callers,        \* request handlers that dispatch webhooks
    Retriers,       \* processes that run retry_failed_deliveries
    Operators,      \* requests on the dead-letter store
    Deployments,    \* settings a deployment may have, and as a bound the
                    \* number of times a process is killed in it
    Batch,          \* LIMIT of the retry SELECT, 50 in the code
    Keep,           \* _MAX_DELIVERIES_PER_ENDPOINT, 100 in the code
    NoId

Ids == 1..MaxId

ASSUME WebhookAssumption ==
    /\ {MaxId, Batch, Keep} \subseteq Nat \ {0}
    /\ Deployments \subseteq [asyncOnly : BOOLEAN, maxAttempts : Nat \ {0},
                             maxRetries : Nat \ {0}, kills : Nat]
    /\ NoId \notin Ids

VARIABLES
    settings,       \* WEBHOOK_ASYNC_DISPATCH_ONLY, WEBHOOK_DELIVERY_MAX_ATTEMPTS
                    \* and the endpoint's max_retry_attempts
    endpoint,       \* the endpoint: active with a secret that can be decrypted,
                    \* active with an unreadable one, inactive, deleted
    row,            \* webhook_deliveries, by id
    caller,         \* what each request handler is doing
    retrier,        \* what each retry loop is doing
    entry, request, \* the dead-letter store, an entry for each delivery
    crashes,        \* processes killed so far
    posts,          \* history: attempts made for each delivery, each a POST or
                    \* a refusal of its URL by _validate_url
    accepted,       \* history: deliveries the receiver answered with 2xx
    blurred         \* history: deliveries handled twice at once, or whose
                    \* attempt was forgotten by a process that was killed

dead    == <<entry, request>>
history == <<posts, accepted, blurred>>
vars == <<settings, endpoint, row, caller, retrier, dead, crashes, history>>

Store == INSTANCE DeadLetterStore WITH Sources <- Ids, NoSource <- NoId

Statuses == {"absent", "pending", "failed", "success", "dead_letter", "replayed", "deleted"}
Open     == {"pending", "failed"}
Present  == Statuses \ {"absent", "deleted"}

Endpoints == {"active", "unreadable", "inactive", "deleted"}

(* scheduled: next_retry_at is set; how soon it is reached is left open.   *)
RowType == [status : Statuses, attempts : Nat, scheduled : BOOLEAN]

CallerType ==
    [at : {"idle", "post", "insert", "capture", "prune", "mark"},
     id : Ids \cup {NoId},          \* the row it has inserted
     tries : Nat, ok : BOOLEAN,
     original : Ids \cup {NoId}]    \* the dead letter it replays

RetrierType ==
    [at : {"idle", "batch", "post", "write"},
     todo : SUBSET Ids, loaded : [Ids -> RowType],
     seen : {"unread", "active", "inactive"},     \* the endpoint, as first read
     id : Ids \cup {NoId},
     result : {"none", "inactive", "accepted", "refused"}]

Row(status, n, scheduled) == [status |-> status, attempts |-> n, scheduled |-> scheduled]

Dispatch(at, d, n, ok, original) ==
    [at |-> at, id |-> d, tries |-> n, ok |-> ok, original |-> original]

Round(at, todo, loaded, seen, d, result) ==
    [at |-> at, todo |-> todo, loaded |-> loaded, seen |-> seen, id |-> d, result |-> result]

NoRow       == Row("absent", 0, FALSE)
IdleCaller  == Dispatch("idle", NoId, 0, FALSE, NoId)
IdleRetrier == Round("idle", {}, [d \in Ids |-> NoRow], "unread", NoId, "none")

TypeOK ==
    /\ settings \in Deployments
    /\ endpoint \in Endpoints
    /\ row \in [Ids -> RowType]
    /\ caller \in [Callers -> CallerType]
    /\ retrier \in [Retriers -> RetrierType]
    /\ Store!DeadLetterTypeOK
    /\ crashes \in 0..settings.kills
    /\ posts \in [Ids -> Nat]
    /\ accepted \in SUBSET Ids
    /\ blurred \in SUBSET Ids

Init ==
    /\ settings \in Deployments
    /\ endpoint = "active"
    /\ row = [d \in Ids |-> NoRow]
    /\ caller = [c \in Callers |-> IdleCaller]
    /\ retrier = [r \in Retriers |-> IdleRetrier]
    /\ Store!DeadLetterInit
    /\ crashes = 0
    /\ posts = [d \in Ids |-> 0]
    /\ accepted = {}
    /\ blurred = {}

-----------------------------------------------------------------------------
(* Dispatch: trigger_org_webhooks, send_test_webhook and                   *)
(* replay_dead_letter_delivery.  Without the secret they end before they   *)
(* have done anything; queueing needs no secret.  The test looks at no     *)
(* more than whether the endpoint exists.                                  *)
Unused == {d \in Ids : row[d].status = "absent"}
NextId(d) == d \in Unused /\ \A e \in Unused : d <= e
Existing == {d \in Ids : row[d].status \in Present}

(* Every dispatch under way, and no other, will need an id (a bound).      *)
Room == Cardinality({c \in Callers : caller[c].at \in {"post", "insert"}})
            < Cardinality(Unused)

Start(c, original) ==
    /\ caller[c].at = "idle"
    /\ Room
    /\ caller' = [caller EXCEPT ![c] = Dispatch("post", NoId, 0, FALSE, original)]
    /\ UNCHANGED <<settings, endpoint, row, retrier, dead, crashes, history>>

Trigger(c)  == endpoint = "active" /\ ~settings.asyncOnly /\ Start(c, NoId)
SendTest(c) == endpoint \in {"active", "inactive"} /\ Start(c, NoId)

Replay(c, d) == /\ row[d].status = "dead_letter"
                /\ endpoint = "active"
                /\ Start(c, d)

(* _queue_pending_delivery: the row is committed before anything is sent.  *)
Queue(c) ==
    /\ settings.asyncOnly
    /\ endpoint \in {"active", "unreadable"}
    /\ caller[c].at = "idle"
    /\ Room
    /\ \E d \in Ids :
       /\ NextId(d)
       /\ row' = [row EXCEPT ![d] = Row("pending", 0, FALSE)]
       /\ caller' = [caller EXCEPT ![c] = Dispatch("prune", d, 0, FALSE, NoId)]
    /\ UNCHANGED <<settings, endpoint, retrier, dead, crashes, history>>

(* One inline attempt, of at most maxAttempts, a POST or a refusal of the  *)
(* URL; the row is in the session only, so what they do is known to no     *)
(* other process.                                                          *)
Post(c, ok) ==
    /\ caller[c].at = "post"
    /\ LET n == caller[c].tries + 1
           last == ok \/ n = settings.maxAttempts IN
       caller' = [caller EXCEPT ![c] =
           Dispatch(IF last THEN "insert" ELSE "post", NoId, n, ok, caller[c].original)]
    /\ UNCHANGED <<settings, endpoint, row, retrier, dead, crashes, history>>

(* What a dispatch makes of its row after n attempts.  With a single       *)
(* attempt it never gives up, but schedules nothing either once n has      *)
(* reached max_retries.                                                    *)
Verdict(n, ok) ==
    [status    |-> IF ok THEN "success"
                   ELSE IF n < settings.maxRetries \/ settings.maxAttempts = 1 THEN "failed"
                   ELSE "dead_letter",
     scheduled |-> ~ok /\ n < settings.maxRetries]

(* The commit that inserts the row; if the endpoint has been deleted in    *)
(* the meantime, the foreign key refuses it and the dispatch ends there.   *)
Insert(c) ==
    LET k == caller[c]  v == Verdict(k.tries, k.ok) IN
    /\ k.at = "insert"
    /\ \/ /\ endpoint = "deleted"
          /\ caller' = [caller EXCEPT ![c] = IdleCaller]
          /\ UNCHANGED <<row, history>>
       \/ \E d \in Ids :
          /\ endpoint # "deleted" /\ NextId(d)
          /\ row' = [row EXCEPT ![d] = Row(v.status, k.tries, v.scheduled)]
          /\ posts' = [posts EXCEPT ![d] = k.tries]
          /\ accepted' = IF k.ok THEN accepted \cup {d} ELSE accepted
          /\ caller' = [caller EXCEPT ![c] =
                Dispatch(IF v.status = "dead_letter" THEN "capture" ELSE "prune",
                         d, k.tries, k.ok, k.original)]
          /\ UNCHANGED blurred
    /\ UNCHANGED <<settings, endpoint, retrier, dead, crashes>>

(* capture_failure swallows its own errors.                                *)
Capture(c) ==
    /\ caller[c].at = "capture"
    /\ Store!CaptureFailure(caller[c].id) \/ UNCHANGED entry
    /\ caller' = [caller EXCEPT ![c].at = "prune"]
    /\ UNCHANGED <<settings, endpoint, row, retrier, request, crashes, history>>

(* _prune_old_deliveries: all but the newest, whatever their status.       *)
Pruned == {d \in Existing : Cardinality({e \in Existing : e > d}) >= Keep}

Deleted(D) == [d \in Ids |-> IF d \in D THEN Row("deleted", 0, FALSE) ELSE row[d]]

Prune(c) ==
    /\ caller[c].at = "prune"
    /\ row' = Deleted(Pruned)
    /\ caller' = [caller EXCEPT
                    ![c] = IF @.original = NoId THEN IdleCaller ELSE [@ EXCEPT !.at = "mark"]]
    /\ UNCHANGED <<settings, endpoint, retrier, dead, crashes, history>>

(* The original of a replay, unless it has been deleted by now.            *)
Mark(c) ==
    LET d == caller[c].original IN
    /\ caller[c].at = "mark"
    /\ row' = IF d \in Existing THEN [row EXCEPT ![d].status = "replayed"] ELSE row
    /\ caller' = [caller EXCEPT ![c] = IdleCaller]
    /\ UNCHANGED <<settings, endpoint, retrier, dead, crashes, history>>

-----------------------------------------------------------------------------
(* retry_failed_deliveries.                                                *)
(* Mutant of Due: queued rows are never retried.                           *)
DuePendingLost(d) == row[d].status = "failed" /\ row[d].scheduled

Due(d) == row[d].status = "pending" \/ (row[d].status = "failed" /\ row[d].scheduled)

HeldBy(r) == retrier[r].todo \cup ({retrier[r].id} \ {NoId})

Select(r, S) ==
    /\ retrier[r].at = "idle"
    /\ S # {} /\ \A d \in S : Due(d)
    /\ Cardinality(S) = Batch \/ (Cardinality(S) < Batch /\ \A d \in Ids : Due(d) => d \in S)
    /\ retrier' = [retrier EXCEPT ![r] =
          Round("batch", S, [d \in Ids |-> IF d \in S THEN row[d] ELSE NoRow],
                "unread", NoId, "none")]
    /\ blurred' = blurred \cup (S \cap UNION {HeldBy(q) : q \in Retriers})
    /\ UNCHANGED <<settings, endpoint, row, caller, dead, crashes, posts, accepted>>

(* The next row of the batch and its endpoint: the session keeps the       *)
(* endpoint it read first, secret and all, but notices that it is gone.    *)
(* Without the secret the batch ends, this row uncounted and the rest of   *)
(* them untouched.                                                         *)
Take(r, d) ==
    LET w    == retrier[r]
        seen == IF w.seen = "unread" THEN endpoint ELSE w.seen
        live == endpoint # "deleted" /\ seen = "active" IN
    /\ w.at = "batch"
    /\ d \in w.todo
    /\ retrier' = [retrier EXCEPT ![r] =
          IF seen = "unreadable" THEN IdleRetrier
          ELSE Round(IF live THEN "post" ELSE "write", w.todo \ {d}, w.loaded,
                     IF endpoint = "deleted" THEN w.seen ELSE seen, d,
                     IF live THEN "none" ELSE "inactive")]
    /\ UNCHANGED <<settings, endpoint, row, caller, dead, crashes, history>>

Repost(r, ok) ==
    LET w == retrier[r]  d == w.id IN
    /\ w.at = "post"
    /\ posts' = [posts EXCEPT ![d] = @ + 1]
    /\ accepted' = IF ok THEN accepted \cup {d} ELSE accepted
    /\ retrier' = [retrier EXCEPT ![r] =
          Round("write", w.todo, w.loaded, w.seen, d, IF ok THEN "accepted" ELSE "refused")]
    /\ UNCHANGED <<settings, endpoint, row, caller, dead, crashes, blurred>>

ExhaustedEarly(n) == n >= settings.maxRetries - 1

Exhausted(n) == n >= settings.maxRetries

(* Mutant of Rewritten: only a refused attempt is counted.                 *)
RewrittenUncounted(loaded, result) ==
    CASE result = "inactive" -> Row("dead_letter", loaded.attempts, FALSE)
      [] result = "accepted" -> Row("success", loaded.attempts, FALSE)
      [] OTHER -> Row(loaded.status, loaded.attempts + 1, TRUE)

(* What the loop sets on the row it has loaded.                            *)
Rewritten(loaded, result) ==
    LET n == loaded.attempts + 1 IN
    CASE result = "inactive" -> Row("dead_letter", loaded.attempts, FALSE)
      [] result = "accepted" -> Row("success", n, FALSE)
      [] result = "refused" /\ Exhausted(n) -> Row("dead_letter", n, FALSE)
      [] OTHER -> Row(loaded.status, n, TRUE)

(* Mutant of Flushed: all columns are written, changed or not.             *)
FlushedWhole(loaded, new, now) == new

(* What the UPDATE leaves in the table: the unchanged columns keep the     *)
(* value they have there; a new next_retry_at is always a change.          *)
Flushed(loaded, new, now) ==
    [status   |-> IF new.status = loaded.status THEN now.status ELSE new.status,
     attempts |-> IF new.attempts = loaded.attempts THEN now.attempts ELSE new.attempts,
     scheduled |-> IF ~new.scheduled /\ ~loaded.scheduled THEN now.scheduled
                  ELSE new.scheduled]

(* The commit for one row.  A row that has been deleted fails the UPDATE,  *)
(* and the exception ends the whole batch.                                 *)
Write(r) ==
    LET w == retrier[r]  d == w.id  loaded == w.loaded[d] IN
    /\ w.at = "write"
    /\ IF d \notin Existing
       THEN /\ retrier' = [retrier EXCEPT ![r] = IdleRetrier]
            /\ UNCHANGED row
       ELSE /\ row' = [row EXCEPT ![d] = Flushed(loaded, Rewritten(loaded, w.result), @)]
            /\ retrier' = [retrier EXCEPT
                  ![r] = IF w.todo = {} THEN IdleRetrier
                         ELSE Round("batch", w.todo, [w.loaded EXCEPT ![d] = NoRow],
                                    w.seen, NoId, "none")]
    /\ UNCHANGED <<settings, endpoint, caller, dead, crashes, history>>

-----------------------------------------------------------------------------
(* The endpoint: update_webhook_endpoint toggles it, and deleting it       *)
(* deletes its deliveries.                                                 *)
Toggle ==
    /\ endpoint # "deleted"
    /\ endpoint' \in IF endpoint = "inactive" THEN {"active", "unreadable"} ELSE {"inactive"}
    /\ UNCHANGED <<settings, row, caller, retrier, dead, crashes, history>>

Delete ==
    /\ endpoint # "deleted"
    /\ endpoint' = "deleted"
    /\ row' = Deleted(Existing)
    /\ UNCHANGED <<settings, caller, retrier, dead, crashes, history>>

(* The key the secret is decrypted with is replaced, or put back.          *)
ChangeKey ==
    /\ endpoint \in {"active", "unreadable"}
    /\ endpoint' = IF endpoint = "active" THEN "unreadable" ELSE "active"
    /\ UNCHANGED <<settings, row, caller, retrier, dead, crashes, history>>

(* A process is killed; what its session had not committed is lost.        *)
CrashCaller(c) ==
    /\ caller[c].at # "idle" /\ crashes < settings.kills
    /\ crashes' = crashes + 1
    /\ caller' = [caller EXCEPT ![c] = IdleCaller]
    /\ UNCHANGED <<settings, endpoint, row, retrier, dead, history>>

CrashRetrier(r) ==
    /\ retrier[r].at # "idle" /\ crashes < settings.kills
    /\ crashes' = crashes + 1
    /\ retrier' = [retrier EXCEPT ![r] = IdleRetrier]
    /\ blurred' = IF retrier[r].result \in {"accepted", "refused"}
                  THEN blurred \cup {retrier[r].id} ELSE blurred
    /\ UNCHANGED <<settings, endpoint, row, caller, dead, posts, accepted>>

(* A request to the control API.                                           *)
Handle ==
    /\ Store!DeadLetterNext
    /\ UNCHANGED <<settings, endpoint, row, caller, retrier, crashes, history>>

-----------------------------------------------------------------------------
CallerStep(c) ==
    \/ \E ok \in BOOLEAN : Post(c, ok)
    \/ Insert(c) \/ Capture(c) \/ Prune(c) \/ Mark(c)

RetrierStep(r) ==
    \/ \E S \in SUBSET Ids : Select(r, S)
    \/ \E d \in Ids : Take(r, d)
    \/ \E ok \in BOOLEAN : Repost(r, ok)
    \/ Write(r)

Next ==
    \/ \E c \in Callers :
          \/ Trigger(c) \/ SendTest(c) \/ Queue(c)
          \/ \E d \in Ids : Replay(c, d)
          \/ CallerStep(c) \/ CrashCaller(c)
    \/ \E r \in Retriers : RetrierStep(r) \/ CrashRetrier(r)
    \/ Toggle \/ Delete \/ ChangeKey \/ Handle

Spec == Init /\ [][Next]_vars

(* Both loops run for ever and sleep for a bounded time between batches; a *)
(* POST times out; clocks advance.                                         *)
Fairness == \A r \in Retriers : WF_vars(RetrierStep(r))

FairSpec == Spec /\ Fairness

-----------------------------------------------------------------------------
(* A delivery is given up only once the attempts made for it have reached  *)
(* max_retries, or by a loop that found the endpoint inactive or gone:     *)
(* counts lost to overlapping loops and to crashes never give up early     *)
(* (_dispatch_to_endpoint, retry_failed_deliveries).                       *)
GivenUpOnlyExhausted ==
    [][\A d \in Ids :
          row[d].status # "dead_letter" /\ row'[d].status = "dead_letter"
              => \/ posts'[d] >= settings.maxRetries
                 \/ \E r \in Retriers : retrier[r].id = d /\ retrier[r].result = "inactive"]_vars

(* A delivery that succeeded, was given up or was replayed is not open     *)
(* again, although a loop may write back a row it loaded long before.      *)
NeverReopened ==
    [][\A d \in Ids : row[d].status \notin Open \cup {"absent"} => row'[d].status \notin Open]_vars

(* Where no two loops held a delivery at once and none was killed after an *)
(* attempt, the row tells what happened: attempt_count is the number of    *)
(* attempts and it is a success exactly if the receiver accepted it.       *)
Reported(d) == \A r \in Retriers : ~(retrier[r].id = d /\ retrier[r].at = "write")

RowIsTrue ==
    \A d \in Existing \ blurred :
        Reported(d) => /\ row[d].attempts = posts[d]
                       /\ (row[d].status = "success") = (d \in accepted)

(* The dead-letter store holds an entry for a delivery only if that was    *)
(* given up; the loops and replays never turn it into anything else.       *)
EntryIsOfDeadLetter ==
    \A d \in Ids : Store!Captured(d) => row[d].status \in {"dead_letter", "replayed", "deleted"}

(* An entry that was resolved or archived is taken up again only by the    *)
(* first retry of it, loaded before (retry_entry, resolve_entry,           *)
(* archive_entry).                                                         *)
ReopenedOnlyByFirstRetry == Store!ReopenedOnlyByFirstRetry

(* A refused delivery for which a single inline attempt is all that        *)
(* max_retries allows: "failed", and never due.                            *)
Stranded(d) == /\ row[d].status = "failed" /\ ~row[d].scheduled
               /\ settings.maxAttempts = 1 /\ settings.maxRetries = 1

(* If the secret can be decrypted from some time on, every delivery in the *)
(* table is accepted, given up or deleted in the end, or is stranded: no   *)
(* overlap of the loops, batch that was broken off or loss of a count      *)
(* leaves an open delivery that no loop will take up                       *)
(* (retry_failed_deliveries).                                              *)
EventuallySettled ==
    <>[](endpoint # "unreadable") =>
        \A d \in Ids : []<>(row[d].status \notin Open \/ Stranded(d))
=============================================================================
