------------------------------ MODULE JobQueue ------------------------------
(***************************************************************************)
(* The persistent job queue: rows of job_queue claimed by polling workers, *)
(* one per scheduler process, with a lease on running rows (locked_at),    *)
(* recovery of rows whose lease ran out, retries with exponential backoff  *)
(* and a dead status.                                                      *)
(*                                                                         *)
(* Timestamps are kept relative to now: age is how long ago locked_at is   *)
(* (it stops counting once the lease has run out), wait how long until     *)
(* run_after.  The worker ids in locked_by are written but never read by   *)
(* the code, and are left out.                                             *)
(***************************************************************************)
EXTENDS Naturals, FiniteSets

CONSTANTS
    Jobs,           \* job_queue rows that may be enqueued
    Workers,        \* worker loops, one per process
    Priority,       \* of each job, higher is sooner
    MaxRetries,     \* of each job
    Delay,          \* of each job: delay_seconds given to enqueue
    Registered,     \* jobs whose name has a handler
    Lease,          \* JOB_QUEUE_STALE_TIMEOUT_SECONDS
    Base,           \* JOB_QUEUE_RETRY_BACKOFF_SECONDS
    MaxCrashes,     \* bound: how many attempts are lost to crashes
    MayOverrun,     \* a handler may run for longer than the lease
    NoJob, Unlocked

ASSUME QueueAssumption ==
    /\ Priority \in [Jobs -> Nat]
    /\ MaxRetries \in [Jobs -> Nat]
    /\ Delay \in [Jobs -> Nat]
    /\ Registered \subseteq Jobs
    /\ {Lease, Base, MaxCrashes} \subseteq Nat
    /\ MayOverrun \in BOOLEAN
    /\ IsFiniteSet(Jobs)
    /\ NoJob \notin Jobs
    /\ Unlocked \notin Nat

(* A fact of arithmetic, which the proofs need and no prover supplies.     *)
ASSUME PowersAreNumbers ==
    \A j \in Jobs : \A n \in 0..MaxRetries[j] : 2^n \in Nat

VARIABLES
    status, attempts, wait, born, age,  \* the columns of the job_queue table
    worker,     \* what each worker loop is doing
    crashes,    \* attempts lost so far, at most MaxCrashes
    succeeded   \* history: jobs whose handler has returned at least once

row  == <<status, attempts, wait, born, age>>
vars == <<row, worker, crashes, succeeded>>

Statuses == {"absent", "pending", "running", "completed", "dead"}
Results  == {"returned", "raised", "unhandled"}
Settled  == {"completed", "dead"}
Ages     == 0..(Lease + 1) \cup {Unlocked}

(* seen: what the session that writes the outcome has loaded of the row.   *)
WorkerType ==
    [at : {"idle", "running", "settling"}, job : Jobs \cup {NoJob}, result : Results,
     seen : [status : Statuses, attempts : Nat, locked : BOOLEAN]]

NothingSeen == [status |-> "absent", attempts |-> 0, locked |-> FALSE]
IdleWorker  == [at |-> "idle", job |-> NoJob, result |-> "raised", seen |-> NothingSeen]

TypeOK ==
    /\ status \in [Jobs -> Statuses]
    /\ attempts \in [Jobs -> Nat]
    /\ wait \in [Jobs -> Nat]
    /\ born \in [Jobs -> Nat]
    /\ age \in [Jobs -> Ages]
    /\ worker \in [Workers -> WorkerType]
    /\ crashes \in 0..MaxCrashes
    /\ succeeded \in SUBSET Jobs

Init ==
    /\ status = [j \in Jobs |-> "absent"]
    /\ attempts = [j \in Jobs |-> 0]
    /\ wait = [j \in Jobs |-> 0]
    /\ born = [j \in Jobs |-> 0]
    /\ age = [j \in Jobs |-> Unlocked]
    /\ worker = [w \in Workers |-> IdleWorker]
    /\ crashes = 0
    /\ succeeded = {}

-----------------------------------------------------------------------------
Enqueue(j) ==
    /\ status[j] = "absent"
    /\ status' = [status EXCEPT ![j] = "pending"]
    /\ wait' = [wait EXCEPT ![j] = Delay[j]]
    /\ born' = [born EXCEPT ![j] = Cardinality({i \in Jobs : status[i] # "absent"})]
    /\ UNCHANGED <<attempts, age, worker, crashes, succeeded>>

(* Time passes.  Unless handlers may overrun, each of them ends, and its   *)
(* outcome is written, before the lease on its row has run out.            *)
Older(a) == IF a = Unlocked \/ a = Lease + 1 THEN a ELSE a + 1

Tick ==
    /\ MayOverrun \/ \A w \in Workers :
                        worker[w].at # "idle" => age[worker[w].job] # Lease
    /\ wait' = [j \in Jobs |-> IF wait[j] = 0 THEN 0 ELSE wait[j] - 1]
    /\ age' = [j \in Jobs |-> Older(age[j])]
    /\ UNCHANGED <<status, attempts, born, worker, crashes, succeeded>>

(* Mutants of Stale: the lease, the status or the strictness of < is lost. *)
StaleAnyAge(j)  == status[j] = "running"
StaleByLock(j)  == age[j] = Lease + 1
StaleTooSoon(j) == status[j] = "running" /\ age[j] \in {Lease, Lease + 1}

(* A running row whose lease ran out; _claim_job first makes every such    *)
(* row pending again, whoever holds it.                                    *)
Stale(j) == status[j] = "running" /\ age[j] = Lease + 1

Due(j) == (status[j] = "pending" \/ Stale(j)) /\ wait[j] = 0

(* ORDER BY priority DESC, created_at ASC LIMIT 1.                         *)
First(j) ==
    /\ Due(j)
    /\ \A i \in Jobs : Due(i) =>
            \/ Priority[i] < Priority[j]
            \/ Priority[i] = Priority[j] /\ born[j] <= born[i]

(* With no due row _claim_job returns without committing the recovery.     *)
Claim(w) ==
    /\ worker[w].at = "idle"
    /\ \E j \in Jobs :
        /\ First(j)
        /\ status' = [i \in Jobs |-> IF i = j THEN "running"
                                     ELSE IF Stale(i) THEN "pending" ELSE status[i]]
        /\ age' = [i \in Jobs |-> IF i = j THEN 0
                                  ELSE IF Stale(i) THEN Unlocked ELSE age[i]]
        /\ attempts' = [attempts EXCEPT ![j] = @ + 1]
        /\ worker' = [worker EXCEPT ![w] = [@ EXCEPT !.at = "running", !.job = j]]
    /\ UNCHANGED <<wait, born, crashes, succeeded>>

(* What a new session loads of the row.                                    *)
Loaded(j) == [status |-> status[j], attempts |-> attempts[j], locked |-> age[j] # Unlocked]

(* The handler ends (or there is none) and the outcome's session begins.   *)
EndHandler(w, result) ==
    LET j == worker[w].job IN
    /\ worker[w].at = "running"
    /\ result \in IF j \in Registered THEN {"returned", "raised"} ELSE {"unhandled"}
    /\ worker' = [worker EXCEPT ![w] = [@ EXCEPT
                    !.at = "settling", !.result = result, !.seen = Loaded(j)]]
    /\ succeeded' = IF result = "returned" THEN succeeded \cup {j} ELSE succeeded
    /\ UNCHANGED <<row, crashes>>

(* The ORM updates only the columns that differ from what was loaded.      *)
SetStatus(j, seen, new) == status' = [status EXCEPT ![j] = IF new = seen.status THEN @ ELSE new]

Unlock(j, seen) == age' = [age EXCEPT ![j] = IF seen.locked THEN Unlocked ELSE @]

Backoff(n) == Base * 2^(n - 1)

Complete(j, seen) ==
    /\ SetStatus(j, seen, "completed")
    /\ Unlock(j, seen)
    /\ UNCHANGED wait

(* A dead row keeps locked_at.                                             *)
Bury(j, seen) == SetStatus(j, seen, "dead") /\ UNCHANGED <<wait, age>>

(* Mutant of Retry: the lock is cleared and the status forgotten.          *)
RetryUnlockOnly(j, seen) ==
    /\ UNCHANGED status
    /\ wait' = [wait EXCEPT ![j] = Backoff(seen.attempts)]
    /\ Unlock(j, seen)

Retry(j, seen) ==
    /\ SetStatus(j, seen, "pending")
    /\ wait' = [wait EXCEPT ![j] = Backoff(seen.attempts)]
    /\ Unlock(j, seen)

(* Mutants of Exhausted: one attempt too early, one too late.              *)
ExhaustedEarly(j, seen) == seen.attempts + 1 >= MaxRetries[j]
ExhaustedLate(j, seen)  == seen.attempts > MaxRetries[j]

Exhausted(j, seen) == seen.attempts >= MaxRetries[j]

(* The outcome is written and committed, whoever holds the row by now.     *)
Settle(w) ==
    LET j == worker[w].job
        seen == worker[w].seen IN
    /\ worker[w].at = "settling"
    /\ CASE worker[w].result = "returned"  -> Complete(j, seen)
         [] worker[w].result = "unhandled" -> Bury(j, seen)
         [] worker[w].result = "raised"    -> IF Exhausted(j, seen)
                                              THEN Bury(j, seen) ELSE Retry(j, seen)
    /\ worker' = [worker EXCEPT ![w] = IdleWorker]
    /\ UNCHANGED <<attempts, born, crashes, succeeded>>

(* The process dies, its task is cancelled at shutdown, or the write of    *)
(* the outcome fails: the row stays running.                               *)
Abandon(w) ==
    /\ crashes < MaxCrashes
    /\ worker[w].at # "idle"
    /\ crashes' = crashes + 1
    /\ worker' = [worker EXCEPT ![w] = IdleWorker]
    /\ UNCHANGED <<row, succeeded>>

Work(w) == Claim(w) \/ (\E result \in Results : EndHandler(w, result)) \/ Settle(w)

Next ==
    \/ \E j \in Jobs : Enqueue(j)
    \/ \E w \in Workers : Work(w) \/ Abandon(w)
    \/ Tick

Spec == Init /\ [][Next]_vars

(* The worker loop polls for ever, handlers end, and time passes.          *)
Fairness == WF_vars(Tick) /\ \A w \in Workers : WF_vars(Work(w))

FairSpec == Spec /\ Fairness

-----------------------------------------------------------------------------
(* Properties                                                              *)

(* A job is run by one worker at a time: "Atomically claim the next        *)
(* pending job", and only rows of crashed workers are recovered.           *)
Busy(w) == worker[w].at # "idle"

RunByOne ==
    \A v, w \in Workers : Busy(v) /\ Busy(w) /\ worker[v].job = worker[w].job => v = w

(* A job that has completed or died stays so: no late result of another    *)
(* attempt reopens or relabels it.                                         *)
SettledForGood ==
    [][\A j \in Jobs : status[j] \in Settled => status'[j] = status[j]]_vars

(* What the final status says is true: a completed job's handler returned, *)
(* a dead one has no handler or has used up its retries.                   *)
OutcomeIsTrue ==
    \A j \in Jobs :
        /\ status[j] = "completed" => j \in succeeded
        /\ status[j] = "dead" => j \notin Registered \/ attempts[j] >= MaxRetries[j]

(* Attempts beyond max_retries are those lost to crashes: a failure that   *)
(* is recorded always counts.                                              *)
Budget(j) == IF MaxRetries[j] = 0 THEN 1 ELSE MaxRetries[j]

AttemptsAccounted == \A j \in Jobs : attempts[j] <= Budget(j) + crashes

(* Every job that is enqueued is completed or dead in the end, whatever    *)
(* crashes, backoffs and higher priorities delay it.                       *)
EventuallySettled ==
    \A j \in Jobs : status[j] = "pending" ~> status[j] \in Settled

(* The queue seen as the abstract specification of exclusive work.         *)
outcome == [j \in Jobs |-> IF status[j] \in Settled THEN status[j] ELSE "open"]
holders == [j \in Jobs |-> {w \in Workers : Busy(w) /\ worker[w].job = j}]

Exclusive == INSTANCE ExclusiveWork
             WITH Tasks <- Jobs, outcome <- outcome, holders <- holders

ImplementsExclusiveWork == Exclusive!Spec

-----------------------------------------------------------------------------
(* The inductive invariant: a worker's row is running under a lease that   *)
(* has not run out, and nobody else holds it or has changed it.            *)
Leased(w) ==
    LET j == worker[w].job IN
    /\ j \in Jobs
    /\ status[j] = "running"
    /\ age[j] \in 0..Lease

LoadedCurrent(w) ==
    LET j == worker[w].job IN
    worker[w].at = "settling" =>
        /\ worker[w].seen.status = "running"
        /\ worker[w].seen.locked
        /\ worker[w].seen.attempts = attempts[j]

LeaseInv ==
    /\ \A w \in Workers : Busy(w) => Leased(w) /\ LoadedCurrent(w)
    /\ RunByOne

=============================================================================
