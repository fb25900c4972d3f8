--------------------------- MODULE JobQueue_proofs ---------------------------
(* Proofs about JobQueue, for any number of jobs and workers; all but      *)
(* those of the types and the final status are about handlers that end     *)
(* before the lease on their row runs out.                                 *)
EXTENDS JobQueue, FiniteSetTheorems, TLAPS

(* The part of TypeOK that the proofs about leases need.                   *)
Shape ==
    /\ status \in [Jobs -> Statuses]
    /\ attempts \in [Jobs -> Nat]
    /\ age \in [Jobs -> Ages]
    /\ worker \in [Workers -> WorkerType]

LeasedShape == Shape /\ LeaseInv

LEMMA InitShape == Init => LeasedShape
BY DEF Init, LeasedShape, Shape, LeaseInv, RunByOne, Busy, IdleWorker, NothingSeen,
       WorkerType, Statuses, Results, Ages

(* How a worker's record changes in each of its steps.                     *)
LEMMA IdleChange ==
    ASSUME Shape, NEW w \in Workers, worker' = [worker EXCEPT ![w] = IdleWorker]
    PROVE  /\ worker' \in [Workers -> WorkerType]
           /\ worker'[w].at = "idle"
           /\ \A v \in Workers \ {w} : worker'[v] = worker[v]
<1>1. IdleWorker \in WorkerType /\ IdleWorker.at = "idle"
    BY DEF IdleWorker, NothingSeen, WorkerType, Statuses, Results
<1>2. QED BY <1>1 DEF Shape

LEMMA ClaimChange ==
    ASSUME Shape, NEW w \in Workers, NEW j \in Jobs,
           worker' = [worker EXCEPT ![w] = [@ EXCEPT !.at = "running", !.job = j]]
    PROVE  /\ worker' \in [Workers -> WorkerType]
           /\ worker'[w].at = "running" /\ worker'[w].job = j
           /\ \A v \in Workers \ {w} : worker'[v] = worker[v]
<1> DEFINE r == [worker[w] EXCEPT !.at = "running", !.job = j]
<1>1. r \in WorkerType /\ r.at = "running" /\ r.job = j
    BY DEF Shape, WorkerType
<1>2. worker' = [worker EXCEPT ![w] = r]
    OBVIOUS
<1> HIDE DEF r
<1>3. QED BY <1>1, <1>2 DEF Shape

LEMMA EndChange ==
    ASSUME Shape, NEW w \in Workers, NEW result \in Results, EndHandler(w, result),
           worker[w].job \in Jobs
    PROVE  /\ worker' \in [Workers -> WorkerType]
           /\ worker'[w].at = "settling" /\ worker'[w].job = worker[w].job
           /\ worker'[w].seen = Loaded(worker[w].job)
           /\ \A v \in Workers \ {w} : worker'[v] = worker[v]
<1> DEFINE j == worker[w].job
           r == [worker[w] EXCEPT !.at = "settling", !.result = result, !.seen = Loaded(j)]
<1>1. Loaded(j) \in [status : Statuses, attempts : Nat, locked : BOOLEAN]
    BY DEF Loaded, Shape
<1>2. r \in WorkerType /\ r.at = "settling" /\ r.job = j /\ r.seen = Loaded(j)
    BY <1>1 DEF Shape, WorkerType
<1>3. worker' = [worker EXCEPT ![w] = r]
    BY DEF EndHandler
<1> HIDE DEF r
<1>4. QED BY <1>2, <1>3 DEF Shape

(* A worker that takes no step keeps its lease if its row stays.           *)
LEMMA OthersKept ==
    ASSUME NEW v \in Workers, NEW j, j = worker[v].job,
           Busy(v) => Leased(v) /\ LoadedCurrent(v), worker'[v] = worker[v],
           Busy(v) => /\ status'[j] = status[j] /\ attempts'[j] = attempts[j]
                      /\ age'[j] \in 0..Lease
    PROVE  Busy(v)' => Leased(v)' /\ LoadedCurrent(v)'
BY DEF Busy, Leased, LoadedCurrent

LEMMA TickStep ==
    ASSUME MayOverrun = FALSE, LeasedShape, Tick
    PROVE  LeasedShape'
<1>1. Lease \in Nat /\ Unlocked \notin Nat
    BY QueueAssumption
<1>2. age' \in [Jobs -> Ages]
    BY <1>1 DEF Tick, Older, LeasedShape, Shape, Ages
<1>3. ASSUME NEW v \in Workers PROVE Busy(v)' => Leased(v)' /\ LoadedCurrent(v)'
  <2>1. PICK j : j = worker[v].job
      OBVIOUS
  <2>2. Busy(v) => j \in Jobs /\ age[j] \in 0..Lease /\ age[j] # Lease
      BY <2>1 DEF Busy, Tick, LeasedShape, LeaseInv, Leased
  <2>3. Busy(v) => age'[j] \in 0..Lease
      BY <1>1, <2>2 DEF Tick, Older
  <2>4. QED BY <2>1, <2>3, OthersKept DEF Tick, LeasedShape, LeaseInv
<1>4. QED BY <1>2, <1>3 DEF Tick, LeasedShape, LeaseInv, RunByOne, Busy, Shape

(* A claimed row is held by nobody: busy workers hold running rows whose   *)
(* lease has not run out, and those are not due.                           *)
LEMMA NotHeld ==
    ASSUME LeasedShape, NEW v \in Workers, Busy(v)
    PROVE  ~Due(worker[v].job) /\ ~Stale(worker[v].job)
BY QueueAssumption DEF LeasedShape, LeaseInv, Leased, Due, Stale

LEMMA ClaimStep ==
    ASSUME LeasedShape, NEW w \in Workers, Claim(w)
    PROVE  LeasedShape'
<1>1. PICK j \in Jobs :
        /\ First(j)
        /\ status' = [i \in Jobs |-> IF i = j THEN "running"
                                     ELSE IF Stale(i) THEN "pending" ELSE status[i]]
        /\ age' = [i \in Jobs |-> IF i = j THEN 0
                                  ELSE IF Stale(i) THEN Unlocked ELSE age[i]]
        /\ attempts' = [attempts EXCEPT ![j] = @ + 1]
        /\ worker' = [worker EXCEPT ![w] = [@ EXCEPT !.at = "running", !.job = j]]
    BY DEF Claim
<1>2. Due(j)
    BY <1>1 DEF First
<1>3. /\ worker' \in [Workers -> WorkerType]
      /\ worker'[w].at = "running" /\ worker'[w].job = j
      /\ \A v \in Workers \ {w} : worker'[v] = worker[v]
    BY <1>1, ClaimChange DEF LeasedShape
<1>4. /\ status' \in [Jobs -> Statuses]
      /\ attempts' \in [Jobs -> Nat]
      /\ age' \in [Jobs -> Ages]
    BY <1>1, QueueAssumption DEF LeasedShape, Shape, Statuses, Ages
<1>5. \A v \in Workers : Busy(v) => worker[v].job # j /\ worker[v].job \in Jobs
    BY <1>2, NotHeld DEF LeasedShape, LeaseInv, Leased
<1>6. ASSUME NEW v \in Workers PROVE Busy(v)' => Leased(v)' /\ LoadedCurrent(v)'
  <2>1. CASE v = w
      BY <1>1, <1>3, <2>1, QueueAssumption DEF Busy, Leased, LoadedCurrent
  <2>2. CASE v # w
    <3>1. PICK i : i = worker[v].job
        OBVIOUS
    <3>2. Busy(v) => /\ status'[i] = status[i] /\ attempts'[i] = attempts[i]
                     /\ age'[i] \in 0..Lease
        BY <1>1, <1>5, <3>1, NotHeld DEF LeasedShape, LeaseInv, Leased, Shape
    <3>3. QED BY <1>3, <2>2, <3>1, <3>2, OthersKept DEF LeasedShape, LeaseInv
  <2>3. QED BY <2>1, <2>2
<1>7. RunByOne'
    BY <1>3, <1>5 DEF RunByOne, Busy, LeasedShape, LeaseInv
<1>8. QED BY <1>3, <1>4, <1>6, <1>7 DEF LeasedShape, LeaseInv, Shape

LEMMA EndStep ==
    ASSUME LeasedShape, NEW w \in Workers, NEW result \in Results, EndHandler(w, result)
    PROVE  LeasedShape'
<1>1. PICK j : j = worker[w].job
    OBVIOUS
<1>2. Busy(w) /\ UNCHANGED row
    BY DEF EndHandler, Busy
<1>3. j \in Jobs /\ status[j] = "running" /\ age[j] \in 0..Lease
    BY <1>1, <1>2 DEF LeasedShape, LeaseInv, Leased
<1>4. /\ worker' \in [Workers -> WorkerType]
      /\ worker'[w].at = "settling" /\ worker'[w].job = j /\ worker'[w].seen = Loaded(j)
      /\ \A v \in Workers \ {w} : worker'[v] = worker[v]
    BY <1>1, <1>3, EndChange DEF LeasedShape
<1>5. ASSUME NEW v \in Workers PROVE Busy(v)' => Leased(v)' /\ LoadedCurrent(v)'
  <2>1. CASE v = w
    <3>1. Leased(v)'
        BY <1>2, <1>3, <1>4, <2>1 DEF Leased, row
    <3>2. /\ worker'[w].seen.status = "running" /\ worker'[w].seen.locked
          /\ worker'[w].seen.attempts = attempts[j]
      <4>1. age[j] # Unlocked
          BY <1>3, QueueAssumption
      <4>2. Loaded(j).status = "running" /\ Loaded(j).attempts = attempts[j]
          BY <1>3 DEF Loaded
      <4>3. Loaded(j).locked
          BY <4>1, Zenon DEF Loaded
      <4>4. QED BY <1>4, <4>2, <4>3
    <3>3. LoadedCurrent(v)'
        BY <1>2, <1>4, <2>1, <3>2 DEF LoadedCurrent, row
    <3>4. QED BY <3>1, <3>3
  <2>2. CASE v # w
      BY <1>2, <1>4, <2>2, OthersKept DEF LeasedShape, LeaseInv, Leased, row
  <2>3. QED BY <2>1, <2>2
<1>6. RunByOne'
    BY <1>1, <1>2, <1>4 DEF RunByOne, Busy, LeasedShape, LeaseInv
<1>7. QED BY <1>2, <1>4, <1>5, <1>6 DEF LeasedShape, LeaseInv, Shape, row

LEMMA SettleStep ==
    ASSUME LeasedShape, NEW w \in Workers, Settle(w)
    PROVE  LeasedShape'
<1>1. PICK j, seen : j = worker[w].job /\ seen = worker[w].seen
    OBVIOUS
<1>2. /\ Busy(w) /\ worker[w].at = "settling" /\ attempts' = attempts
      /\ worker' = [worker EXCEPT ![w] = IdleWorker]
    BY DEF Settle, Busy
<1>3. j \in Jobs
    BY <1>1, <1>2 DEF LeasedShape, LeaseInv, Leased
<1>4. Complete(j, seen) \/ Bury(j, seen) \/ Retry(j, seen)
  <2>1. worker[w].result \in Results
      BY DEF LeasedShape, Shape, WorkerType
  <2>2. QED BY <1>1, <2>1 DEF Settle, Results
<1>5. /\ status' \in [Jobs -> Statuses] /\ age' \in [Jobs -> Ages]
      /\ \A i \in Jobs \ {j} : status'[i] = status[i] /\ age'[i] = age[i]
    BY <1>3, <1>4 DEF Complete, Bury, Retry, SetStatus, Unlock, LeasedShape, Shape,
       Statuses, Ages
<1>6. /\ worker' \in [Workers -> WorkerType] /\ worker'[w].at = "idle"
      /\ \A v \in Workers \ {w} : worker'[v] = worker[v]
    BY <1>2, IdleChange DEF LeasedShape
<1>7. ASSUME NEW v \in Workers PROVE Busy(v)' => Leased(v)' /\ LoadedCurrent(v)'
  <2>1. CASE v = w
      BY <1>6, <2>1 DEF Busy
  <2>2. CASE v # w
    <3>1. PICK i : i = worker[v].job
        OBVIOUS
    <3>2. Busy(v) => i \in Jobs \ {j} /\ age[i] \in 0..Lease
        BY <1>1, <1>2, <2>2, <3>1 DEF LeasedShape, LeaseInv, Leased, RunByOne
    <3>3. QED BY <1>2, <1>5, <1>6, <2>2, <3>1, <3>2, OthersKept DEF LeasedShape, LeaseInv
  <2>3. QED BY <2>1, <2>2
<1>8. RunByOne'
    BY <1>6 DEF RunByOne, Busy, LeasedShape, LeaseInv
<1>9. QED BY <1>2, <1>5, <1>6, <1>7, <1>8 DEF LeasedShape, LeaseInv, Shape

LEMMA AbandonStep ==
    ASSUME LeasedShape, NEW w \in Workers, Abandon(w)
    PROVE  LeasedShape'
<1>1. /\ worker' \in [Workers -> WorkerType] /\ worker'[w].at = "idle"
      /\ \A v \in Workers \ {w} : worker'[v] = worker[v]
      /\ UNCHANGED row
    BY IdleChange DEF Abandon, LeasedShape
<1>2. ASSUME NEW v \in Workers PROVE Busy(v)' => Leased(v)' /\ LoadedCurrent(v)'
    BY <1>1, OthersKept DEF Busy, Leased, LeasedShape, LeaseInv, row
<1>3. RunByOne'
    BY <1>1 DEF RunByOne, Busy, LeasedShape, LeaseInv
<1>4. QED BY <1>1, <1>2, <1>3 DEF LeasedShape, LeaseInv, Shape, row

LEMMA EnqueueStep ==
    ASSUME LeasedShape, NEW j \in Jobs, Enqueue(j)
    PROVE  LeasedShape'
<1>1. ASSUME NEW v \in Workers PROVE Busy(v)' => Leased(v)' /\ LoadedCurrent(v)'
  <2>1. PICK i : i = worker[v].job
      OBVIOUS
  <2>2. Busy(v) => /\ i \in Jobs /\ status[i] = "running" /\ age[i] \in 0..Lease
      BY <2>1 DEF LeasedShape, LeaseInv, Leased
  <2>3. Busy(v) => status'[i] = status[i]
      BY <2>2 DEF Enqueue, LeasedShape, Shape
  <2>4. QED BY <2>1, <2>2, <2>3, OthersKept DEF Enqueue, LeasedShape, LeaseInv
<1>2. status' \in [Jobs -> Statuses]
    BY DEF Enqueue, LeasedShape, Shape, Statuses
<1>3. QED BY <1>1, <1>2 DEF Enqueue, LeasedShape, LeaseInv, Shape, RunByOne, Busy

LEMMA LeaseStep ==
    ASSUME MayOverrun = FALSE, LeasedShape, [Next]_vars
    PROVE  LeasedShape'
<1>1. CASE UNCHANGED vars
    BY <1>1 DEF vars, row, LeasedShape, LeaseInv, Shape, RunByOne, Busy, Leased, LoadedCurrent
<1>2. QED
    BY <1>1, TickStep, ClaimStep, EndStep, SettleStep, AbandonStep, EnqueueStep DEF Next, Work

(* The lease invariant and the types it rests on hold throughout.          *)
LEMMA AlwaysLeased ==
    ASSUME MayOverrun = FALSE
    PROVE  Spec => []LeasedShape
<1>1. LeasedShape /\ [Next]_vars => LeasedShape'
    BY LeaseStep
<1>2. QED BY InitShape, <1>1, PTL DEF Spec

(* If no handler outlives its lease, which the code does not enforce, a    *)
(* busy worker holds, alone, a running row whose lease has not run out,    *)
(* and has loaded its current contents, in every reachable state.          *)
THEOREM Leases ==
    ASSUME MayOverrun = FALSE
    PROVE  Spec => []LeaseInv
<1>1. LeasedShape => LeaseInv
    BY DEF LeasedShape
<1>2. QED BY <1>1, AlwaysLeased, PTL

(* If no handler outlives its lease, no two workers run the same job at    *)
(* the same time.                                                          *)
THEOREM RunAlone ==
    ASSUME MayOverrun = FALSE
    PROVE  Spec => []RunByOne
<1>1. LeasedShape => RunByOne
    BY DEF LeasedShape, LeaseInv
<1>2. QED BY <1>1, AlwaysLeased, PTL

-----------------------------------------------------------------------------
(* What a worker that settles writes: its row was running when loaded, so  *)
(* the new status is really written.                                       *)
LEMMA SettleWrites ==
    ASSUME LeasedShape, NEW w \in Workers, Settle(w), NEW j, j = worker[w].job
    PROVE  /\ j \in Jobs /\ status[j] = "running"
           /\ \E new \in {"completed", "dead", "pending"} :
                status' = [status EXCEPT ![j] = new]
<1>1. PICK seen : seen = worker[w].seen
    OBVIOUS
<1>2. worker[w].at = "settling" /\ worker[w].result \in Results
    BY DEF Settle, LeasedShape, Shape, WorkerType
<1>3. j \in Jobs /\ status[j] = "running" /\ seen.status = "running"
    BY <1>1, <1>2 DEF LeasedShape, LeaseInv, Leased, LoadedCurrent, Busy
<1>4. Complete(j, seen) \/ Bury(j, seen) \/ Retry(j, seen)
    BY <1>1, <1>2 DEF Settle, Results
<1>5. QED BY <1>3, <1>4 DEF Complete, Bury, Retry, SetStatus

(* If no handler outlives its lease, nothing that happens later reopens or *)
(* relabels a settled job.  The code has no timeout for handlers and does  *)
(* not renew a lease, so this is a condition on the handlers.              *)
THEOREM SettledStays ==
    ASSUME MayOverrun = FALSE
    PROVE  Spec => SettledForGood
<1>1. ASSUME LeasedShape, [Next]_vars, NEW j \in Jobs, status[j] \in Settled
      PROVE  status'[j] = status[j]
  <2> USE DEF row
  <2>1. ASSUME NEW w \in Workers, Claim(w) PROVE status'[j] = status[j]
      BY <1>1, <2>1 DEF Claim, First, Due, Stale, Settled
  <2>2. ASSUME NEW w \in Workers, Settle(w) PROVE status'[j] = status[j]
    <3>1. PICK i : i = worker[w].job
        OBVIOUS
    <3>2. i \in Jobs /\ status[i] = "running" /\ \E new : status' = [status EXCEPT ![i] = new]
        BY <1>1, <2>2, <3>1, SettleWrites
    <3>3. QED BY <1>1, <3>2 DEF LeasedShape, Shape, Settled
  <2>3. ASSUME NEW i \in Jobs, Enqueue(i) PROVE status'[j] = status[j]
      BY <1>1, <2>3 DEF Enqueue, LeasedShape, Shape, Settled
  <2>4. ASSUME NEW w \in Workers, NEW result \in Results, EndHandler(w, result)
        PROVE status'[j] = status[j]
      BY <2>4 DEF EndHandler
  <2>5. ASSUME NEW w \in Workers, Abandon(w) PROVE status'[j] = status[j]
      BY <2>5 DEF Abandon
  <2>6. CASE Tick \/ UNCHANGED vars
      BY <2>6 DEF Tick, vars
  <2>7. QED BY <1>1, <2>1, <2>2, <2>3, <2>4, <2>5, <2>6 DEF Next, Work
<1>2. LeasedShape /\ [Next]_vars =>
        [\A j \in Jobs : status[j] \in Settled => status'[j] = status[j]]_vars
    BY <1>1
<1>3. QED BY <1>2, AlwaysLeased, PTL DEF Spec, SettledForGood

-----------------------------------------------------------------------------
(* Attempts are accounted for.  The invariant adds that a job that nobody  *)
(* runs and that is not settled has an attempt left.                       *)
Unheld(j) == status[j] \notin Settled /\ \A w \in Workers : Busy(w) => worker[w].job # j

Budgeted(j) ==
    /\ attempts[j] <= Budget(j) + crashes
    /\ Unheld(j) => attempts[j] < Budget(j) + crashes

Accounts ==
    /\ crashes \in Nat
    /\ \A j \in Jobs : Budgeted(j)

LEMMA BudgetNat == \A j \in Jobs : Budget(j) \in Nat /\ Budget(j) > 0 /\ MaxRetries[j] <= Budget(j)
BY QueueAssumption DEF Budget

LEMMA InitAccounts == Init => Accounts
BY BudgetNat, QueueAssumption DEF Init, Accounts, Budgeted, IdleWorker

(* A job keeps its account if its row's status and attempts stay and no    *)
(* worker has let go of it.                                                *)
LEMMA BudgetKept ==
    ASSUME NEW j \in Jobs, Budgeted(j), crashes' = crashes, attempts'[j] = attempts[j],
           Unheld(j)' => Unheld(j)
    PROVE  Budgeted(j)'
BY DEF Budgeted, Budget

LEMMA EnqueueAccounts ==
    ASSUME LeasedShape, Accounts, NEW j \in Jobs, Enqueue(j)
    PROVE  Accounts'
<1>1. status \in [Jobs -> Statuses] /\ status[j] = "absent"
    BY DEF LeasedShape, Shape, Enqueue
<1>2. ASSUME NEW i \in Jobs PROVE Budgeted(i)'
    BY <1>1, BudgetKept DEF Enqueue, Unheld, Busy, Settled, Accounts
<1>3. QED BY <1>2 DEF Enqueue, Accounts

LEMMA ClaimAccounts ==
    ASSUME LeasedShape, Accounts, NEW w \in Workers, Claim(w)
    PROVE  Accounts'
<1>1. PICK j \in Jobs :
        /\ First(j)
        /\ status' = [i \in Jobs |-> IF i = j THEN "running"
                                     ELSE IF Stale(i) THEN "pending" ELSE status[i]]
        /\ attempts' = [attempts EXCEPT ![j] = @ + 1]
        /\ worker' = [worker EXCEPT ![w] = [@ EXCEPT !.at = "running", !.job = j]]
    BY DEF Claim
<1>2. /\ worker'[w].at = "running" /\ worker'[w].job = j
      /\ \A v \in Workers \ {w} : worker'[v] = worker[v]
    BY <1>1, ClaimChange DEF LeasedShape
<1>3. Due(j) /\ crashes' = crashes /\ succeeded' = succeeded /\ worker[w].at = "idle"
    BY <1>1 DEF First, Claim
<1>4. \A i \in Jobs : attempts[i] \in Nat /\ Budget(i) \in Nat /\ (i # j => attempts'[i] = attempts[i])
    BY <1>1, BudgetNat DEF LeasedShape, Shape
<1>5. Budgeted(j)'
  <2>1. Unheld(j)
      BY <1>3, NotHeld DEF Unheld, Due, Stale, Settled
  <2>2. attempts[j] + 1 <= Budget(j) + crashes
      BY <1>4, <2>1 DEF Accounts, Budgeted
  <2>3. attempts'[j] = attempts[j] + 1
      BY <1>1 DEF LeasedShape, Shape
  <2>4. ~ Unheld(j)'
      BY <1>2 DEF Unheld, Busy
  <2>5. QED BY <1>3, <2>2, <2>3, <2>4 DEF Budgeted, Budget
<1>6. ASSUME NEW i \in Jobs, i # j PROVE Budgeted(i)'
  <2>1. Unheld(i)' => Unheld(i)
      BY <1>1, <1>2, <1>3, <1>6 DEF Unheld, Busy, Stale, Settled
  <2>2. QED BY <1>3, <1>4, <1>6, <2>1, BudgetKept DEF Accounts
<1>7. QED BY <1>3, <1>5, <1>6 DEF Accounts

LEMMA EndAccounts ==
    ASSUME LeasedShape, Accounts, NEW w \in Workers, NEW result \in Results, EndHandler(w, result)
    PROVE  Accounts'
<1>1. PICK j : j = worker[w].job
    OBVIOUS
<1>2. Busy(w) /\ UNCHANGED <<row, crashes>>
    BY DEF EndHandler, Busy
<1>3. j \in Jobs
    BY <1>1, <1>2 DEF LeasedShape, LeaseInv, Leased
<1>4. /\ worker'[w].at = "settling" /\ worker'[w].job = j
      /\ \A v \in Workers \ {w} : worker'[v] = worker[v]
    BY <1>1, <1>3, EndChange DEF LeasedShape
<1>5. ASSUME NEW i \in Jobs PROVE Budgeted(i)'
  <2>1. Unheld(i)' => Unheld(i)
      BY <1>1, <1>2, <1>4 DEF Unheld, Busy, row
  <2>2. QED BY <1>2, <2>1, BudgetKept DEF Accounts, row
<1>6. QED BY <1>2, <1>5 DEF Accounts

(* A settled row is closed, or pending with an attempt left.               *)
LEMMA SettleLeaves ==
    ASSUME LeasedShape, NEW w \in Workers, Settle(w), NEW j, j = worker[w].job
    PROVE  /\ j \in Jobs /\ attempts[j] \in Nat
           /\ status \in [Jobs -> Statuses]
           /\ \/ \E new \in Settled : status' = [status EXCEPT ![j] = new]
              \/ status' = [status EXCEPT ![j] = "pending"] /\ attempts[j] < MaxRetries[j]
<1>1. PICK seen : seen = worker[w].seen
    OBVIOUS
<1>2. worker[w].at = "settling" /\ worker[w].result \in Results
    BY DEF Settle, LeasedShape, Shape, WorkerType
<1>3. j \in Jobs /\ seen.status = "running" /\ seen.attempts = attempts[j]
    BY <1>1, <1>2 DEF LeasedShape, LeaseInv, Leased, LoadedCurrent, Busy
<1>4. status \in [Jobs -> Statuses] /\ attempts[j] \in Nat /\ MaxRetries[j] \in Nat
    BY <1>3, QueueAssumption DEF LeasedShape, Shape
<1>5. Complete(j, seen) \/ Bury(j, seen) \/ (~Exhausted(j, seen) /\ Retry(j, seen))
    BY <1>1, <1>2 DEF Settle, Results
<1>6. CASE Complete(j, seen)
    BY <1>3, <1>4, <1>6 DEF Complete, SetStatus, Settled
<1>7. CASE Bury(j, seen)
    BY <1>3, <1>4, <1>7 DEF Bury, SetStatus, Settled
<1>8. CASE ~Exhausted(j, seen) /\ Retry(j, seen)
    BY <1>3, <1>4, <1>8 DEF Exhausted, Retry, SetStatus
<1>9. QED BY <1>5, <1>6, <1>7, <1>8

LEMMA SettleAccounts ==
    ASSUME LeasedShape, Accounts, NEW w \in Workers, Settle(w)
    PROVE  Accounts'
<1>1. PICK j : j = worker[w].job
    OBVIOUS
<1>2. /\ j \in Jobs /\ attempts[j] \in Nat
      /\ status \in [Jobs -> Statuses]
      /\ \/ \E new \in Settled : status' = [status EXCEPT ![j] = new]
         \/ status' = [status EXCEPT ![j] = "pending"] /\ attempts[j] < MaxRetries[j]
    BY <1>1, SettleLeaves
<1>3. UNCHANGED <<attempts, crashes, succeeded>> /\ worker' = [worker EXCEPT ![w] = IdleWorker]
    BY DEF Settle
<1>4. worker'[w].at = "idle" /\ \A v \in Workers \ {w} : worker'[v] = worker[v]
    BY <1>3, IdleChange DEF LeasedShape
<1>5. ASSUME NEW i \in Jobs PROVE Budgeted(i)'
  <2>1. CASE i # j
    <3>1. Unheld(i)' => Unheld(i)
        BY <1>1, <1>2, <1>4, <2>1 DEF Unheld, Busy
    <3>2. QED BY <1>3, <3>1, BudgetKept DEF Accounts
  <2>2. CASE i = j
    <3>1. Budget(j) \in Nat /\ MaxRetries[j] <= Budget(j) /\ MaxRetries[j] \in Nat
        BY <1>2, BudgetNat, QueueAssumption
    <3>2. attempts[j] <= Budget(j) + crashes /\ crashes \in Nat
        BY <1>2 DEF Accounts, Budgeted
    <3>3. Unheld(j)' => attempts[j] < Budget(j) + crashes
        BY <1>2, <3>1, <3>2 DEF Unheld, Settled
    <3>4. QED BY <1>3, <2>2, <3>2, <3>3 DEF Budgeted, Budget
  <2>3. QED BY <2>1, <2>2
<1>6. QED BY <1>3, <1>5 DEF Accounts

LEMMA AbandonAccounts ==
    ASSUME LeasedShape, Accounts, NEW w \in Workers, Abandon(w)
    PROVE  Accounts'
<1>1. /\ worker'[w].at = "idle" /\ \A v \in Workers \ {w} : worker'[v] = worker[v]
      /\ UNCHANGED <<row, succeeded>> /\ crashes' = crashes + 1
    BY IdleChange DEF Abandon, LeasedShape
<1>2. ASSUME NEW j \in Jobs PROVE Budgeted(j)'
  <2>1. attempts[j] \in Nat /\ Budget(j) \in Nat /\ crashes \in Nat
        /\ attempts[j] <= Budget(j) + crashes
      BY BudgetNat DEF LeasedShape, Shape, Accounts, Budgeted
  <2>2. QED BY <1>1, <2>1 DEF Budgeted, Budget, row
<1>3. QED BY <1>1, <1>2 DEF Accounts

LEMMA TickAccounts ==
    ASSUME LeasedShape, Accounts, Tick \/ UNCHANGED vars
    PROVE  Accounts'
BY DEF Tick, vars, row, Accounts, Budgeted, Budget, Unheld, Busy

LEMMA AlwaysAccounted ==
    ASSUME MayOverrun = FALSE
    PROVE  Spec => []Accounts
<1>1. LeasedShape /\ Accounts /\ [Next]_vars => Accounts'
    BY EnqueueAccounts, ClaimAccounts, EndAccounts, SettleAccounts, AbandonAccounts, TickAccounts
       DEF Next, Work
<1>2. QED BY InitAccounts, AlwaysLeased, <1>1, PTL DEF Spec

(* If no handler outlives its lease, no job is attempted more often than   *)
(* max_retries and the attempts that were lost to crashes allow.           *)
THEOREM AttemptsBounded ==
    ASSUME MayOverrun = FALSE
    PROVE  Spec => []AttemptsAccounted
<1>1. Accounts => AttemptsAccounted
    BY DEF Accounts, Budgeted, AttemptsAccounted
<1>2. QED BY <1>1, AlwaysAccounted, PTL

-----------------------------------------------------------------------------
(* The refinement: claiming a row takes the task, settling or abandoning   *)
(* it gives it back, and nothing else shows.                               *)
LEMMA ClaimTakes ==
    ASSUME LeasedShape, NEW w \in Workers, Claim(w)
    PROVE  \E j \in Jobs : Exclusive!Take(j, w)
<1>1. PICK j \in Jobs :
        /\ First(j)
        /\ status' = [i \in Jobs |-> IF i = j THEN "running"
                                     ELSE IF Stale(i) THEN "pending" ELSE status[i]]
        /\ worker' = [worker EXCEPT ![w] = [@ EXCEPT !.at = "running", !.job = j]]
    BY DEF Claim
<1>2. Due(j) /\ worker[w].at = "idle"
    BY <1>1 DEF First, Claim
<1>3. /\ worker'[w].at = "running" /\ worker'[w].job = j
      /\ \A v \in Workers \ {w} : worker'[v] = worker[v]
    BY <1>1, ClaimChange DEF LeasedShape
<1>4. \A v \in Workers : Busy(v) => worker[v].job # j
    BY <1>2, NotHeld
<1>5. outcome[j] = "open" /\ outcome' = outcome
    BY <1>1, <1>2 DEF outcome, Due, Stale, Settled
<1>6. holders[j] = {} /\ \A i \in Jobs : w \notin holders[i]
    BY <1>2, <1>4 DEF holders, Busy
<1>7. holders' = [holders EXCEPT ![j] = {w}]
  <2>1. ASSUME NEW i \in Jobs
        PROVE {v \in Workers : Busy(v)' /\ worker'[v].job = i}
                = IF i = j THEN {w} ELSE {v \in Workers : Busy(v) /\ worker[v].job = i}
      BY <1>2, <1>3, <1>4 DEF Busy
  <2>2. QED BY <2>1 DEF holders
<1>8. QED BY <1>5, <1>6, <1>7 DEF Exclusive!Take

LEMMA IdleGivesBack ==
    ASSUME LeasedShape, NEW w \in Workers, Busy(w), NEW j, j = worker[w].job,
           worker' = [worker EXCEPT ![w] = IdleWorker]
    PROVE  /\ w \in holders[j]
           /\ holders' = [holders EXCEPT ![j] = {}]
<1>1. j \in Jobs /\ \A v \in Workers : Busy(v) /\ worker[v].job = j => v = w
    BY DEF LeasedShape, LeaseInv, Leased, RunByOne
<1>2. worker'[w].at = "idle" /\ \A v \in Workers \ {w} : worker'[v] = worker[v]
    BY IdleChange DEF LeasedShape
<1>3. ASSUME NEW i \in Jobs
      PROVE {v \in Workers : Busy(v)' /\ worker'[v].job = i}
              = IF i = j THEN {} ELSE {v \in Workers : Busy(v) /\ worker[v].job = i}
    BY <1>1, <1>2 DEF Busy
<1>4. QED BY <1>1, <1>3 DEF holders

LEMMA SettleGivesBack ==
    ASSUME LeasedShape, NEW w \in Workers, Settle(w)
    PROVE  \E j \in Jobs, result \in {"open", "completed", "dead"} :
                Exclusive!GiveBack(j, w, result)
<1>1. PICK j : j = worker[w].job
    OBVIOUS
<1>2. j \in Jobs /\ status[j] = "running"
    BY <1>1, SettleWrites
<1>3. PICK new \in {"completed", "dead", "pending"} : status' = [status EXCEPT ![j] = new]
    BY <1>1, SettleWrites
<1>4. w \in holders[j] /\ holders' = [holders EXCEPT ![j] = {}]
    BY <1>1, IdleGivesBack DEF Settle, Busy
<1>5. outcome[j] = "open"
    BY <1>2 DEF outcome, Settled
<1>6. outcome' = [outcome EXCEPT ![j] = IF new = "pending" THEN "open" ELSE new]
    BY <1>2, <1>3 DEF outcome, Settled, LeasedShape, Shape
<1>7. QED BY <1>2, <1>4, <1>5, <1>6 DEF Exclusive!GiveBack

LEMMA AbandonGivesBack ==
    ASSUME LeasedShape, NEW w \in Workers, Abandon(w)
    PROVE  \E j \in Jobs : Exclusive!GiveBack(j, w, "open")
<1>1. PICK j : j = worker[w].job
    OBVIOUS
<1>2. j \in Jobs /\ status[j] = "running" /\ status' = status
    BY <1>1 DEF Abandon, row, Busy, LeasedShape, LeaseInv, Leased
<1>3. w \in holders[j] /\ holders' = [holders EXCEPT ![j] = {}]
    BY <1>1, IdleGivesBack DEF Abandon, Busy
<1>4. outcome[j] = "open" /\ outcome' = [outcome EXCEPT ![j] = "open"]
    BY <1>2 DEF outcome, Settled
<1>5. QED BY <1>2, <1>3, <1>4 DEF Exclusive!GiveBack

LEMMA NothingShows ==
    ASSUME LeasedShape, ~ UNCHANGED <<outcome, holders>>, [Next]_vars
    PROVE  \E w \in Workers : Claim(w) \/ Settle(w) \/ Abandon(w)
<1>1. CASE UNCHANGED vars
    BY <1>1 DEF vars, row, outcome, holders, Busy
<1>2. CASE Tick
    BY <1>2 DEF Tick, outcome, holders, Busy
<1>3. ASSUME NEW j \in Jobs, Enqueue(j) PROVE UNCHANGED <<outcome, holders>>
  <2>1. outcome' = outcome
      BY <1>3 DEF Enqueue, outcome, Settled, LeasedShape, Shape
  <2>2. holders' = holders
      BY <1>3 DEF Enqueue, holders, Busy
  <2>3. QED BY <2>1, <2>2
<1>4. ASSUME NEW w \in Workers, NEW result \in Results, EndHandler(w, result)
      PROVE UNCHANGED <<outcome, holders>>
  <2>1. PICK j : j = worker[w].job
      OBVIOUS
  <2>2. Busy(w) /\ j \in Jobs
      BY <1>4, <2>1 DEF EndHandler, Busy, LeasedShape, LeaseInv, Leased
  <2>3. /\ worker'[w].at = "settling" /\ worker'[w].job = j
        /\ \A v \in Workers \ {w} : worker'[v] = worker[v]
      BY <1>4, <2>1, <2>2, EndChange DEF LeasedShape
  <2>4. \A v \in Workers : (Busy(v)' <=> Busy(v)) /\ (Busy(v) => worker'[v].job = worker[v].job)
      BY <2>1, <2>2, <2>3 DEF Busy
  <2>5. ASSUME NEW i \in Jobs
        PROVE {v \in Workers : Busy(v)' /\ worker'[v].job = i}
                = {v \in Workers : Busy(v) /\ worker[v].job = i}
      BY <2>4
  <2>6. holders' = holders
      BY <2>5 DEF holders
  <2>7. outcome' = outcome
      BY <1>4 DEF EndHandler, row, outcome
  <2>8. QED BY <2>6, <2>7
<1>5. QED BY <1>1, <1>2, <1>3, <1>4 DEF Next, Work

(* If no handler outlives its lease, which is a condition on the handlers  *)
(* that the code does not enforce, the queue implements ExclusiveWork.     *)
THEOREM ImplementsQueue ==
    ASSUME MayOverrun = FALSE
    PROVE  Spec => ImplementsExclusiveWork
<1>1. Init => Exclusive!Init
    BY DEF Init, Exclusive!Init, outcome, holders, Busy, IdleWorker, Settled
<1>2. LeasedShape /\ [Next]_vars => [Exclusive!Next]_(Exclusive!vars)
    BY NothingShows, ClaimTakes, SettleGivesBack, AbandonGivesBack
       DEF Exclusive!Next, Exclusive!vars
<1>3. QED BY <1>1, <1>2, AlwaysLeased, PTL DEF Spec, Exclusive!Spec, ImplementsExclusiveWork
-----------------------------------------------------------------------------
(* The types, whatever the handlers do.  An attempt that is retried has    *)
(* been counted, and less often than max_retries allows, so that its       *)
(* backoff is a number.                                                    *)
WorkerOK(r) ==
    /\ r \in WorkerType
    /\ r.at # "idle" => r.job \in Jobs
    /\ r.at = "settling" => r.seen.attempts >= 1

Typed ==
    /\ TypeOK
    /\ \A w \in Workers : /\ WorkerOK(worker[w])
                          /\ worker[w].at # "idle" => attempts[worker[w].job] >= 1

LEMMA WorkerPut ==
    ASSUME Typed, NEW w \in Workers, NEW r, WorkerOK(r), worker' = [worker EXCEPT ![w] = r],
           r.at # "idle" => attempts'[r.job] >= 1,
           \A j \in Jobs : attempts'[j] >= attempts[j] /\ attempts'[j] \in Nat,
           status' \in [Jobs -> Statuses], attempts' \in [Jobs -> Nat],
           wait' \in [Jobs -> Nat], born' \in [Jobs -> Nat], age' \in [Jobs -> Ages],
           crashes' \in 0..MaxCrashes, succeeded' \in SUBSET Jobs
    PROVE  Typed'
<1>1. worker'[w] = r /\ \A v \in Workers \ {w} : worker'[v] = worker[v]
    BY DEF Typed, TypeOK
<1>2. worker' \in [Workers -> WorkerType]
    BY DEF Typed, TypeOK, WorkerOK
<1>3. ASSUME NEW v \in Workers
      PROVE  /\ WorkerOK(worker'[v])
             /\ worker'[v].at # "idle" => attempts'[worker'[v].job] >= 1
  <2>1. CASE v = w
      BY <1>1, <2>1
  <2>2. CASE v # w
    <3>1. PICK q : q = worker[v]
        OBVIOUS
    <3>2. WorkerOK(q) /\ (q.at # "idle" => q.job \in Jobs /\ attempts[q.job] >= 1)
        BY <3>1 DEF Typed, WorkerOK
    <3>3. q.at # "idle" => attempts[q.job] \in Nat /\ attempts'[q.job] >= 1
        BY <3>2 DEF Typed, TypeOK
    <3>4. QED BY <1>1, <2>2, <3>1, <3>2, <3>3
  <2>3. QED BY <2>1, <2>2
<1>4. QED BY <1>2, <1>3 DEF Typed, TypeOK, WorkerOK

LEMMA IdleOK == WorkerOK(IdleWorker) /\ IdleWorker.at = "idle"
BY DEF IdleWorker, NothingSeen, WorkerOK, WorkerType, Statuses, Results

LEMMA BackoffIsNumber ==
    ASSUME NEW j \in Jobs, NEW n \in Nat, n >= 1, n < MaxRetries[j]
    PROVE  Backoff(n) \in Nat
<1>1. n - 1 \in 0..MaxRetries[j] /\ Base \in Nat
    BY QueueAssumption
<1>2. 2^(n - 1) \in Nat
    BY <1>1, PowersAreNumbers
<1>3. \A p \in Nat : Base * p \in Nat
    BY <1>1
<1>4. QED BY <1>2, <1>3 DEF Backoff

LEMMA TypedInit == Init => Typed
<1>1. ASSUME Init
      PROVE  TypeOK
    BY <1>1, IdleOK, QueueAssumption DEF Init, TypeOK, Statuses, Ages, WorkerOK
<1>2. QED BY <1>1, IdleOK DEF Init, Typed

LEMMA TypedStep == Typed /\ [Next]_vars => Typed'
<1> SUFFICES ASSUME Typed, [Next]_vars
             PROVE  Typed'
    OBVIOUS
<1> USE DEF row
<1>1. CASE UNCHANGED vars
    BY <1>1 DEF vars, Typed, TypeOK, WorkerOK
<1>2. CASE Tick
  <2>1. age' \in [Jobs -> Ages] /\ wait' \in [Jobs -> Nat]
      BY <1>2, QueueAssumption DEF Tick, Older, Typed, TypeOK, Ages
  <2>2. QED BY <1>2, <2>1 DEF Tick, Typed, TypeOK, WorkerOK
<1>3. ASSUME NEW j \in Jobs, Enqueue(j)
      PROVE  Typed'
  <2>1. Cardinality({i \in Jobs : status[i] # "absent"}) \in Nat
    <3>1. IsFiniteSet({i \in Jobs : status[i] # "absent"})
        BY QueueAssumption, FS_Subset
    <3>2. QED BY <3>1, FS_CardinalityType
  <2>2. status' \in [Jobs -> Statuses] /\ wait' \in [Jobs -> Nat] /\ born' \in [Jobs -> Nat]
      BY <1>3, <2>1, QueueAssumption DEF Enqueue, Typed, TypeOK, Statuses
  <2>3. QED BY <1>3, <2>2 DEF Enqueue, Typed, TypeOK, WorkerOK
<1>4. ASSUME NEW w \in Workers, Claim(w)
      PROVE  Typed'
  <2>1. PICK j \in Jobs :
        /\ status' = [i \in Jobs |-> IF i = j THEN "running"
                                     ELSE IF Stale(i) THEN "pending" ELSE status[i]]
        /\ age' = [i \in Jobs |-> IF i = j THEN 0
                                  ELSE IF Stale(i) THEN Unlocked ELSE age[i]]
        /\ attempts' = [attempts EXCEPT ![j] = attempts[j] + 1]
        /\ worker' = [worker EXCEPT ![w] = [worker[w] EXCEPT !.at = "running", !.job = j]]
        /\ UNCHANGED <<wait, born, crashes, succeeded>>
      BY <1>4 DEF Claim
  <2>2. PICK r : r = [worker[w] EXCEPT !.at = "running", !.job = j]
      OBVIOUS
  <2>3. WorkerOK(r) /\ r.job = j
      BY <2>2 DEF Typed, TypeOK, WorkerOK, WorkerType
  <2>4. /\ status' \in [Jobs -> Statuses] /\ age' \in [Jobs -> Ages]
        /\ attempts' \in [Jobs -> Nat] /\ attempts'[j] >= 1
        /\ \A i \in Jobs : attempts'[i] >= attempts[i] /\ attempts'[i] \in Nat
      BY <2>1, QueueAssumption DEF Typed, TypeOK, Statuses, Ages
  <2>5. /\ wait' \in [Jobs -> Nat] /\ born' \in [Jobs -> Nat]
        /\ crashes' \in 0..MaxCrashes /\ succeeded' \in SUBSET Jobs
        /\ worker' = [worker EXCEPT ![w] = r]
      BY <2>1, <2>2 DEF Typed, TypeOK
  <2>6. QED BY <2>3, <2>4, <2>5, WorkerPut
<1>5. ASSUME NEW w \in Workers, NEW result \in Results, EndHandler(w, result)
      PROVE  Typed'
  <2>1. PICK j, r : /\ j = worker[w].job
                    /\ r = [worker[w] EXCEPT !.at = "settling", !.result = result,
                                             !.seen = Loaded(j)]
      OBVIOUS
  <2>2. /\ j \in Jobs /\ attempts[j] >= 1
        /\ worker' = [worker EXCEPT ![w] = r]
        /\ succeeded' \in SUBSET Jobs /\ UNCHANGED <<row, crashes>>
      BY <1>5, <2>1 DEF EndHandler, Typed, TypeOK, WorkerOK
  <2>3. Loaded(j) \in [status : Statuses, attempts : Nat, locked : BOOLEAN]
        /\ Loaded(j).attempts = attempts[j]
      BY <2>2 DEF Loaded, Typed, TypeOK
  <2>4. r \in WorkerType /\ r.job = j /\ r.seen.attempts = attempts[j]
      BY <2>1, <2>3 DEF Typed, TypeOK, WorkerType
  <2>5. WorkerOK(r)
      BY <2>2, <2>4 DEF WorkerOK
  <2>6. QED BY <2>2, <2>4, <2>5, WorkerPut DEF Typed, TypeOK
<1>6. ASSUME NEW w \in Workers, Settle(w)
      PROVE  Typed'
  <2>1. PICK j, seen : j = worker[w].job /\ seen = worker[w].seen
      OBVIOUS
  <2>2. /\ worker[w].at = "settling" /\ worker[w].result \in Results
        /\ j \in Jobs /\ seen.attempts \in Nat /\ seen.attempts >= 1
        /\ worker' = [worker EXCEPT ![w] = IdleWorker]
        /\ UNCHANGED <<attempts, born, crashes, succeeded>>
      BY <1>6, <2>1 DEF Settle, Typed, TypeOK, WorkerOK, WorkerType
  <2>3. Complete(j, seen) \/ Bury(j, seen) \/ (~Exhausted(j, seen) /\ Retry(j, seen))
      BY <1>6, <2>1, <2>2 DEF Settle, Results
  <2>4. ~Exhausted(j, seen) => Backoff(seen.attempts) \in Nat
      BY <2>2, BackoffIsNumber, QueueAssumption DEF Exhausted
  <2>5. wait' \in [Jobs -> Nat]
      BY <2>3, <2>4 DEF Complete, Bury, Retry, Typed, TypeOK
  <2>6. status' \in [Jobs -> Statuses] /\ age' \in [Jobs -> Ages]
      BY <2>3 DEF Complete, Bury, Retry, SetStatus, Unlock, Typed, TypeOK, Statuses, Ages
  <2>7. \A i \in Jobs : attempts[i] >= attempts[i] /\ attempts[i] \in Nat
      BY DEF Typed, TypeOK
  <2>8. QED BY <2>2, <2>5, <2>6, <2>7, IdleOK, WorkerPut DEF Typed, TypeOK
<1>7. ASSUME NEW w \in Workers, Abandon(w)
      PROVE  Typed'
  <2>1. crashes' \in 0..MaxCrashes
      BY <1>7, QueueAssumption DEF Abandon, Typed, TypeOK
  <2>2. \A i \in Jobs : attempts[i] >= attempts[i] /\ attempts[i] \in Nat
      BY DEF Typed, TypeOK
  <2>3. QED BY <1>7, <2>1, <2>2, IdleOK, WorkerPut DEF Abandon, Typed, TypeOK
<1>8. QED BY <1>1, <1>2, <1>3, <1>4, <1>5, <1>6, <1>7 DEF Next, Work

(* Every reachable state of the queue is well typed, also where handlers   *)
(* outlive their leases.                                                   *)
THEOREM TypeCorrect == Spec => []TypeOK
<1>1. Typed => TypeOK
    BY DEF Typed
<1>2. QED BY <1>1, TypedInit, TypedStep, PTL DEF Spec

-----------------------------------------------------------------------------
(* The final status tells the truth even if a handler outlives its lease   *)
(* and several workers settle one job from stale copies of its row: what a *)
(* worker that settles knows of its job stays true, since attempts only    *)
(* grow and a handler that has returned once has returned.                 *)
Knows(w) ==
    worker[w].at = "settling" =>
        /\ worker[w].result = "returned" => worker[w].job \in succeeded
        /\ worker[w].result = "unhandled" => worker[w].job \notin Registered
        /\ worker[w].seen.attempts <= attempts[worker[w].job]

Truth ==
    /\ Typed
    /\ \A w \in Workers : Knows(w)
    /\ OutcomeIsTrue

LEMMA KnowsKept ==
    ASSUME Typed, NEW v \in Workers, Knows(v), worker'[v] = worker[v], succeeded \subseteq succeeded',
           \A j \in Jobs : attempts'[j] >= attempts[j] /\ attempts'[j] \in Nat
    PROVE  Knows(v)'
<1>1. PICK q : q = worker[v]
    OBVIOUS
<1>2. q.at = "settling" => /\ q.job \in Jobs /\ attempts[q.job] \in Nat
                           /\ q.seen.attempts \in Nat
    BY <1>1 DEF Typed, TypeOK, WorkerOK, WorkerType
<1>3. QED BY <1>1, <1>2 DEF Knows

LEMMA EndKnows ==
    ASSUME Truth, NEW w \in Workers, NEW result \in Results, EndHandler(w, result)
    PROVE  (\A v \in Workers : Knows(v)') /\ OutcomeIsTrue'
<1>1. PICK j, r : /\ j = worker[w].job
                  /\ r = [worker[w] EXCEPT !.at = "settling", !.result = result,
                                           !.seen = Loaded(j)]
    OBVIOUS
<1>2. /\ worker[w].at = "running" /\ worker' = [worker EXCEPT ![w] = r]
      /\ UNCHANGED row /\ succeeded \subseteq succeeded'
      /\ result = "returned" => j \in succeeded'
      /\ result = "unhandled" => j \notin Registered
    BY <1>1 DEF EndHandler
<1>3. worker[w] \in WorkerType /\ worker \in [Workers -> WorkerType] /\ j \in Jobs
    BY <1>1, <1>2 DEF Truth, Typed, TypeOK, WorkerOK
<1>4. r.job = j /\ r.result = result /\ r.seen.attempts = attempts[j]
    BY <1>1, <1>3 DEF WorkerType, Loaded
<1>5. \A i \in Jobs : attempts' = attempts /\ attempts[i] \in Nat
    BY <1>2 DEF row, Truth, Typed, TypeOK
<1>6. ASSUME NEW v \in Workers PROVE Knows(v)'
  <2>1. CASE v = w
    <3>1. worker'[v] = r
        BY <1>2, <1>3, <2>1
    <3>2. QED BY <1>2, <1>3, <1>4, <1>5, <3>1 DEF Knows
  <2>2. CASE v # w
    <3>1. worker'[v] = worker[v]
        BY <1>2, <1>3, <2>2
    <3>2. QED BY <1>2, <1>5, <3>1, KnowsKept DEF Truth
  <2>3. QED BY <2>1, <2>2
<1>7. OutcomeIsTrue'
    BY <1>2 DEF OutcomeIsTrue, Truth, row
<1>8. QED BY <1>6, <1>7

(* What is written of a job is true of it, or was written before.          *)
LEMMA SettleTells ==
    ASSUME Truth, NEW w \in Workers, Settle(w), NEW j, j = worker[w].job
    PROVE  \E new \in Statuses :
              /\ status' = [status EXCEPT ![j] = new]
              /\ \/ new = status[j] \/ new = "pending"
                 \/ new = "completed" /\ j \in succeeded
                 \/ new = "dead" /\ (j \notin Registered \/ attempts[j] >= MaxRetries[j])
<1>1. PICK seen : seen = worker[w].seen
    OBVIOUS
<1>2. worker[w].at = "settling" /\ worker[w].result \in Results
    BY DEF Settle, Truth, Typed, WorkerOK, WorkerType
<1>3. /\ j \in Jobs /\ attempts[j] \in Nat /\ MaxRetries[j] \in Nat /\ status[j] \in Statuses
      /\ seen.attempts \in Nat /\ seen.attempts <= attempts[j]
    BY <1>1, <1>2, QueueAssumption DEF Truth, Typed, TypeOK, WorkerOK, WorkerType, Knows
<1>4. \A new : SetStatus(j, seen, new) =>
            \/ status' = [status EXCEPT ![j] = status[j]]
            \/ status' = [status EXCEPT ![j] = new]
    BY DEF SetStatus
<1>5. CASE worker[w].result = "returned"
  <2>1. SetStatus(j, seen, "completed") /\ j \in succeeded
      BY <1>1, <1>2, <1>5 DEF Settle, Complete, Truth, Knows
  <2>2. QED BY <1>3, <1>4, <2>1 DEF Statuses
<1>6. CASE worker[w].result = "unhandled"
  <2>1. SetStatus(j, seen, "dead") /\ j \notin Registered
      BY <1>1, <1>2, <1>6 DEF Settle, Bury, Truth, Knows
  <2>2. QED BY <1>3, <1>4, <2>1 DEF Statuses
<1>7. CASE worker[w].result = "raised"
  <2>1. IF Exhausted(j, seen) THEN Bury(j, seen) ELSE Retry(j, seen)
      BY <1>1, <1>7 DEF Settle
  <2>2. CASE Exhausted(j, seen)
    <3>1. SetStatus(j, seen, "dead") /\ attempts[j] >= MaxRetries[j]
        BY <1>3, <2>1, <2>2 DEF Exhausted, Bury
    <3>2. QED BY <1>3, <1>4, <3>1 DEF Statuses
  <2>3. CASE ~Exhausted(j, seen)
    <3>1. SetStatus(j, seen, "pending")
        BY <2>1, <2>3 DEF Retry
    <3>2. QED BY <1>3, <1>4, <3>1 DEF Statuses
  <2>4. QED BY <2>2, <2>3
<1>8. QED BY <1>2, <1>5, <1>6, <1>7 DEF Results

LEMMA TruthStep == Truth /\ [Next]_vars => Truth'
<1> SUFFICES ASSUME Truth, [Next]_vars
             PROVE  (\A v \in Workers : Knows(v)') /\ OutcomeIsTrue'
    BY TypedStep DEF Truth
<1>1. /\ worker \in [Workers -> WorkerType] /\ status \in [Jobs -> Statuses]
      /\ attempts \in [Jobs -> Nat] /\ Typed
    BY DEF Truth, Typed, TypeOK
<1>2. ASSUME NEW w \in Workers, NEW r, worker' = [worker EXCEPT ![w] = r], r.at # "settling",
             succeeded' = succeeded,
             \A j \in Jobs : attempts'[j] >= attempts[j] /\ attempts'[j] \in Nat
      PROVE  \A v \in Workers : Knows(v)'
  <2>1. ASSUME NEW v \in Workers PROVE Knows(v)'
    <3>1. CASE v = w
        BY <1>1, <1>2, <3>1 DEF Knows
    <3>2. CASE v # w
        BY <1>1, <1>2, <3>2, KnowsKept DEF Truth
    <3>3. QED BY <3>1, <3>2
  <2>2. QED BY <2>1
<1>3. CASE Tick \/ UNCHANGED vars
    BY <1>3 DEF Tick, vars, row, Truth, Knows, OutcomeIsTrue
<1>4. ASSUME NEW j \in Jobs, Enqueue(j) PROVE (\A v \in Workers : Knows(v)') /\ OutcomeIsTrue'
    BY <1>1, <1>4 DEF Enqueue, Truth, Knows, OutcomeIsTrue
<1>5. ASSUME NEW w \in Workers, Claim(w) PROVE (\A v \in Workers : Knows(v)') /\ OutcomeIsTrue'
  <2>1. PICK j \in Jobs :
        /\ First(j)
        /\ status' = [i \in Jobs |-> IF i = j THEN "running"
                                     ELSE IF Stale(i) THEN "pending" ELSE status[i]]
        /\ attempts' = [attempts EXCEPT ![j] = attempts[j] + 1]
        /\ worker' = [worker EXCEPT ![w] = [worker[w] EXCEPT !.at = "running", !.job = j]]
        /\ succeeded' = succeeded
      BY <1>5 DEF Claim
  <2>2. PICK r : r = [worker[w] EXCEPT !.at = "running", !.job = j]
      OBVIOUS
  <2>3. r.at = "running"
      BY <1>1, <2>2 DEF WorkerType
  <2>4. \A i \in Jobs : attempts'[i] >= attempts[i] /\ attempts'[i] \in Nat
      BY <1>1, <2>1
  <2>5. \A v \in Workers : Knows(v)'
      BY <1>2, <2>1, <2>2, <2>3, <2>4
  <2>6. ASSUME NEW i \in Jobs, status'[i] \in Settled
        PROVE  status'[i] = status[i] /\ attempts'[i] = attempts[i]
      BY <1>1, <2>1, <2>6 DEF Settled
  <2>7. QED BY <2>1, <2>5, <2>6 DEF OutcomeIsTrue, Truth, Settled
<1>6. ASSUME NEW w \in Workers, NEW result \in Results, EndHandler(w, result)
      PROVE  (\A v \in Workers : Knows(v)') /\ OutcomeIsTrue'
    BY <1>6, EndKnows
<1>7. ASSUME NEW w \in Workers, Settle(w) PROVE (\A v \in Workers : Knows(v)') /\ OutcomeIsTrue'
  <2>1. /\ worker' = [worker EXCEPT ![w] = IdleWorker]
        /\ attempts' = attempts /\ succeeded' = succeeded
      BY <1>7 DEF Settle
  <2>2. \A v \in Workers : Knows(v)'
    <3>1. \A i \in Jobs : attempts'[i] >= attempts[i] /\ attempts'[i] \in Nat
        BY <1>1, <2>1
    <3>2. QED BY <1>2, <2>1, <3>1, IdleOK
  <2>3. PICK j : j = worker[w].job
      OBVIOUS
  <2>4. PICK new \in Statuses :
              /\ status' = [status EXCEPT ![j] = new]
              /\ \/ new = status[j] \/ new = "pending"
                 \/ new = "completed" /\ j \in succeeded
                 \/ new = "dead" /\ (j \notin Registered \/ attempts[j] >= MaxRetries[j])
      BY <1>7, <2>3, SettleTells
  <2>5. OutcomeIsTrue'
      BY <1>1, <2>1, <2>4 DEF OutcomeIsTrue, Truth
  <2>6. QED BY <2>2, <2>5
<1>8. ASSUME NEW w \in Workers, Abandon(w) PROVE (\A v \in Workers : Knows(v)') /\ OutcomeIsTrue'
  <2>1. \A v \in Workers : Knows(v)'
    <3>1. /\ worker' = [worker EXCEPT ![w] = IdleWorker] /\ succeeded' = succeeded
          /\ \A i \in Jobs : attempts'[i] >= attempts[i] /\ attempts'[i] \in Nat
        BY <1>1, <1>8 DEF Abandon, row
    <3>2. QED BY <1>2, <3>1, IdleOK
  <2>2. QED BY <1>8, <2>1 DEF Abandon, row, OutcomeIsTrue, Truth
<1>9. QED BY <1>3, <1>4, <1>5, <1>6, <1>7, <1>8 DEF Next, Work

(* A completed job's handler has returned; a dead job has no handler or    *)
(* has used up its retries, also where handlers outlive their leases.      *)
THEOREM OutcomesAreTrue == Spec => []OutcomeIsTrue
<1>1. Init => Truth
  <2>1. ASSUME Init PROVE Typed
      BY <2>1, TypedInit
  <2>2. QED BY <2>1 DEF Init, Truth, Knows, OutcomeIsTrue, IdleWorker
<1>2. Truth => OutcomeIsTrue
    BY DEF Truth
<1>3. QED BY <1>1, <1>2, TruthStep, PTL DEF Spec

=============================================================================
