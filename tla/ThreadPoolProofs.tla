--------------------------- MODULE ThreadPoolProofs ---------------------------
(***************************************************************************)
(* Proofs about the thread pool, for any number of workers, submitters and *)
(* tasks.                                                                  *)
(***************************************************************************)
EXTENDS ThreadPool, TLAPS

-------------------------------------------------------------------------------
(* Type correctness *)

\* The constructor leaves every variable in its type.
LEMMA TypeInit == Init => TypeOK
<1> SUFFICES ASSUME Init PROVE TypeOK
  OBVIOUS
<1>1. stop_ \in BOOLEAN /\ terminated \in BOOLEAN
  BY Zenon DEF Init
<1>2. queue_ \in Seq(Tasks) /\ accepted \in Seq(Tasks) /\ started \in Nat
  BY DEF Init
<1> QED
  BY <1>1, <1>2 DEF Init, TypeOK

\* Each step of a submitter, a worker or the destructor keeps every variable in
\* its type; in particular what front() hands to a worker is a queued task.
LEMMA TypeStep == TypeOK /\ [Next]_vars => TypeOK'
<1> SUFFICES ASSUME TypeOK, [Next]_vars PROVE TypeOK'
  OBVIOUS
<1>1. ASSUME NEW s \in Submitters, NEW t \in Tasks, SubmitPlain(s, t) PROVE TypeOK'
  BY <1>1 DEF TypeOK, SubmitPlain, Enqueue
<1>2. ASSUME NEW s \in Submitters, NEW t \in Tasks, SubmitChecked(s, t) PROVE TypeOK'
  <2>1. CASE stop_
    BY <1>2, <2>1 DEF TypeOK, SubmitChecked
  <2>2. CASE ~stop_
    <3>1. Enqueue(s, t) /\ UNCHANGED <<stop_, worker, task, dtor, outcome, terminated, started>>
      BY <1>2, <2>2, Zenon DEF SubmitChecked
    <3> QED
      BY <3>1 DEF TypeOK, Enqueue
  <2> QED
    BY <2>1, <2>2
<1>3. ASSUME NEW s \in Submitters, NotifyOne(s) PROVE TypeOK'
  BY <1>3 DEF TypeOK, NotifyOne, Waiting
<1>4. ASSUME NEW w \in Workers, WaitForWork(w) \/ SpuriousWakeup(w) \/ ExitLoop(w)
      PROVE TypeOK'
  BY <1>4 DEF TypeOK, WaitForWork, SpuriousWakeup, ExitLoop
<1>5. ASSUME NEW w \in Workers, TakeTask(w) PROVE TypeOK'
  BY <1>5 DEF TypeOK, TakeTask
<1>6. ASSUME NEW w \in Workers, ReturnTask(w) \/ CatchException(w) PROVE TypeOK'
  BY <1>6 DEF TypeOK, ReturnTask, CatchException
<1>7. ASSUME NEW w \in Workers, UncaughtException(w) PROVE TypeOK'
  BY <1>7 DEF TypeOK, UncaughtException
<1>8. ASSUME Destroy PROVE TypeOK'
  BY <1>8 DEF TypeOK, Destroy, BeginDestroy, NotifyAll, JoinAll
<1>9. ASSUME UNCHANGED vars PROVE TypeOK'
  BY <1>9 DEF TypeOK, vars
<1> QED
  BY <1>1, <1>2, <1>3, <1>4, <1>5, <1>6, <1>7, <1>8, <1>9
  DEF Next, Submit, WorkLoop, Ended

\* TypeOK holds in every reachable state of the pool.
THEOREM PoolTypeCorrect == Spec => []TypeOK
<1>1. Init => TypeOK
  BY TypeInit
<1>2. TypeOK /\ [Next]_vars => TypeOK'
  BY TypeStep
<1> QED
  BY <1>1, <1>2, PTL DEF Spec

-------------------------------------------------------------------------------
(* The inductive invariant *)

\* No task is queued twice.
Distinct ==
  \A i, j \in 1..Len(accepted) : accepted[i] = accepted[j] => i = j

\* What still waits has no result; what was taken has one, or a worker has it.
Queued == \A i \in 1..Len(accepted) : i > started => outcome[accepted[i]] = "none"

Taken ==
  \A i \in 1..Len(accepted) : i <= started =>
    \/ outcome[accepted[i]] \in {"value", "exception"}
    \/ \E w \in Workers : Active(w) /\ task[w] = accepted[i]

\* A running worker holds a taken task that has no result, and holds it alone.
Holding ==
  /\ \A w \in Workers : Active(w) =>
       /\ outcome[task[w]] = "none"
       /\ \E i \in 1..Len(accepted) : i <= started /\ task[w] = accepted[i]
  /\ \A v, w \in Workers : Active(v) /\ Active(w) /\ task[v] = task[w] => v = w

\* stop_ is set by the destructor only; a worker leaves a stopped, empty pool.
Stopping ==
  /\ stop_ <=> dtor # "alive"
  /\ \A w \in Workers : worker[w] = "exited" => stop_ /\ queue_ = <<>>
  /\ dtor = "destroyed" => \A w \in Workers : worker[w] = "exited"

PoolInv ==
  /\ TypeOK /\ FifoStart /\ Distinct /\ Queued /\ Taken /\ Holding
  /\ Stopping /\ NoLostWakeup

\* The constructor establishes the invariant.
LEMMA InvInit == Init => PoolInv
<1> SUFFICES ASSUME Init PROVE PoolInv
  OBVIOUS
<1>1. TypeOK
  BY TypeInit
<1>2. FifoStart /\ Distinct /\ Queued /\ Taken
  BY DEF Init, FifoStart, Distinct, Queued, Taken
<1>3. Holding
  BY DEF Init, Holding, Active
<1>4. Stopping
  BY Zenon DEF Init, Stopping
<1>5. NoLostWakeup
  BY DEF Init, NoLostWakeup, Waiting
<1> QED
  BY <1>1, <1>2, <1>3, <1>4, <1>5 DEF PoolInv

\* Queueing a fresh task while the pool is not stopped, the critical section of
\* both Submit overloads.
LEMMA EnqueueStep ==
  ASSUME PoolInv, TypeOK', NEW s \in Submitters, NEW t \in Tasks,
         Fresh(t), dtor = "alive", Enqueue(s, t),
         UNCHANGED <<stop_, worker, task, dtor, outcome, started>>
  PROVE  PoolInv'
<1>0. /\ TypeOK
      /\ Len(accepted') = Len(accepted) + 1 /\ Len(queue_') = Len(queue_) + 1
      /\ accepted'[Len(accepted) + 1] = t /\ queue_'[Len(queue_) + 1] = t
      /\ \A i \in 1..Len(accepted) : accepted'[i] = accepted[i] /\ accepted[i] # t
      /\ \A i \in 1..Len(queue_) : queue_'[i] = queue_[i]
      /\ outcome[t] = "none"
      /\ Len(accepted) \in Nat /\ Len(queue_) \in Nat /\ started \in Nat
  BY DEF TypeOK, PoolInv, Enqueue, Fresh
<1>1. FifoStart'
  <2>1. ASSUME NEW i \in 1..Len(queue_') PROVE queue_'[i] = accepted'[started + i]
    <3>1. CASE i \in 1..Len(queue_)
      BY <1>0, <3>1 DEF PoolInv, FifoStart
    <3>2. CASE i = Len(queue_) + 1
      <4>1. started + i = Len(accepted) + 1
        BY <1>0, <3>2 DEF PoolInv, FifoStart
      <4> QED
        BY <1>0, <3>2, <4>1
    <3> QED
      BY <1>0, <3>1, <3>2
  <2> QED
    BY <1>0, <2>1 DEF PoolInv, FifoStart
<1>2. Distinct'
  BY <1>0 DEF PoolInv, Distinct
<1>3. Queued'
  BY <1>0 DEF PoolInv, Queued
<1>4. Taken'
  BY <1>0 DEF PoolInv, FifoStart, Taken, Active
<1>5. Holding'
  BY <1>0 DEF PoolInv, Holding, Active
<1>6. Stopping'
  BY <1>0, Zenon DEF PoolInv, Stopping
<1>7. NoLostWakeup'
  <2>1. submitter'[s] = "notify"
    BY <1>0 DEF TypeOK, Enqueue
  <2>2. (stop_ /\ Waiting # {} => dtor = "notify")'
    BY <1>0, Zenon DEF PoolInv, NoLostWakeup, Waiting
  <2> QED
    BY <2>1, <2>2, Zenon DEF NoLostWakeup
<1> QED
  BY <1>1, <1>2, <1>3, <1>4, <1>5, <1>6, <1>7 DEF PoolInv

\* A worker takes the head of the queue.
LEMMA TakeStep ==
  ASSUME PoolInv, TypeOK', NEW w \in Workers, TakeTask(w)
  PROVE  PoolInv'
<1>0. /\ TypeOK /\ FifoStart
      /\ started' = started + 1
      /\ Len(queue_') = Len(queue_) - 1
      /\ \A i \in 1..Len(queue_') : queue_'[i] = queue_[i + 1]
      /\ Len(accepted) \in Nat /\ Len(queue_) \in Nat /\ Len(queue_) > 0
      /\ started \in Nat
      /\ queue_[1] = accepted[started + 1] /\ task'[w] = accepted[started + 1]
      /\ started + 1 \in 1..Len(accepted)
      /\ ~Active(w) /\ Active(w)'
      /\ \A v \in Workers : v # w => (Active(v)' <=> Active(v)) /\ task'[v] = task[v]
      /\ UNCHANGED <<stop_, submitter, dtor, outcome, accepted>>
  BY DEF TypeOK, PoolInv, TakeTask, FifoStart, Active
<1>1. FifoStart'
  BY <1>0 DEF FifoStart
<1>2. Distinct' /\ Queued'
  BY <1>0 DEF PoolInv, Distinct, Queued
<1>3. Taken'
  BY <1>0 DEF PoolInv, Taken
<1>4. Holding'
  <2>1. \A v \in Workers : v # w /\ Active(v) => task[v] # accepted[started + 1]
    BY <1>0 DEF PoolInv, Holding, Distinct
  <2>2. outcome[accepted[started + 1]] = "none"
    BY <1>0 DEF PoolInv, Queued
  <2> QED
    BY <1>0, <2>1, <2>2 DEF PoolInv, Holding
<1>5. Stopping'
  <2>1. \A v \in Workers : worker'[v] # "exited" /\ worker[v] # "exited"
    BY <1>0 DEF TypeOK, PoolInv, Stopping, TakeTask
  <2> QED
    BY <1>0, <2>1, Zenon DEF PoolInv, Stopping
<1>6. NoLostWakeup'
  <2>1. worker'[w] = "running" /\ \A v \in Workers : worker'[v] = "waiting" => worker[v] = "waiting"
    BY <1>0 DEF TypeOK, TakeTask
  <2>2. (stop_ /\ Waiting # {} => dtor = "notify")'
    BY <1>0, <2>1, Zenon DEF PoolInv, NoLostWakeup, Waiting
  <2>3. ~(worker'[w] \in {"waiting", "exited"})
    BY <2>1
  <2> QED
    BY <2>2, <2>3, Zenon DEF NoLostWakeup
<1> QED
  BY <1>1, <1>2, <1>3, <1>4, <1>5, <1>6 DEF PoolInv

\* A worker's task ends with a result for its caller.
LEMMA ResultStep ==
  ASSUME PoolInv, TypeOK', NEW w \in Workers, ReturnTask(w) \/ CatchException(w)
  PROVE  PoolInv'
<1>0. /\ TypeOK /\ FifoStart /\ Active(w) /\ ~Active(w)'
      /\ task[w] \in Tasks
      /\ outcome'[task[w]] \in {"value", "exception"}
      /\ \A t \in Tasks : t # task[w] => outcome'[t] = outcome[t]
      /\ \A v \in Workers : v # w =>
           (Active(v)' <=> Active(v)) /\ task'[v] = task[v] /\ worker'[v] = worker[v]
      /\ worker'[w] = "ready"
      /\ \A i \in 1..Len(accepted) : accepted[i] \in Tasks
      /\ Len(accepted) \in Nat /\ started \in Nat
      /\ UNCHANGED <<queue_, stop_, submitter, dtor, accepted, started>>
  <2>1. Active(w) /\ TypeOK /\ FifoStart
    BY DEF PoolInv, ReturnTask, CatchException, Active
  <2>2. task[w] \in Tasks
    BY <2>1 DEF PoolInv, Holding, TypeOK
  <2> QED
    BY <2>1, <2>2 DEF ReturnTask, CatchException, Active, TypeOK
<1>1. FifoStart' /\ Distinct'
  BY <1>0 DEF PoolInv, FifoStart, Distinct
<1>2. Queued'
  <2>1. \A i \in 1..Len(accepted) : i > started => accepted[i] # task[w]
    BY <1>0 DEF PoolInv, Holding, Distinct
  <2> QED
    BY <1>0, <2>1 DEF PoolInv, Queued
<1>3. Taken'
  BY <1>0 DEF PoolInv, Taken
<1>4. Holding'
  <2>1. \A v \in Workers : Active(v)' => v # w /\ Active(v) /\ task[v] # task[w] /\ task[v] \in Tasks
    BY <1>0 DEF PoolInv, Holding
  <2> QED
    BY <1>0, <2>1 DEF PoolInv, Holding
<1>5. Stopping'
  <2>1. \A v \in Workers : worker'[v] = "exited" => worker[v] = "exited"
    BY <1>0
  <2>2. worker[w] # "exited"
    BY <1>0 DEF Active
  <2> QED
    BY <1>0, <2>1, <2>2, Zenon DEF PoolInv, Stopping
<1>6. NoLostWakeup'
  <2>1. ~(worker'[w] \in {"waiting", "exited"})
    BY <1>0
  <2>2. \A v \in Workers : worker'[v] = "waiting" => worker[v] = "waiting"
    BY <1>0
  <2>3. (stop_ /\ Waiting # {} => dtor = "notify")'
    BY <1>0, <2>2, Zenon DEF PoolInv, NoLostWakeup, Waiting
  <2> QED
    BY <2>1, <2>3, Zenon DEF NoLostWakeup
<1> QED
  BY <1>1, <1>2, <1>3, <1>4, <1>5, <1>6 DEF PoolInv

\* Steps that move workers between ready, waiting and exited, submitters between
\* notify and idle, or the destructor, and touch no task, disturb only the last
\* two parts of the invariant.
LEMMA ControlStep ==
  ASSUME PoolInv, TypeOK', Stopping', NoLostWakeup',
         \A w \in Workers : Active(w)' <=> Active(w),
         UNCHANGED <<queue_, task, outcome, accepted, started>>
  PROVE  PoolInv'
<1>1. FifoStart' /\ Distinct' /\ Queued'
  BY DEF PoolInv, FifoStart, Distinct, Queued
<1>2. Taken' /\ Holding'
  BY DEF PoolInv, Taken, Holding
<1> QED
  BY <1>1, <1>2 DEF PoolInv

\* notify_one after the unlock: it wakes a sleeper, and if nobody sleeps some
\* worker is awake to find the task.
LEMMA NotifyStep ==
  ASSUME PoolInv, TypeOK', NEW s \in Submitters, NotifyOne(s)
  PROVE  PoolInv'
<1>0. /\ TypeOK /\ UNCHANGED <<queue_, stop_, task, dtor, outcome, accepted, started>>
      /\ \/ \E w \in Waiting : worker' = [worker EXCEPT ![w] = "ready"]
         \/ Waiting = {} /\ worker' = worker
  BY DEF PoolInv, NotifyOne
<1>1. \A w \in Workers :
        /\ Active(w)' <=> Active(w)
        /\ (worker'[w] = "exited") <=> (worker[w] = "exited")
        /\ worker'[w] = "waiting" => worker[w] = "waiting"
  BY <1>0 DEF TypeOK, Active, Waiting
<1>2. Stopping'
  BY <1>0, <1>1, Zenon DEF PoolInv, Stopping
<1>3. NoLostWakeup'
  <2>1. (stop_ /\ Waiting # {} => dtor = "notify")'
    BY <1>0, <1>1, Zenon DEF PoolInv, NoLostWakeup, Waiting
  <2>2. queue_ # <<>> => \E w \in Workers : ~(worker'[w] \in {"waiting", "exited"})
    <3>1. CASE \E w \in Waiting : worker' = [worker EXCEPT ![w] = "ready"]
      BY <1>0, <3>1 DEF TypeOK, Waiting
    <3>2. CASE Waiting = {} /\ worker' = worker
      BY <3>2, PoolAssumption DEF PoolInv, Stopping, Waiting
    <3> QED
      BY <1>0, <3>1, <3>2
  <2> QED
    BY <1>0, <2>1, <2>2, Zenon DEF NoLostWakeup
<1> QED
  BY <1>0, <1>1, <1>2, <1>3, ControlStep

\* A worker goes to sleep, wakes without cause, or leaves the loop.
LEMMA SleepStep ==
  ASSUME PoolInv, TypeOK', NEW w \in Workers,
         WaitForWork(w) \/ SpuriousWakeup(w) \/ ExitLoop(w)
  PROVE  PoolInv'
<1>0. /\ TypeOK /\ UNCHANGED <<queue_, stop_, task, submitter, dtor, outcome, accepted, started>>
      /\ worker[w] \in {"ready", "waiting"} /\ worker'[w] \in {"waiting", "ready", "exited"}
      /\ \A v \in Workers : v # w => worker'[v] = worker[v]
  BY DEF PoolInv, WaitForWork, SpuriousWakeup, ExitLoop, TypeOK
<1>1. \A v \in Workers : Active(v)' <=> Active(v)
  BY <1>0 DEF Active
<1>2. /\ worker'[w] = "waiting" => ~stop_ /\ queue_ = <<>>
      /\ worker'[w] = "exited" => stop_ /\ queue_ = <<>>
  BY <1>0 DEF WaitForWork, SpuriousWakeup, ExitLoop, TypeOK
<1>3. \A v \in Workers :
        /\ worker'[v] = "exited" => stop_ /\ queue_ = <<>>
        /\ worker'[v] = "waiting" => worker[v] = "waiting" \/ ~stop_
  BY <1>0, <1>2 DEF PoolInv, Stopping
<1>4. Stopping'
  <2>1. dtor # "destroyed"
    BY <1>0 DEF PoolInv, Stopping
  <2> QED
    BY <1>0, <1>3, <2>1, Zenon DEF PoolInv, Stopping
<1>5. NoLostWakeup'
  <2>1. (stop_ /\ Waiting # {} => dtor = "notify")'
    BY <1>0, <1>3, Zenon DEF PoolInv, NoLostWakeup, Waiting
  <2>2. queue_ # <<>> => ~(worker'[w] \in {"waiting", "exited"})
    BY <1>2, Zenon
  <2> QED
    BY <1>0, <2>1, <2>2, Zenon DEF NoLostWakeup
<1> QED
  BY <1>0, <1>1, <1>4, <1>5, ControlStep

\* The three parts of the destructor.
LEMMA DestroyStep ==
  ASSUME PoolInv, TypeOK', Destroy
  PROVE  PoolInv'
<1>1. CASE BeginDestroy
  <2>0. /\ TypeOK /\ stop_' /\ dtor' = "notify" /\ dtor = "alive"
        /\ UNCHANGED <<queue_, worker, task, submitter, outcome, accepted, started>>
    BY <1>1 DEF PoolInv, BeginDestroy
  <2>1. Stopping'
    <3>1. dtor' # "alive" /\ dtor' # "destroyed"
      BY <2>0
    <3> QED
      BY <2>0, <3>1, Zenon DEF PoolInv, Stopping
  <2>2. NoLostWakeup'
    BY <2>0, Zenon DEF PoolInv, NoLostWakeup, Waiting
  <2>3. \A w \in Workers : Active(w)' <=> Active(w)
    BY <2>0, Zenon DEF Active
  <2> QED
    BY <2>0, <2>1, <2>2, <2>3, ControlStep
<1>2. CASE NotifyAll
  <2>0. /\ TypeOK /\ dtor' = "joining" /\ dtor = "notify"
        /\ UNCHANGED <<queue_, stop_, task, submitter, outcome, accepted, started>>
        /\ worker' = [w \in Workers |-> IF w \in Waiting THEN "ready" ELSE worker[w]]
    BY <1>2 DEF PoolInv, NotifyAll
  <2>1. \A w \in Workers :
          /\ Active(w)' <=> Active(w)
          /\ worker'[w] # "waiting"
          /\ (worker'[w] = "exited") <=> (worker[w] = "exited")
    BY <2>0 DEF TypeOK, Active, Waiting
  <2>2. dtor' # "alive" /\ dtor' # "destroyed" /\ dtor # "alive"
    BY <2>0
  <2>3. Stopping'
    BY <2>0, <2>1, <2>2, Zenon DEF PoolInv, Stopping
  <2>4. NoLostWakeup'
    <3>1. Waiting' = {}
      BY <2>1 DEF Waiting
    <3>2. queue_ # <<>> => \E w \in Workers : ~(worker'[w] \in {"waiting", "exited"})
      BY <2>1, PoolAssumption DEF PoolInv, Stopping
    <3> QED
      BY <2>0, <3>1, <3>2, Zenon DEF NoLostWakeup
  <2> QED
    BY <2>0, <2>1, <2>3, <2>4, ControlStep
<1>3. CASE JoinAll
  <2>0. /\ TypeOK /\ dtor' = "destroyed" /\ dtor = "joining"
        /\ \A w \in Workers : worker[w] = "exited" /\ worker[w] # "waiting"
        /\ dtor' # "alive" /\ dtor # "alive"
        /\ UNCHANGED <<queue_, stop_, worker, task, submitter, outcome, accepted, started>>
    BY <1>3 DEF PoolInv, JoinAll
  <2>1. Stopping'
    BY <2>0, Zenon DEF PoolInv, Stopping
  <2>2. NoLostWakeup'
    <3>1. Waiting' = {}
      BY <2>0 DEF Waiting
    <3> QED
      BY <2>0, <3>1, Zenon DEF PoolInv, NoLostWakeup
  <2>3. \A w \in Workers : Active(w)' <=> Active(w)
    BY <2>0, Zenon DEF Active
  <2> QED
    BY <2>0, <2>1, <2>2, <2>3, ControlStep
<1> QED
  BY <1>1, <1>2, <1>3 DEF Destroy

\* Every step of the pool preserves the invariant.
LEMMA InvStep == PoolInv /\ [Next]_vars => PoolInv'
<1> SUFFICES ASSUME PoolInv, [Next]_vars PROVE PoolInv'
  OBVIOUS
<1>0. TypeOK /\ TypeOK'
  BY TypeStep DEF PoolInv
<1>1. ASSUME NEW s \in Submitters, NEW t \in Tasks, SubmitPlain(s, t) PROVE PoolInv'
  BY <1>0, <1>1, EnqueueStep DEF SubmitPlain
<1>2. ASSUME NEW s \in Submitters, NEW t \in Tasks, SubmitChecked(s, t) PROVE PoolInv'
  <2>1. CASE stop_
    <3>1. /\ outcome' = [outcome EXCEPT ![t] = "rejected"] /\ Fresh(t)
          /\ UNCHANGED <<queue_, accepted, submitter, stop_, worker, task, dtor, started>>
      BY <1>2, <2>1, Zenon DEF SubmitChecked
    <3>2. \A i \in 1..Len(accepted) : outcome'[accepted[i]] = outcome[accepted[i]]
      BY <1>0, <3>1 DEF TypeOK, Fresh
    <3>3. FifoStart' /\ Distinct' /\ Queued' /\ Taken'
      BY <3>1, <3>2 DEF PoolInv, FifoStart, Distinct, Queued, Taken, Active
    <3>4. Holding'
      BY <3>1, <3>2 DEF PoolInv, Holding, Active
    <3>5. Stopping' /\ NoLostWakeup'
      BY <3>1, Zenon DEF PoolInv, Stopping, NoLostWakeup, Waiting
    <3> QED
      BY <1>0, <3>3, <3>4, <3>5 DEF PoolInv
  <2>2. CASE ~stop_
    <3>1. /\ Enqueue(s, t) /\ Fresh(t) /\ dtor = "alive"
          /\ UNCHANGED <<stop_, worker, task, dtor, outcome, started>>
      BY <1>2, <2>2, Zenon DEF SubmitChecked, PoolInv, Stopping
    <3> QED
      BY <1>0, <3>1, EnqueueStep
  <2> QED
    BY <2>1, <2>2
<1>3. ASSUME NEW s \in Submitters, NotifyOne(s) PROVE PoolInv'
  BY <1>0, <1>3, NotifyStep
<1>4. ASSUME NEW w \in Workers, WaitForWork(w) \/ SpuriousWakeup(w) \/ ExitLoop(w)
      PROVE PoolInv'
  BY <1>0, <1>4, SleepStep
<1>5. ASSUME NEW w \in Workers, TakeTask(w) PROVE PoolInv'
  BY <1>0, <1>5, TakeStep
<1>6. ASSUME NEW w \in Workers, ReturnTask(w) \/ CatchException(w) PROVE PoolInv'
  BY <1>0, <1>6, ResultStep
<1>7. ASSUME (\E w \in Workers : UncaughtException(w)) \/ UNCHANGED vars PROVE PoolInv'
  <2>1. UNCHANGED <<queue_, stop_, worker, task, submitter, dtor, outcome, accepted, started>>
    BY <1>7 DEF UncaughtException, vars
  <2>2. Stopping' /\ NoLostWakeup'
    BY <2>1, Zenon DEF PoolInv, Stopping, NoLostWakeup, Waiting
  <2>3. \A w \in Workers : Active(w)' <=> Active(w)
    BY <2>1, Zenon DEF Active
  <2> QED
    BY <1>0, <2>1, <2>2, <2>3, ControlStep
<1>8. ASSUME Destroy PROVE PoolInv'
  BY <1>0, <1>8, DestroyStep
<1> QED
  BY <1>1, <1>2, <1>3, <1>4, <1>5, <1>6, <1>7, <1>8
  DEF Next, Submit, WorkLoop, Ended

\* PoolInv holds in every reachable state.
LEMMA PoolInvariant == Spec => []PoolInv
BY InvInit, InvStep, PTL DEF Spec

-------------------------------------------------------------------------------
(* The promises *)

\* Tasks start in the order Submit queued them, for any pool and any tasks.
THEOREM FifoOrder == Spec => []FifoStart
<1>1. PoolInv => FifoStart
  BY DEF PoolInv
<1> QED
  BY <1>1, PoolInvariant, PTL

\* Every queued task is queued, held by exactly one worker, or finished.
THEOREM ExactlyOnce == Spec => []EachTaskOnce
<1>1. PoolInv => EachTaskOnce
  <2> SUFFICES ASSUME PoolInv, NEW i \in 1..Len(accepted)
               PROVE  LET t == accepted[i]
                          holders == {w \in Workers : Active(w) /\ task[w] = t}
                      IN  IF i > started
                          THEN holders = {} /\ outcome[t] = "none"
                          ELSE \/ outcome[t] = "none" /\ \E w \in Workers : holders = {w}
                               \/ outcome[t] \in {"value", "exception"} /\ holders = {}
    BY DEF EachTaskOnce
  <2> DEFINE holders == {w \in Workers : Active(w) /\ task[w] = accepted[i]}
  <2>1. Len(accepted) \in Nat /\ started \in Nat
    BY DEF PoolInv, TypeOK
  <2>2. ASSUME i > started PROVE holders = {} /\ outcome[accepted[i]] = "none"
    BY <2>1, <2>2 DEF PoolInv, Holding, Queued, Distinct
  <2>3. ASSUME i <= started, NEW w \in holders
        PROVE  outcome[accepted[i]] = "none" /\ holders = {w}
    BY <2>3 DEF PoolInv, Holding
  <2>4. ASSUME i <= started, holders = {} PROVE outcome[accepted[i]] \in {"value", "exception"}
    BY <2>4 DEF PoolInv, Taken
  <2>5. i > started \/ i <= started
    BY <2>1
  <2>6. \A w \in holders : w \in Workers
    OBVIOUS
  <2> HIDE DEF holders
  <2> QED
    BY <2>1, <2>2, <2>3, <2>4, <2>5, <2>6 DEF holders
<1> QED
  BY <1>1, PoolInvariant, PTL

\* When ~ThreadPool has joined its threads, every queued task has been run.
THEOREM Drained == Spec => []DrainedAtJoin
<1>1. PoolInv => DrainedAtJoin
  <2> SUFFICES ASSUME PoolInv, dtor = "destroyed", NEW i \in 1..Len(accepted)
               PROVE  outcome[accepted[i]] \in {"value", "exception"}
    BY DEF DrainedAtJoin
  <2>1. queue_ = <<>> /\ \A w \in Workers : ~Active(w)
    BY PoolAssumption DEF PoolInv, Stopping, Active
  <2>2. i <= started
    BY <2>1 DEF PoolInv, TypeOK, FifoStart
  <2> QED
    BY <2>1, <2>2 DEF PoolInv, Taken
<1> QED
  BY <1>1, PoolInvariant, PTL

\* Work is never left behind sleeping workers without a notify still to come.
THEOREM WakeupNotLost == Spec => []NoLostWakeup
<1>1. PoolInv => NoLostWakeup
  BY DEF PoolInv
<1> QED
  BY <1>1, PoolInvariant, PTL

-------------------------------------------------------------------------------
(* The refinement: every step of the pool is a step of TaskService, or none *)

\* The constructor gives an open service without tasks.
LEMMA ServiceInit == Init => Service!Init
<1> SUFFICES ASSUME Init PROVE Service!Init
  OBVIOUS
<1>1. queue_ = <<>> /\ RunningTasks = {} /\ DoneTasks = {} /\ RejectedTasks = {}
  BY DEF Init, RunningTasks, Active, DoneTasks, RejectedTasks
<1>2. ~terminated /\ dtor = "alive"
  BY Zenon DEF Init
<1>3. Phase = "open"
  BY <1>2 DEF Phase
<1> QED
  BY <1>1, <1>3 DEF Service!Init

\* A task that nobody has submitted yet is unknown to the service.
LEMMA FreshUnknown ==
  ASSUME PoolInv, NEW t \in Tasks, Fresh(t)
  PROVE  ~Service!Known(t)
<1>1. ASSUME NEW i \in DOMAIN queue_ PROVE queue_[i] # t
  <2>1. i \in 1..Len(queue_) /\ started + i \in DOMAIN accepted
    BY DEF PoolInv, TypeOK, FifoStart
  <2> QED
    BY <2>1 DEF PoolInv, FifoStart, Fresh
<1>2. t \notin RunningTasks
  BY DEF PoolInv, TypeOK, Holding, RunningTasks, Fresh
<1>3. t \notin DoneTasks /\ t \notin RejectedTasks
  BY DEF DoneTasks, RejectedTasks, Fresh
<1> QED
  BY <1>1, <1>2, <1>3 DEF Service!Known

\* The phase of a pool whose process lives.
LEMMA PhaseOf ==
  ASSUME TypeOK, ~terminated
  PROVE  /\ dtor = "alive" => Phase = "open"
         /\ dtor = "destroyed" => Phase = "closed"
         /\ dtor \in {"notify", "joining"} => Phase = "closing"
BY DEF Phase, TypeOK

\* Queueing a task accepts it.
LEMMA AcceptStep ==
  ASSUME PoolInv, ~terminated, NEW s \in Submitters, NEW t \in Tasks, Fresh(t),
         dtor = "alive", Enqueue(s, t),
         UNCHANGED <<stop_, worker, task, dtor, outcome, terminated, started>>
  PROVE  Service!Accept(t)
<1>1. Phase = "open" /\ ~Service!Known(t)
  BY FreshUnknown, PhaseOf DEF PoolInv
<1>2. UNCHANGED <<RunningTasks, DoneTasks, RejectedTasks, Phase>>
  BY DEF RunningTasks, Active, DoneTasks, RejectedTasks, Phase
<1> QED
  BY <1>1, <1>2 DEF Service!Accept, Enqueue

\* Submit on a stopped pool rejects it.
LEMMA RejectStep ==
  ASSUME PoolInv, ~terminated, NEW s \in Submitters, NEW t \in Tasks,
         SubmitChecked(s, t), stop_
  PROVE  Service!Reject(t)
<1>1. /\ TypeOK /\ Fresh(t) /\ dtor # "alive" /\ dtor # "destroyed"
      /\ outcome' = [outcome EXCEPT ![t] = "rejected"]
      /\ UNCHANGED <<queue_, worker, task, dtor, terminated>>
  BY Zenon DEF SubmitChecked, PoolInv, Stopping
<1>2. dtor \in {"notify", "joining"}
  BY <1>1 DEF TypeOK
<1>3. Phase = "closing" /\ ~Service!Known(t)
  BY <1>1, <1>2, FreshUnknown, PhaseOf
<1>4. RejectedTasks' = RejectedTasks \union {t} /\ DoneTasks' = DoneTasks
  BY <1>1 DEF TypeOK, RejectedTasks, DoneTasks, Fresh
<1>5. UNCHANGED <<RunningTasks, Phase>>
  BY <1>1 DEF RunningTasks, Active, Phase
<1> QED
  BY <1>1, <1>3, <1>4, <1>5 DEF Service!Reject

\* A worker that is ready or runs a task keeps the pool from being destroyed.
LEMMA StillAlive ==
  ASSUME PoolInv, ~terminated, NEW w \in Workers, worker[w] # "exited"
  PROVE  Phase \in {"open", "closing"}
<1>1. dtor \in {"alive", "notify", "joining"}
  BY DEF PoolInv, TypeOK, Stopping
<1> QED
  BY <1>1, PhaseOf DEF PoolInv

\* Taking the head of the queue starts the oldest pending task.
LEMMA StartStep ==
  ASSUME PoolInv, ~terminated, NEW w \in Workers, TakeTask(w)
  PROVE  Service!Start
<1>1. /\ TypeOK /\ worker[w] = "ready" /\ queue_ # <<>>
      /\ queue_' = Tail(queue_)
      /\ task' = [task EXCEPT ![w] = Head(queue_)]
      /\ worker' = [worker EXCEPT ![w] = "running"]
      /\ UNCHANGED <<outcome, dtor, terminated>>
  BY DEF TakeTask, PoolInv
<1>2. Phase \in {"open", "closing"}
  BY <1>1, StillAlive
<1>3. RunningTasks' = RunningTasks \union {Head(queue_)}
  <2>1. /\ ~Active(w) /\ Active(w)' /\ task'[w] = Head(queue_)
        /\ \A v \in Workers : v # w => (Active(v)' <=> Active(v)) /\ task'[v] = task[v]
    BY <1>1 DEF TypeOK, Active
  <2> QED
    BY <2>1 DEF RunningTasks
<1>4. UNCHANGED <<DoneTasks, RejectedTasks, Phase>>
  BY <1>1 DEF DoneTasks, RejectedTasks, Phase
<1> QED
  BY <1>1, <1>2, <1>3, <1>4 DEF Service!Start

\* A result for the caller finishes the task; no other worker has it.
LEMMA FinishStep ==
  ASSUME PoolInv, ~terminated, NEW w \in Workers, ReturnTask(w) \/ CatchException(w)
  PROVE  task[w] \in Tasks /\ Service!Finish(task[w])
<1>1. /\ TypeOK /\ worker[w] = "running"
      /\ UNCHANGED <<queue_, dtor, terminated>>
      /\ worker' = [worker EXCEPT ![w] = "ready"]
      /\ task' = [task EXCEPT ![w] = NoTask]
      /\ \/ outcome' = [outcome EXCEPT ![task[w]] = "value"]
         \/ outcome' = [outcome EXCEPT ![task[w]] = "exception"]
  BY DEF ReturnTask, CatchException, PoolInv
<1>2. task[w] \in Tasks /\ outcome[task[w]] = "none"
  BY <1>1 DEF PoolInv, Holding, TypeOK, Active
<1>3. Phase \in {"open", "closing"}
  BY <1>1, StillAlive
<1>4. task[w] \in RunningTasks /\ RunningTasks' = RunningTasks \ {task[w]}
  <2>1. /\ Active(w) /\ ~Active(w)'
        /\ \A v \in Workers : v # w => (Active(v)' <=> Active(v)) /\ task'[v] = task[v]
    BY <1>1 DEF TypeOK, Active
  <2>2. \A v \in Workers : v # w /\ Active(v) => task[v] # task[w]
    BY <2>1 DEF PoolInv, Holding
  <2> QED
    BY <2>1, <2>2 DEF RunningTasks
<1>5. DoneTasks' = DoneTasks \union {task[w]} /\ RejectedTasks' = RejectedTasks
  BY <1>1, <1>2 DEF TypeOK, DoneTasks, RejectedTasks
<1>6. UNCHANGED Phase
  BY <1>1 DEF Phase
<1> QED
  BY <1>1, <1>2, <1>3, <1>4, <1>5, <1>6 DEF Service!Finish

\* The exception of a plain task ends the process while that task runs.
LEMMA AbortStep ==
  ASSUME PoolInv, ~terminated, NEW w \in Workers, UncaughtException(w)
  PROVE  Service!Abort
<1>1. /\ worker[w] = "running" /\ terminated'
      /\ UNCHANGED <<queue_, worker, task, outcome>>
  BY Zenon DEF UncaughtException
<1>2. Phase \in {"open", "closing"}
  BY <1>1, StillAlive
<1>3. RunningTasks # {} /\ UNCHANGED <<RunningTasks, DoneTasks, RejectedTasks>>
  BY <1>1 DEF RunningTasks, DoneTasks, RejectedTasks, Active
<1>4. Phase' = "aborted"
  BY <1>1 DEF Phase
<1> QED
  BY <1>1, <1>2, <1>3, <1>4 DEF Service!Abort

\* The destructor begins the close, and ends it when nothing is left.
LEMMA CloseStep ==
  ASSUME PoolInv, TypeOK', ~terminated, Destroy
  PROVE  Service!BeginClose \/ Service!EndClose \/ UNCHANGED Service!vars
<1>1. CASE BeginDestroy
  <2>1. /\ TypeOK /\ dtor = "alive" /\ dtor' = "notify" /\ ~terminated'
        /\ UNCHANGED <<queue_, worker, task, outcome>>
    BY <1>1, Zenon DEF BeginDestroy, PoolInv
  <2>2. Phase = "open" /\ Phase' = "closing"
    BY <2>1 DEF Phase
  <2>3. UNCHANGED <<RunningTasks, DoneTasks, RejectedTasks>>
    BY <2>1 DEF RunningTasks, DoneTasks, RejectedTasks, Active
  <2> QED
    BY <2>1, <2>2, <2>3 DEF Service!BeginClose
<1>2. CASE NotifyAll
  <2>1. /\ TypeOK /\ dtor = "notify" /\ dtor' = "joining" /\ ~terminated'
        /\ UNCHANGED <<queue_, task, outcome>>
    BY <1>2, Zenon DEF NotifyAll, PoolInv
  <2>2. Phase = "closing" /\ Phase' = "closing"
    BY <2>1 DEF Phase
  <2>3. \A w \in Workers : Active(w)' <=> Active(w)
    BY <1>2, <2>1 DEF NotifyAll, TypeOK, Active, Waiting
  <2>4. UNCHANGED <<RunningTasks, DoneTasks, RejectedTasks>>
    BY <2>1, <2>3 DEF RunningTasks, DoneTasks, RejectedTasks
  <2> QED
    BY <2>1, <2>2, <2>4 DEF Service!vars
<1>3. CASE JoinAll
  <2>1. /\ TypeOK /\ dtor = "joining" /\ dtor' = "destroyed" /\ ~terminated'
        /\ \A w \in Workers : worker[w] = "exited"
        /\ UNCHANGED <<queue_, worker, task, outcome>>
    BY <1>3, Zenon DEF JoinAll, PoolInv
  <2>2. Phase = "closing" /\ Phase' = "closed"
    BY <2>1 DEF Phase
  <2>3. queue_ = <<>>
    BY <2>1, PoolAssumption DEF PoolInv, Stopping
  <2>4. RunningTasks = {} /\ UNCHANGED <<RunningTasks, DoneTasks, RejectedTasks>>
    BY <2>1 DEF RunningTasks, DoneTasks, RejectedTasks, Active
  <2> QED
    BY <2>1, <2>2, <2>3, <2>4 DEF Service!EndClose
<1> QED
  BY <1>1, <1>2, <1>3 DEF Destroy

\* What a worker does between its tasks is not visible to the callers.
LEMMA HiddenStep ==
  ASSUME PoolInv, UNCHANGED <<queue_, task, dtor, outcome, terminated>>,
         \A w \in Workers : Active(w)' <=> Active(w)
  PROVE  UNCHANGED Service!vars
<1>1. UNCHANGED <<RunningTasks, DoneTasks, RejectedTasks, Phase>>
  BY DEF RunningTasks, DoneTasks, RejectedTasks, Phase
<1> QED
  BY <1>1 DEF Service!vars

\* Step simulation.
LEMMA ServiceStep == PoolInv /\ [Next]_vars => [Service!Next]_(Service!vars)
<1> SUFFICES ASSUME PoolInv, [Next]_vars PROVE Service!Next \/ UNCHANGED Service!vars
  OBVIOUS
<1>0. TypeOK /\ TypeOK'
  BY TypeStep DEF PoolInv
<1>1. ASSUME ~terminated, NEW s \in Submitters, NEW t \in Tasks, SubmitPlain(s, t)
      PROVE  Service!Next
  BY <1>1, AcceptStep DEF SubmitPlain, Service!Next
<1>2. ASSUME ~terminated, NEW s \in Submitters, NEW t \in Tasks, SubmitChecked(s, t)
      PROVE  Service!Next
  <2>1. CASE stop_
    BY <1>2, <2>1, RejectStep DEF Service!Next
  <2>2. CASE ~stop_
    <3>1. /\ Enqueue(s, t) /\ Fresh(t) /\ dtor = "alive"
          /\ UNCHANGED <<stop_, worker, task, dtor, outcome, terminated, started>>
      BY <1>2, <2>2, Zenon DEF SubmitChecked, PoolInv, Stopping
    <3> QED
      BY <1>2, <3>1, AcceptStep DEF Service!Next
  <2> QED
    BY <2>1, <2>2
<1>3. ASSUME NEW s \in Submitters, NotifyOne(s) PROVE UNCHANGED Service!vars
  <2>1. UNCHANGED <<queue_, task, dtor, outcome, terminated>>
    BY <1>3 DEF NotifyOne
  <2>2. \A w \in Workers : Active(w)' <=> Active(w)
    BY <1>0, <1>3 DEF NotifyOne, Waiting, Active, TypeOK
  <2> QED
    BY <2>1, <2>2, HiddenStep
<1>4. ASSUME NEW w \in Workers, WaitForWork(w) \/ SpuriousWakeup(w) \/ ExitLoop(w)
      PROVE  UNCHANGED Service!vars
  <2>1. UNCHANGED <<queue_, task, dtor, outcome, terminated>>
    BY <1>4 DEF WaitForWork, SpuriousWakeup, ExitLoop
  <2>2. \A v \in Workers : Active(v)' <=> Active(v)
    BY <1>0, <1>4 DEF WaitForWork, SpuriousWakeup, ExitLoop, Active, TypeOK
  <2> QED
    BY <2>1, <2>2, HiddenStep
<1>5. ASSUME ~terminated, NEW w \in Workers, TakeTask(w) PROVE Service!Next
  BY <1>5, StartStep DEF Service!Next
<1>6. ASSUME ~terminated, NEW w \in Workers, ReturnTask(w) \/ CatchException(w)
      PROVE  Service!Next
  BY <1>6, FinishStep DEF Service!Next
<1>7. ASSUME ~terminated, NEW w \in Workers, UncaughtException(w) PROVE Service!Next
  BY <1>7, AbortStep DEF Service!Next
<1>8. ASSUME ~terminated, Destroy PROVE Service!Next \/ UNCHANGED Service!vars
  BY <1>0, <1>8, CloseStep DEF Service!Next
<1>9. ASSUME UNCHANGED vars PROVE UNCHANGED Service!vars
  BY <1>9, HiddenStep DEF vars, Active
<1> QED
  BY <1>1, <1>2, <1>3, <1>4, <1>5, <1>6, <1>7, <1>8, <1>9
  DEF Next, Submit, WorkLoop, Ended

\* Seen from its callers the pool never does what TaskService forbids: it starts
\* tasks in the order it accepted them, runs each once, refuses only when closing,
\* and is closed only when nothing is left.
THEOREM PoolRefinesService == Spec => Service!Safety
<1>1. Init => Service!Init
  BY ServiceInit
<1>2. PoolInv /\ [Next]_vars => [Service!Next]_(Service!vars)
  BY ServiceStep
<1> QED
  BY <1>1, <1>2, PoolInvariant, PTL DEF Spec, Service!Safety

===============================================================================
