------------------------------ MODULE ThreadPool ------------------------------
(***************************************************************************)
(* Src/Thread/ThreadPool.{hpp,cpp}: a FIFO queue of tasks behind mutex_,   *)
(* workers that sleep on cv_, two overloads of Submit and a destructor     *)
(* that stops, wakes and joins the workers.  A critical section is one     *)
(* step; the notify after it is a step of its own, since the lock has been *)
(* released by then.                                                       *)
(***************************************************************************)
EXTENDS Integers, Sequences, FiniteSets

CONSTANTS Workers,     \* the threads of pool_
          Submitters,  \* threads that call Submit
          Plain,       \* tasks given to Submit(std::function<void()>)
          Checked,     \* tasks given to the template that returns a future
          Throwing,    \* tasks that end in an exception
          NoTask

Tasks == Plain \union Checked

\* thread_count == 0 (hardware_concurrency() may be 0 or 1) is raised to 1.
ASSUME PoolAssumption ==
  /\ Workers # {} /\ IsFiniteSet(Workers)
  /\ Plain \intersect Checked = {}
  /\ NoTask \notin Tasks

VARIABLES queue_,      \* std::queue of tasks
          stop_,
          worker,      \* where each worker is in WorkLoop
          task,        \* the task a worker executes
          submitter,   \* "notify": between the unlock and notify_one
          dtor,        \* progress of ~ThreadPool
          outcome,     \* what became of each task, seen by its caller
          terminated,  \* std::terminate has been called
          accepted,    \* history: tasks in the order they were queued
          started      \* history: how many of them a worker has taken

vars == <<queue_, stop_, worker, task, submitter, dtor, outcome, terminated,
          accepted, started>>

TypeOK ==
  /\ queue_ \in Seq(Tasks) /\ accepted \in Seq(Tasks)
  /\ started \in Nat
  /\ stop_ \in BOOLEAN /\ terminated \in BOOLEAN
  /\ worker \in [Workers -> {"ready", "waiting", "running", "exited"}]
  /\ task \in [Workers -> Tasks \union {NoTask}]
  /\ submitter \in [Submitters -> {"idle", "notify"}]
  /\ dtor \in {"alive", "notify", "joining", "destroyed"}
  /\ outcome \in [Tasks -> {"none", "value", "exception", "rejected"}]

Fresh(t) ==
  /\ outcome[t] = "none"
  /\ \A i \in DOMAIN accepted : accepted[i] # t

Init ==
  /\ queue_ = <<>> /\ accepted = <<>> /\ started = 0
  /\ stop_ = FALSE /\ terminated = FALSE
  /\ worker = [w \in Workers |-> "ready"]
  /\ task = [w \in Workers |-> NoTask]
  /\ submitter = [s \in Submitters |-> "idle"]
  /\ dtor = "alive"
  /\ outcome = [t \in Tasks |-> "none"]

-------------------------------------------------------------------------------
(* Submit *)

Enqueue(s, t) ==
  /\ queue_' = Append(queue_, t)
  /\ accepted' = Append(accepted, t)
  /\ submitter' = [submitter EXCEPT ![s] = "notify"]

\* The overload without a test of stop_.  Core::submitTask, its only caller,
\* reaches it through threadPool_, which is null once the destructor runs.
SubmitPlain(s, t) ==
  /\ t \in Plain /\ Fresh(t)
  /\ submitter[s] = "idle" /\ dtor = "alive"
  /\ Enqueue(s, t)
  /\ UNCHANGED <<stop_, worker, task, dtor, outcome, terminated, started>>

\* The template: throws on a stopped pool, otherwise queues the task.
SubmitChecked(s, t) ==
  /\ t \in Checked /\ Fresh(t)
  /\ submitter[s] = "idle" /\ dtor # "destroyed"
  /\ \/ /\ stop_
        /\ outcome' = [outcome EXCEPT ![t] = "rejected"]
        /\ UNCHANGED <<queue_, accepted, submitter>>
     \/ /\ ~stop_
        /\ Enqueue(s, t)
        /\ UNCHANGED outcome
  /\ UNCHANGED <<stop_, worker, task, dtor, terminated, started>>

Waiting == {w \in Workers : worker[w] = "waiting"}

MutNotifyLost(s) ==
  /\ submitter[s] = "notify"
  /\ submitter' = [submitter EXCEPT ![s] = "idle"]
  /\ UNCHANGED <<queue_, stop_, worker, task, dtor, outcome, terminated,
                 accepted, started>>

\* cv_.notify_one: wakes one sleeping worker, or nobody if none sleeps.
NotifyOne(s) ==
  /\ submitter[s] = "notify"
  /\ submitter' = [submitter EXCEPT ![s] = "idle"]
  /\ \/ \E w \in Waiting : worker' = [worker EXCEPT ![w] = "ready"]
     \/ Waiting = {} /\ UNCHANGED worker
  /\ UNCHANGED <<queue_, stop_, task, dtor, outcome, terminated, accepted,
                 started>>

-------------------------------------------------------------------------------
(* WorkLoop *)

\* The predicate of cv_.wait is false: release mutex_ and sleep.
WaitForWork(w) ==
  /\ worker[w] = "ready" /\ ~stop_ /\ queue_ = <<>>
  /\ worker' = [worker EXCEPT ![w] = "waiting"]
  /\ UNCHANGED <<queue_, stop_, task, submitter, dtor, outcome, terminated,
                 accepted, started>>

\* A condition variable may wake without a notify; the predicate is tested again.
SpuriousWakeup(w) ==
  /\ worker[w] = "waiting"
  /\ worker' = [worker EXCEPT ![w] = "ready"]
  /\ UNCHANGED <<queue_, stop_, task, submitter, dtor, outcome, terminated,
                 accepted, started>>

MutTakeLeaveQueued(w) ==
  /\ worker[w] = "ready" /\ queue_ # <<>>
  /\ started < Len(accepted)
  /\ started' = started + 1
  /\ task' = [task EXCEPT ![w] = Head(queue_)]
  /\ worker' = [worker EXCEPT ![w] = "running"]
  /\ UNCHANGED <<queue_, stop_, submitter, dtor, outcome, terminated, accepted>>

MutTakeLast(w) ==
  /\ worker[w] = "ready" /\ queue_ # <<>>
  /\ task' = [task EXCEPT ![w] = queue_[Len(queue_)]]
  /\ queue_' = SubSeq(queue_, 1, Len(queue_) - 1)
  /\ started' = started + 1
  /\ worker' = [worker EXCEPT ![w] = "running"]
  /\ UNCHANGED <<stop_, submitter, dtor, outcome, terminated, accepted>>

\* A worker that was woken does not test the queue again: front() of an empty
\* queue is no task at all.
MutTakeUnguarded(w) ==
  /\ worker[w] = "ready"
  /\ task' = [task EXCEPT ![w] = IF queue_ = <<>> THEN "garbage" ELSE Head(queue_)]
  /\ queue_' = IF queue_ = <<>> THEN <<>> ELSE Tail(queue_)
  /\ started' = started + 1
  /\ worker' = [worker EXCEPT ![w] = "running"]
  /\ UNCHANGED <<stop_, submitter, dtor, outcome, terminated, accepted>>

TakeTask(w) ==
  /\ worker[w] = "ready" /\ queue_ # <<>>
  /\ task' = [task EXCEPT ![w] = Head(queue_)]
  /\ queue_' = Tail(queue_)
  /\ started' = started + 1
  /\ worker' = [worker EXCEPT ![w] = "running"]
  /\ UNCHANGED <<stop_, submitter, dtor, outcome, terminated, accepted>>

\* task() returns; for the template the promise receives the value.
ReturnTask(w) ==
  /\ worker[w] = "running" /\ task[w] \notin Throwing
  /\ outcome' = [outcome EXCEPT ![task[w]] = "value"]
  /\ task' = [task EXCEPT ![w] = NoTask]
  /\ worker' = [worker EXCEPT ![w] = "ready"]
  /\ UNCHANGED <<queue_, stop_, submitter, dtor, terminated, accepted, started>>

\* The template catches everything and hands the exception to the promise.
CatchException(w) ==
  /\ worker[w] = "running" /\ task[w] \in Throwing \intersect Checked
  /\ outcome' = [outcome EXCEPT ![task[w]] = "exception"]
  /\ task' = [task EXCEPT ![w] = NoTask]
  /\ worker' = [worker EXCEPT ![w] = "ready"]
  /\ UNCHANGED <<queue_, stop_, submitter, dtor, terminated, accepted, started>>

\* Nothing catches what a plain task throws: it leaves the thread function.
UncaughtException(w) ==
  /\ worker[w] = "running" /\ task[w] \in Throwing \intersect Plain
  /\ terminated' = TRUE
  /\ UNCHANGED <<queue_, stop_, worker, task, submitter, dtor, outcome,
                 accepted, started>>

MutExitOnStop(w) ==
  /\ worker[w] = "ready" /\ stop_
  /\ worker' = [worker EXCEPT ![w] = "exited"]
  /\ UNCHANGED <<queue_, stop_, task, submitter, dtor, outcome, terminated,
                 accepted, started>>

ExitLoop(w) ==
  /\ worker[w] = "ready" /\ stop_ /\ queue_ = <<>>
  /\ worker' = [worker EXCEPT ![w] = "exited"]
  /\ UNCHANGED <<queue_, stop_, task, submitter, dtor, outcome, terminated,
                 accepted, started>>

-------------------------------------------------------------------------------
(* ~ThreadPool.  Core::shutdown runs it on the GUI thread, the thread that   *)
(* makes every submission, so no Submit is half way when it begins.          *)

BeginDestroy ==
  /\ dtor = "alive"
  /\ \A s \in Submitters : submitter[s] = "idle"
  /\ stop_' = TRUE
  /\ dtor' = "notify"
  /\ UNCHANGED <<queue_, worker, task, submitter, outcome, terminated,
                 accepted, started>>

MutNotifyOneOnStop ==
  /\ dtor = "notify"
  /\ \/ \E w \in Waiting : worker' = [worker EXCEPT ![w] = "ready"]
     \/ Waiting = {} /\ UNCHANGED worker
  /\ dtor' = "joining"
  /\ UNCHANGED <<queue_, stop_, task, submitter, outcome, terminated,
                 accepted, started>>

NotifyAll ==
  /\ dtor = "notify"
  /\ worker' = [w \in Workers |-> IF w \in Waiting THEN "ready" ELSE worker[w]]
  /\ dtor' = "joining"
  /\ UNCHANGED <<queue_, stop_, task, submitter, outcome, terminated,
                 accepted, started>>

JoinAll ==
  /\ dtor = "joining"
  /\ \A w \in Workers : worker[w] = "exited"
  /\ dtor' = "destroyed"
  /\ UNCHANGED <<queue_, stop_, worker, task, submitter, outcome, terminated,
                 accepted, started>>

WorkLoop(w) ==
  \/ WaitForWork(w) \/ TakeTask(w) \/ ExitLoop(w)
  \/ ReturnTask(w) \/ CatchException(w) \/ UncaughtException(w)

Submit(s) ==
  \/ \E t \in Tasks : SubmitPlain(s, t) \/ SubmitChecked(s, t)
  \/ NotifyOne(s)

Destroy == BeginDestroy \/ NotifyAll \/ JoinAll

\* The pool is gone or the process is: nothing is left to do.
Ended == (dtor = "destroyed" \/ terminated) /\ UNCHANGED vars

Next ==
  \/ /\ ~terminated
     /\ \/ \E s \in Submitters : Submit(s)
        \/ \E w \in Workers : WorkLoop(w) \/ SpuriousWakeup(w)
        \/ Destroy
  \/ Ended

Spec == Init /\ [][Next]_vars

\* Threads are scheduled and tasks are finite; nobody is obliged to submit, to
\* destroy the pool, or to wake spuriously.
Fairness ==
  /\ \A w \in Workers : WF_vars(~terminated /\ WorkLoop(w))
  /\ \A s \in Submitters : WF_vars(~terminated /\ NotifyOne(s))
  /\ WF_vars(~terminated /\ NotifyAll) /\ WF_vars(~terminated /\ JoinAll)

FairSpec == Spec /\ Fairness

-------------------------------------------------------------------------------
(* Properties *)

Active(w) == worker[w] = "running"

\* The queue is exactly the part of the submission order no worker has taken:
\* tasks start in the order in which Submit queued them, none is skipped, and
\* none is queued twice (queue_.emplace / front / pop under mutex_).
FifoStart ==
  /\ Len(accepted) = started + Len(queue_)
  /\ \A i \in 1..Len(queue_) : queue_[i] = accepted[started + i]

\* A task that was queued is in exactly one place: still queued, in the hands
\* of one worker, or finished with a result its caller can see.
EachTaskOnce ==
  \A i \in 1..Len(accepted) :
    LET t == accepted[i]
        holders == {w \in Workers : Active(w) /\ task[w] = t}
    IN  IF i > started
        THEN holders = {} /\ outcome[t] = "none"
        ELSE \/ outcome[t] = "none" /\ \E w \in Workers : holders = {w}
             \/ outcome[t] \in {"value", "exception"} /\ holders = {}

\* ThreadPool.cpp: "drain what is left in the queue, then exit".  When the
\* destructor has joined the workers, everything that was queued has been run.
DrainedAtJoin ==
  dtor = "destroyed" =>
    \A i \in 1..Len(accepted) : outcome[accepted[i]] \in {"value", "exception"}

\* No lost wakeup: when work or the stop flag is there and every worker that has
\* not left the loop sleeps, a notify that will wake one is still to come.
NoLostWakeup ==
  /\ (queue_ # <<>> /\ \A w \in Workers : worker[w] \in {"waiting", "exited"})
       => \E s \in Submitters : submitter[s] = "notify"
  /\ (stop_ /\ Waiting # {}) => dtor = "notify"

\* Every queued task is eventually run unless the process dies first.
EventuallyRun ==
  \A t \in Tasks :
    (\E i \in DOMAIN accepted : accepted[i] = t)
      ~> (outcome[t] \in {"value", "exception"} \/ terminated)

\* ~ThreadPool returns: no worker sleeps through the stop.
DestructorReturns == (dtor # "alive") ~> (dtor = "destroyed" \/ terminated)

-------------------------------------------------------------------------------
(* The pool implements the abstract task service. *)

RunningTasks == {task[w] : w \in {v \in Workers : Active(v)}}
DoneTasks == {t \in Tasks : outcome[t] \in {"value", "exception"}}
RejectedTasks == {t \in Tasks : outcome[t] = "rejected"}

Phase ==
  CASE terminated -> "aborted"
    [] ~terminated /\ dtor = "alive" -> "open"
    [] ~terminated /\ dtor = "destroyed" -> "closed"
    [] OTHER -> "closing"

Service == INSTANCE TaskService WITH
  pending  <- queue_,
  running  <- RunningTasks,
  done     <- DoneTasks,
  rejected <- RejectedTasks,
  phase    <- Phase

\* Seen from its callers the pool behaves as TaskService, fairness included.
ImplementsTaskService == Service!Spec

==============================================================================
