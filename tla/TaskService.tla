----------------------------- MODULE TaskService -----------------------------
(***************************************************************************)
(* What a thread pool promises to the code that hands tasks to it, with    *)
(* nothing said about threads, locks or condition variables: tasks start   *)
(* in the order they were accepted, every accepted task is run once, and   *)
(* the service is closed only when nothing is left of what it accepted.    *)
(* A task that fails where nobody can catch the failure takes the whole    *)
(* process with it (phase "aborted").                                      *)
(***************************************************************************)
EXTENDS Sequences

CONSTANT Tasks

VARIABLES pending,   \* accepted tasks that have not started, oldest first
          running,   \* tasks being executed
          done,      \* tasks that have been executed
          rejected,  \* tasks that were refused
          phase      \* "open", "closing", "closed" or "aborted"

vars == <<pending, running, done, rejected, phase>>

Known(t) ==
  \/ \E i \in DOMAIN pending : pending[i] = t
  \/ t \in running \union done \union rejected

Init ==
  /\ pending = <<>>
  /\ running = {} /\ done = {} /\ rejected = {}
  /\ phase = "open"

Accept(t) ==
  /\ phase = "open" /\ ~Known(t)
  /\ pending' = Append(pending, t)
  /\ UNCHANGED <<running, done, rejected, phase>>

Reject(t) ==
  /\ phase = "closing" /\ ~Known(t)
  /\ rejected' = rejected \union {t}
  /\ UNCHANGED <<pending, running, done, phase>>

Start ==
  /\ phase \in {"open", "closing"} /\ pending # <<>>
  /\ pending' = Tail(pending)
  /\ running' = running \union {Head(pending)}
  /\ UNCHANGED <<done, rejected, phase>>

Finish(t) ==
  /\ phase \in {"open", "closing"} /\ t \in running
  /\ running' = running \ {t}
  /\ done' = done \union {t}
  /\ UNCHANGED <<pending, rejected, phase>>

Abort ==
  /\ phase \in {"open", "closing"} /\ running # {}
  /\ phase' = "aborted"
  /\ UNCHANGED <<pending, running, done, rejected>>

BeginClose ==
  /\ phase = "open"
  /\ phase' = "closing"
  /\ UNCHANGED <<pending, running, done, rejected>>

EndClose ==
  /\ phase = "closing" /\ pending = <<>> /\ running = {}
  /\ phase' = "closed"
  /\ UNCHANGED <<pending, running, done, rejected>>

Next ==
  \/ \E t \in Tasks : Accept(t) \/ Reject(t) \/ Finish(t)
  \/ Start \/ Abort \/ BeginClose \/ EndClose

\* What the service never does wrong, whether or not it gets anything done.
Safety == Init /\ [][Next]_vars

\* A service with at least one thread keeps starting and finishing tasks and
\* completes a close that was begun; the callers owe it nothing.
Spec ==
  /\ Safety
  /\ WF_vars(Start) /\ WF_vars(EndClose)
  /\ \A t \in Tasks : WF_vars(Finish(t))

==============================================================================
