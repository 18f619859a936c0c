------------------------------ MODULE TaskQueue ------------------------------
(***************************************************************************)
(* internal/task/queue.go: a buffered Go channel of tasks, a fixed pool of *)
(* worker goroutines that range over it, and the calls Submit, Start and   *)
(* Stop made from any goroutine.  Every access of q.stopped is under q.mu; *)
(* close(q.jobs) and the workers are not, so they interleave with a caller *)
(* that is inside its critical section.                                    *)
(***************************************************************************)
EXTENDS Naturals, Sequences

CONSTANTS Tasks,      \* the tasks that may be submitted, one Submit call each
          Workers,    \* the worker goroutines (2 for the search index)
          Stoppers,   \* the goroutines that may call Stop
          Capacity,   \* the buffer of the channel (1024 in the code)
          NoTask,     \* an idle worker's job
          Free        \* the owner of an unlocked mutex

ASSUME QueueAssumption ==
    /\ Capacity \in Nat \ {0}
    /\ Workers # {}
    /\ NoTask \notin Tasks
    /\ Free \notin Tasks \cup Stoppers
    /\ Tasks \cap Stoppers = {}

VARIABLES jobs,      \* the channel's buffer, oldest task first
          closed,    \* close(q.jobs) has been executed
          started, stopped,
          mu,        \* the goroutine that holds q.mu, or Free
          worker,    \* worker[w]: the state of a worker goroutine
          job,       \* job[w]: the task worker w is handling, or NoTask
          call,      \* call[t]: where task t is, from its Submit call on
          stop,      \* stop[s]: where goroutine s is in its call of Stop
          panicked   \* a send on, or a close of, a closed channel

vars == <<jobs, closed, started, stopped, mu, worker, job, call, stop, panicked>>

TypeOK ==
    /\ jobs \in Seq(Tasks)
    /\ Len(jobs) <= Capacity
    /\ closed \in BOOLEAN /\ started \in BOOLEAN /\ stopped \in BOOLEAN
    /\ mu \in Tasks \cup Stoppers \cup {Free}
    /\ worker \in [Workers -> {"unborn", "ranging", "exited"}]
    /\ job \in [Workers -> Tasks \cup {NoTask}]
    /\ call \in [Tasks -> {"new", "calling", "locked", "cleared", "queued",
                           "dropped", "running", "done"}]
    /\ stop \in [Stoppers -> {"out", "calling", "locked", "marked", "waiting",
                              "returned", "early"}]
    /\ panicked \in BOOLEAN

Init ==
    /\ jobs = <<>>
    /\ closed = FALSE /\ started = FALSE /\ stopped = FALSE
    /\ mu = Free
    /\ worker = [w \in Workers |-> "unborn"]
    /\ job = [w \in Workers |-> NoTask]
    /\ call = [t \in Tasks |-> "new"]
    /\ stop = [s \in Stoppers |-> "out"]
    /\ panicked = FALSE

------------------------------------------------------------------------------
(* Start: the second call finds started and returns.                       *)

Start ==
    /\ ~started /\ mu = Free
    /\ started' = TRUE
    /\ worker' = [w \in Workers |-> "ranging"]
    /\ UNCHANGED <<jobs, closed, stopped, mu, job, call, stop, panicked>>

(* Submit, "must be called" after Start: lock, read stopped, then the      *)
(* non-blocking send, then the deferred unlock.                            *)

Submit(t) ==
    /\ started /\ call[t] = "new"
    /\ call' = [call EXCEPT ![t] = "calling"]
    /\ UNCHANGED <<jobs, closed, started, stopped, mu, worker, job, stop, panicked>>

SubmitLock(t) ==
    /\ call[t] = "calling" /\ mu = Free
    /\ mu' = t
    /\ call' = [call EXCEPT ![t] = "locked"]
    /\ UNCHANGED <<jobs, closed, started, stopped, worker, job, stop, panicked>>

\* A plausible slip: the test of q.stopped is forgotten.
SubmitCheckUnguarded(t) ==
    /\ call[t] = "locked"
    /\ call' = [call EXCEPT ![t] = "cleared"]
    /\ UNCHANGED <<jobs, closed, started, stopped, mu, worker, job, stop, panicked>>

SubmitCheck(t) ==
    /\ call[t] = "locked"
    /\ IF stopped
         THEN /\ call' = [call EXCEPT ![t] = "dropped"]
              /\ mu' = Free
         ELSE /\ call' = [call EXCEPT ![t] = "cleared"]
              /\ UNCHANGED mu
    /\ UNCHANGED <<jobs, closed, started, stopped, worker, job, stop, panicked>>

\* A plausible slip: a blocking send, which waits under q.mu for room.
SubmitSendBlocking(t) ==
    /\ call[t] = "cleared" /\ Len(jobs) < Capacity
    /\ mu' = Free
    /\ jobs' = Append(jobs, t)
    /\ call' = [call EXCEPT ![t] = "queued"]
    /\ UNCHANGED <<closed, started, stopped, worker, job, stop, panicked>>

\* A plausible slip: a slice in place of the channel, with no bound.
SubmitSendUnbounded(t) ==
    /\ call[t] = "cleared"
    /\ mu' = Free
    /\ jobs' = Append(jobs, t)
    /\ call' = [call EXCEPT ![t] = "queued"]
    /\ UNCHANGED <<closed, started, stopped, worker, job, stop, panicked>>

SubmitSend(t) ==
    /\ call[t] = "cleared"
    /\ mu' = Free
    /\ \/ /\ closed
          /\ panicked' = TRUE
          /\ call' = [call EXCEPT ![t] = "dropped"]
          /\ UNCHANGED jobs
       \/ /\ ~closed /\ Len(jobs) < Capacity
          /\ jobs' = Append(jobs, t)
          /\ call' = [call EXCEPT ![t] = "queued"]
          /\ UNCHANGED panicked
       \/ /\ ~closed /\ Len(jobs) >= Capacity
          /\ call' = [call EXCEPT ![t] = "dropped"]
          /\ UNCHANGED <<jobs, panicked>>
    /\ UNCHANGED <<closed, started, stopped, worker, job, stop>>

------------------------------------------------------------------------------
(* A worker ranges over the channel: it takes what is buffered even after  *)
(* the close, and leaves the loop when the channel is closed and empty.    *)

\* A plausible slip: the oldest task is read, and not removed.
TakePeek(w) ==
    /\ worker[w] = "ranging" /\ job[w] = NoTask /\ jobs # <<>>
    /\ job' = [job EXCEPT ![w] = Head(jobs)]
    /\ call' = [call EXCEPT ![Head(jobs)] = "running"]
    /\ UNCHANGED <<jobs, closed, started, stopped, mu, worker, stop, panicked>>

Take(w) ==
    /\ worker[w] = "ranging" /\ job[w] = NoTask /\ jobs # <<>>
    /\ job' = [job EXCEPT ![w] = Head(jobs)]
    /\ jobs' = Tail(jobs)
    /\ call' = [call EXCEPT ![Head(jobs)] = "running"]
    /\ UNCHANGED <<closed, started, stopped, mu, worker, stop, panicked>>

\* A plausible slip: the goroutine handles one task instead of ranging.
HandleOnce(w) ==
    /\ worker[w] = "ranging" /\ job[w] # NoTask
    /\ call' = [call EXCEPT ![job[w]] = "done"]
    /\ job' = [job EXCEPT ![w] = NoTask]
    /\ worker' = [worker EXCEPT ![w] = "exited"]
    /\ UNCHANGED <<jobs, closed, started, stopped, mu, stop, panicked>>

Handle(w) ==
    /\ worker[w] = "ranging" /\ job[w] # NoTask
    /\ call' = [call EXCEPT ![job[w]] = "done"]
    /\ job' = [job EXCEPT ![w] = NoTask]
    /\ UNCHANGED <<jobs, closed, started, stopped, mu, worker, stop, panicked>>

\* A plausible slip: the worker leaves as soon as the channel is closed.
ExitUndrained(w) ==
    /\ worker[w] = "ranging" /\ job[w] = NoTask /\ closed
    /\ worker' = [worker EXCEPT ![w] = "exited"]
    /\ UNCHANGED <<jobs, closed, started, stopped, mu, job, call, stop, panicked>>

Exit(w) ==
    /\ worker[w] = "ranging" /\ job[w] = NoTask /\ closed /\ jobs = <<>>
    /\ worker' = [worker EXCEPT ![w] = "exited"]
    /\ UNCHANGED <<jobs, closed, started, stopped, mu, job, call, stop, panicked>>

------------------------------------------------------------------------------
(* Stop: set stopped under the mutex, release it, close the channel, wait  *)
(* for the workers.  A call that finds stopped set returns at once.        *)

StopCall(s) ==
    /\ started /\ stop[s] = "out"
    /\ stop' = [stop EXCEPT ![s] = "calling"]
    /\ UNCHANGED <<jobs, closed, started, stopped, mu, worker, job, call, panicked>>

StopLock(s) ==
    /\ stop[s] = "calling" /\ mu = Free
    /\ mu' = s
    /\ stop' = [stop EXCEPT ![s] = "locked"]
    /\ UNCHANGED <<jobs, closed, started, stopped, worker, job, call, panicked>>

StopMark(s) ==
    /\ stop[s] = "locked"
    /\ mu' = Free
    /\ stopped' = TRUE
    /\ stop' = [stop EXCEPT ![s] = IF stopped THEN "early" ELSE "marked"]
    /\ UNCHANGED <<jobs, closed, started, worker, job, call, panicked>>

\* A plausible slip: Stop waits for the workers and never closes their channel.
CloseForgotten(s) ==
    /\ stop[s] = "marked"
    /\ stop' = [stop EXCEPT ![s] = "waiting"]
    /\ UNCHANGED <<jobs, closed, started, stopped, mu, worker, job, call, panicked>>

CloseJobs(s) ==
    /\ stop[s] = "marked"
    /\ closed' = TRUE
    /\ panicked' = (panicked \/ closed)
    /\ stop' = [stop EXCEPT ![s] = "waiting"]
    /\ UNCHANGED <<jobs, started, stopped, mu, worker, job, call>>

\* wg counts the workers that have been launched and have not called Done.
wg == {w \in Workers : worker[w] = "ranging"}

\* A plausible slip: Stop forgets wg.Wait.
StopReturnUnwaited(s) ==
    /\ stop[s] = "waiting"
    /\ stop' = [stop EXCEPT ![s] = "returned"]
    /\ UNCHANGED <<jobs, closed, started, stopped, mu, worker, job, call, panicked>>

StopReturn(s) ==
    /\ stop[s] = "waiting" /\ wg = {}
    /\ stop' = [stop EXCEPT ![s] = "returned"]
    /\ UNCHANGED <<jobs, closed, started, stopped, mu, worker, job, call, panicked>>

------------------------------------------------------------------------------
SubmitSteps(t) == Submit(t) \/ SubmitLock(t) \/ SubmitCheck(t) \/ SubmitSend(t)
StopSteps(s) ==
    StopCall(s) \/ StopLock(s) \/ StopMark(s) \/ CloseJobs(s) \/ StopReturn(s)
WorkerSteps(w) == Take(w) \/ Handle(w) \/ Exit(w)

Next ==
    \/ Start
    \/ \E t \in Tasks : SubmitSteps(t)
    \/ \E s \in Stoppers : StopSteps(s)
    \/ \E w \in Workers : WorkerSteps(w)

\* The Go scheduler runs every runnable goroutine, and sync.Mutex hands itself
\* to a waiter that has starved; nothing obliges anyone to call Submit or Stop.
CallerFairness ==
    /\ \A t \in Tasks : /\ SF_vars(SubmitLock(t))
                        /\ WF_vars(SubmitCheck(t))
                        /\ WF_vars(SubmitSend(t))
    /\ \A s \in Stoppers : /\ SF_vars(StopLock(s))
                           /\ WF_vars(StopMark(s))
                           /\ WF_vars(CloseJobs(s))
                           /\ WF_vars(StopReturn(s))

\* Holds only if every handler returns; assumed where a property names it.
WorkerFairness == \A w \in Workers : WF_vars(WorkerSteps(w))

Spec == Init /\ [][Next]_vars /\ CallerFairness

------------------------------------------------------------------------------
(* Properties.                                                              *)

\* No interleaving of Submit and Stop sends on a closed channel or closes it
\* twice: q.stopped is set under q.mu before the close that follows the unlock.
NoPanic == ~panicked

\* A task is in one place: in the buffer at one position, at one worker, or at
\* neither; so it is handled at most once, and a dropped one never.
TaskInOnePlace ==
    /\ \A i, j \in DOMAIN jobs : jobs[i] = jobs[j] => i = j
    /\ \A t \in Tasks : call[t] = "queued" <=> \E i \in DOMAIN jobs : jobs[i] = t
    /\ \A t \in Tasks : call[t] = "running" <=> \E w \in Workers : job[w] = t
    /\ \A v, w \in Workers : job[v] = job[w] /\ job[v] # NoTask => v = w

\* When the Stop that closed the channel returns, every accepted task has been
\* handled ("stops the background task workers and waits for them to drain").
ReturnMeansDrained ==
    (\E s \in Stoppers : stop[s] = "returned") =>
        \A t \in Tasks : call[t] \notin {"cleared", "queued", "running"}

\* Submit returns even if every handler hangs and the buffer stays full: the
\* upload handler that calls it is never blocked.
SubmitReturns ==
    \A t \in Tasks : call[t] = "calling" ~>
                        call[t] \in {"queued", "running", "done", "dropped"}

\* If handlers return, every accepted task is handled, stopped queue or not.
AcceptedIsHandled ==
    WorkerFairness => \A t \in Tasks : call[t] = "queued" ~> call[t] = "done"

\* If handlers return, every call of Stop returns.
StopCallReturns ==
    WorkerFairness => \A s \in Stoppers :
        stop[s] = "calling" ~> stop[s] \in {"returned", "early"}

\* The queue implements the abstract service: cleared and earlier is still new,
\* buffered and running is accepted, and the service is drained on return.
StatusOf(t) ==
    CASE call[t] \in {"new", "calling", "locked", "cleared"} -> "new"
      [] call[t] \in {"queued", "running"} -> "accepted"
      [] call[t] = "dropped" -> "refused"
      [] call[t] = "done" -> "completed"

ServicePhase ==
    CASE ~stopped -> "open"
      [] stopped /\ (\E s \in Stoppers : stop[s] = "returned") -> "drained"
      [] stopped /\ ~(\E s \in Stoppers : stop[s] = "returned") -> "closing"

Async == INSTANCE AsyncTasks
            WITH status <- [t \in Tasks |-> StatusOf(t)], service <- ServicePhase

\* What callers of the queue may rely on (AsyncTasks), step for step.
ImplementsAsyncTasks == Async!Spec
==============================================================================
