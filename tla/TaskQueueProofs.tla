--------------------------- MODULE TaskQueueProofs ---------------------------
(***************************************************************************)
(* For any number of tasks, workers and goroutines that call Stop, and any *)
(* capacity: the queue never panics, keeps each task in one place, is      *)
(* drained when Stop returns, and implements AsyncTasks step for step.     *)
(* All four follow from one inductive invariant, IInv.                     *)
(***************************************************************************)
EXTENDS TaskQueue, TLAPS

\* The mutex is held by whoever is inside a critical section.
MutexInv ==
    /\ \A t \in Tasks : mu = t <=> call[t] \in {"locked", "cleared"}
    /\ \A s \in Stoppers : mu = s <=> stop[s] = "locked"

Closing == {"marked", "waiting", "returned"}

\* One call of Stop closes the channel, after stopped is set, and no Submit
\* that read stopped as false is still on its way to the send.
StopInv ==
    /\ \A s \in Stoppers : stop[s] \in Closing => stopped
    /\ \A r, s \in Stoppers : stop[r] \in Closing /\ stop[s] \in Closing => r = s
    /\ closed <=> \E s \in Stoppers : stop[s] \in {"waiting", "returned"}
    /\ \A t \in Tasks : call[t] = "cleared" => ~stopped

\* Nobody calls before Start; a worker leaves only a closed and empty channel.
WorkerInv ==
    /\ ~started => /\ \A w \in Workers : worker[w] = "unborn"
                   /\ \A t \in Tasks : call[t] = "new"
                   /\ \A s \in Stoppers : stop[s] = "out"
    /\ started => \A w \in Workers : worker[w] # "unborn"
    /\ \A w \in Workers : job[w] # NoTask => worker[w] = "ranging"
    /\ \A w \in Workers : worker[w] = "exited" => closed /\ jobs = <<>>
    /\ \A s \in Stoppers : stop[s] = "returned" =>
            \A w \in Workers : worker[w] = "exited"

IInv == TypeOK /\ MutexInv /\ StopInv /\ WorkerInv /\ TaskInOnePlace /\ NoPanic

\* A new queue: empty and open, nobody in Submit or Stop, no worker launched.
LEMMA InitIInv == Init => IInv
<1> SUFFICES ASSUME Init PROVE IInv
    OBVIOUS
<1>1. TypeOK
  <2>1. jobs \in Seq(Tasks) /\ Len(jobs) <= Capacity
      BY QueueAssumption DEF Init
  <2>2. /\ closed \in BOOLEAN /\ started \in BOOLEAN /\ stopped \in BOOLEAN
        /\ panicked \in BOOLEAN
        /\ mu \in Tasks \cup Stoppers \cup {Free}
      BY DEF Init
  <2>3. /\ worker \in [Workers -> {"unborn", "ranging", "exited"}]
        /\ job \in [Workers -> Tasks \cup {NoTask}]
      BY DEF Init
  <2> QED
      BY <2>1, <2>2, <2>3 DEF Init, TypeOK
<1>2. NoPanic
    BY DEF Init, NoPanic
<1>3. MutexInv
    BY QueueAssumption DEF Init, MutexInv
<1>4. StopInv
    BY DEF Init, StopInv, Closing
<1>5. WorkerInv
    BY DEF Init, WorkerInv
<1>6. TaskInOnePlace
    BY QueueAssumption DEF Init, TaskInOnePlace
<1> QED
    BY <1>1, <1>2, <1>3, <1>4, <1>5, <1>6 DEF IInv

\* Each action keeps the types; jobs grows only while there is room.
LEMMA TypeStep == TypeOK /\ [Next]_vars => TypeOK'
<1> SUFFICES ASSUME TypeOK, [Next]_vars PROVE TypeOK'
    OBVIOUS
<1> USE DEF TypeOK
<1>1. CASE Start
    BY <1>1 DEF Start
<1>2. ASSUME NEW t \in Tasks, Submit(t) PROVE TypeOK'
    BY <1>2 DEF Submit
<1>3. ASSUME NEW t \in Tasks, SubmitLock(t) PROVE TypeOK'
    BY <1>3 DEF SubmitLock
<1>4. ASSUME NEW t \in Tasks, SubmitCheck(t) PROVE TypeOK'
    BY <1>4 DEF SubmitCheck
<1>5. ASSUME NEW t \in Tasks, SubmitSend(t) PROVE TypeOK'
  <2>1. jobs' \in Seq(Tasks) /\ Len(jobs') <= Capacity
      BY <1>5, QueueAssumption DEF SubmitSend
  <2>2. call' \in [Tasks -> {"new", "calling", "locked", "cleared", "queued",
                             "dropped", "running", "done"}]
      BY <1>5 DEF SubmitSend
  <2>3. panicked' \in BOOLEAN /\ mu' \in Tasks \cup Stoppers \cup {Free}
      BY <1>5 DEF SubmitSend
  <2> QED
      BY <1>5, <2>1, <2>2, <2>3 DEF SubmitSend
<1>6. ASSUME NEW s \in Stoppers, StopCall(s) PROVE TypeOK'
    BY <1>6 DEF StopCall
<1>7. ASSUME NEW s \in Stoppers, StopLock(s) PROVE TypeOK'
    BY <1>7 DEF StopLock
<1>8. ASSUME NEW s \in Stoppers, StopMark(s) PROVE TypeOK'
    BY <1>8 DEF StopMark
<1>9. ASSUME NEW s \in Stoppers, CloseJobs(s) PROVE TypeOK'
    BY <1>9 DEF CloseJobs
<1>10. ASSUME NEW s \in Stoppers, StopReturn(s) PROVE TypeOK'
    BY <1>10 DEF StopReturn
<1>11. ASSUME NEW w \in Workers, Take(w) PROVE TypeOK'
    BY <1>11, QueueAssumption DEF Take
<1>12. ASSUME NEW w \in Workers, Handle(w) PROVE TypeOK'
    BY <1>12 DEF Handle
<1>13. ASSUME NEW w \in Workers, Exit(w) PROVE TypeOK'
    BY <1>13 DEF Exit
<1>14. CASE UNCHANGED vars
    BY <1>14 DEF vars
<1> QED
    BY <1>1, <1>2, <1>3, <1>4, <1>5, <1>6, <1>7, <1>8, <1>9, <1>10, <1>11,
       <1>12, <1>13, <1>14
    DEF Next, SubmitSteps, StopSteps, WorkerSteps

\* Only a free mutex is taken, and only its holder releases it.
LEMMA MutexStep ==
    TypeOK /\ MutexInv /\ TaskInOnePlace /\ [Next]_vars => MutexInv'
<1> SUFFICES ASSUME TypeOK, MutexInv, TaskInOnePlace, [Next]_vars PROVE MutexInv'
    OBVIOUS
<1> USE QueueAssumption DEF TypeOK, MutexInv
<1>1. CASE Start
    BY <1>1 DEF Start
<1>2. ASSUME NEW t \in Tasks, Submit(t) PROVE MutexInv'
    BY <1>2 DEF Submit
<1>3. ASSUME NEW t \in Tasks, SubmitLock(t) PROVE MutexInv'
    BY <1>3 DEF SubmitLock
<1>4. ASSUME NEW t \in Tasks, SubmitCheck(t) PROVE MutexInv'
    BY <1>4 DEF SubmitCheck
<1>5. ASSUME NEW t \in Tasks, SubmitSend(t) PROVE MutexInv'
    BY <1>5 DEF SubmitSend
<1>6. ASSUME NEW s \in Stoppers, StopCall(s) PROVE MutexInv'
    BY <1>6 DEF StopCall
<1>7. ASSUME NEW s \in Stoppers, StopLock(s) PROVE MutexInv'
    BY <1>7 DEF StopLock
<1>8. ASSUME NEW s \in Stoppers, StopMark(s) PROVE MutexInv'
    BY <1>8 DEF StopMark
<1>9. ASSUME NEW s \in Stoppers, CloseJobs(s) PROVE MutexInv'
    BY <1>9 DEF CloseJobs
<1>10. ASSUME NEW s \in Stoppers, StopReturn(s) PROVE MutexInv'
    BY <1>10 DEF StopReturn
<1>11. ASSUME NEW w \in Workers, Take(w) PROVE MutexInv'
  <2>1. call[Head(jobs)] = "queued" /\ Head(jobs) \in Tasks
      BY <1>11 DEF Take, TaskInOnePlace
  <2> QED
      BY <1>11, <2>1 DEF Take
<1>12. ASSUME NEW w \in Workers, Handle(w) PROVE MutexInv'
  <2>1. call[job[w]] = "running" /\ job[w] \in Tasks
      BY <1>12 DEF Handle, TaskInOnePlace
  <2> QED
      BY <1>12, <2>1 DEF Handle
<1>13. ASSUME NEW w \in Workers, Exit(w) PROVE MutexInv'
    BY <1>13 DEF Exit
<1>14. CASE UNCHANGED vars
    BY <1>14 DEF vars
<1> QED
    BY <1>1, <1>2, <1>3, <1>4, <1>5, <1>6, <1>7, <1>8, <1>9, <1>10, <1>11,
       <1>12, <1>13, <1>14
    DEF Next, SubmitSteps, StopSteps, WorkerSteps

\* The one call of Stop that found stopped false is the one that closes.
LEMMA StopStep == TypeOK /\ MutexInv /\ StopInv /\ [Next]_vars => StopInv'
<1> SUFFICES ASSUME TypeOK, MutexInv, StopInv, [Next]_vars PROVE StopInv'
    OBVIOUS
<1> USE QueueAssumption DEF TypeOK, MutexInv, StopInv, Closing
<1>1. CASE Start
    BY <1>1 DEF Start
<1>2. ASSUME NEW t \in Tasks, Submit(t) PROVE StopInv'
    BY <1>2 DEF Submit
<1>3. ASSUME NEW t \in Tasks, SubmitLock(t) PROVE StopInv'
    BY <1>3 DEF SubmitLock
<1>4. ASSUME NEW t \in Tasks, SubmitCheck(t) PROVE StopInv'
    BY <1>4 DEF SubmitCheck
<1>5. ASSUME NEW t \in Tasks, SubmitSend(t) PROVE StopInv'
    BY <1>5 DEF SubmitSend
<1>6. ASSUME NEW s \in Stoppers, StopCall(s) PROVE StopInv'
    BY <1>6 DEF StopCall
<1>7. ASSUME NEW s \in Stoppers, StopLock(s) PROVE StopInv'
    BY <1>7 DEF StopLock
<1>8. ASSUME NEW s \in Stoppers, StopMark(s) PROVE StopInv'
    BY <1>8 DEF StopMark
<1>9. ASSUME NEW s \in Stoppers, CloseJobs(s) PROVE StopInv'
    BY <1>9 DEF CloseJobs
<1>10. ASSUME NEW s \in Stoppers, StopReturn(s) PROVE StopInv'
    BY <1>10 DEF StopReturn
<1>11. ASSUME NEW w \in Workers, Take(w) PROVE StopInv'
    BY <1>11 DEF Take
<1>12. ASSUME NEW w \in Workers, Handle(w) PROVE StopInv'
    BY <1>12 DEF Handle
<1>13. ASSUME NEW w \in Workers, Exit(w) PROVE StopInv'
    BY <1>13 DEF Exit
<1>14. CASE UNCHANGED vars
    BY <1>14 DEF vars
<1> QED
    BY <1>1, <1>2, <1>3, <1>4, <1>5, <1>6, <1>7, <1>8, <1>9, <1>10, <1>11,
       <1>12, <1>13, <1>14
    DEF Next, SubmitSteps, StopSteps, WorkerSteps

\* Once the channel is closed and empty nothing is put in it again.
LEMMA WorkerStep ==
    TypeOK /\ StopInv /\ WorkerInv /\ [Next]_vars => WorkerInv'
<1> SUFFICES ASSUME TypeOK, StopInv, WorkerInv, [Next]_vars PROVE WorkerInv'
    OBVIOUS
<1> USE DEF TypeOK, StopInv, WorkerInv, Closing
<1>1. CASE Start
    BY <1>1 DEF Start
<1>2. ASSUME NEW t \in Tasks, Submit(t) PROVE WorkerInv'
    BY <1>2 DEF Submit
<1>3. ASSUME NEW t \in Tasks, SubmitLock(t) PROVE WorkerInv'
    BY <1>3 DEF SubmitLock
<1>4. ASSUME NEW t \in Tasks, SubmitCheck(t) PROVE WorkerInv'
    BY <1>4 DEF SubmitCheck
<1>5. ASSUME NEW t \in Tasks, SubmitSend(t) PROVE WorkerInv'
    BY <1>5 DEF SubmitSend
<1>6. ASSUME NEW s \in Stoppers, StopCall(s) PROVE WorkerInv'
    BY <1>6 DEF StopCall
<1>7. ASSUME NEW s \in Stoppers, StopLock(s) PROVE WorkerInv'
    BY <1>7 DEF StopLock
<1>8. ASSUME NEW s \in Stoppers, StopMark(s) PROVE WorkerInv'
    BY <1>8 DEF StopMark
<1>9. ASSUME NEW s \in Stoppers, CloseJobs(s) PROVE WorkerInv'
    BY <1>9 DEF CloseJobs
<1>10. ASSUME NEW s \in Stoppers, StopReturn(s) PROVE WorkerInv'
    BY <1>10 DEF StopReturn, wg
<1>11. ASSUME NEW w \in Workers, Take(w) PROVE WorkerInv'
    BY <1>11 DEF Take
<1>12. ASSUME NEW w \in Workers, Handle(w) PROVE WorkerInv'
    BY <1>12 DEF Handle
<1>13. ASSUME NEW w \in Workers, Exit(w) PROVE WorkerInv'
    BY <1>13 DEF Exit
<1>14. CASE UNCHANGED vars
    BY <1>14 DEF vars
<1> QED
    BY <1>1, <1>2, <1>3, <1>4, <1>5, <1>6, <1>7, <1>8, <1>9, <1>10, <1>11,
       <1>12, <1>13, <1>14
    DEF Next, SubmitSteps, StopSteps, WorkerSteps

\* A task moves from its caller to the end of the buffer, from the head of the
\* buffer to one worker, and from that worker nowhere.
LEMMA PlaceStep == TypeOK /\ TaskInOnePlace /\ [Next]_vars => TaskInOnePlace'
<1> SUFFICES ASSUME TypeOK, TaskInOnePlace, [Next]_vars PROVE TaskInOnePlace'
    OBVIOUS
<1> USE QueueAssumption DEF TypeOK, TaskInOnePlace
<1>1. CASE Start
    BY <1>1 DEF Start
<1>2. ASSUME NEW t \in Tasks, Submit(t) PROVE TaskInOnePlace'
    BY <1>2 DEF Submit
<1>3. ASSUME NEW t \in Tasks, SubmitLock(t) PROVE TaskInOnePlace'
    BY <1>3 DEF SubmitLock
<1>4. ASSUME NEW t \in Tasks, SubmitCheck(t) PROVE TaskInOnePlace'
    BY <1>4 DEF SubmitCheck
<1>5. ASSUME NEW t \in Tasks, SubmitSend(t) PROVE TaskInOnePlace'
  <2>1. CASE jobs' = jobs
      BY <1>5, <2>1 DEF SubmitSend
  <2>2. CASE jobs' = Append(jobs, t)
    <3>1. /\ call' = [call EXCEPT ![t] = "queued"]
          /\ job' = job
          /\ call[t] = "cleared"
        BY <1>5, <2>2 DEF SubmitSend
    <3>2. /\ DOMAIN jobs' = DOMAIN jobs \cup {Len(jobs) + 1}
          /\ \A i \in DOMAIN jobs : jobs'[i] = jobs[i] /\ i # Len(jobs) + 1
          /\ jobs'[Len(jobs) + 1] = t
        BY <2>2
    <3>3. \A i \in DOMAIN jobs : jobs[i] # t /\ jobs[i] \in Tasks
        BY <3>1
    <3>4. \A i, j \in DOMAIN jobs' : jobs'[i] = jobs'[j] => i = j
        BY <3>2, <3>3
    <3>5. \A u \in Tasks : call'[u] = "queued" <=> \E i \in DOMAIN jobs' : jobs'[i] = u
        BY <3>1, <3>2, <3>3
    <3>6. \A u \in Tasks : call'[u] = "running" <=> \E w \in Workers : job'[w] = u
        BY <3>1
    <3> QED
        BY <3>1, <3>4, <3>5, <3>6
  <2> QED
      BY <1>5, <2>1, <2>2 DEF SubmitSend
<1>6. ASSUME NEW s \in Stoppers, StopCall(s) PROVE TaskInOnePlace'
    BY <1>6 DEF StopCall
<1>7. ASSUME NEW s \in Stoppers, StopLock(s) PROVE TaskInOnePlace'
    BY <1>7 DEF StopLock
<1>8. ASSUME NEW s \in Stoppers, StopMark(s) PROVE TaskInOnePlace'
    BY <1>8 DEF StopMark
<1>9. ASSUME NEW s \in Stoppers, CloseJobs(s) PROVE TaskInOnePlace'
    BY <1>9 DEF CloseJobs
<1>10. ASSUME NEW s \in Stoppers, StopReturn(s) PROVE TaskInOnePlace'
    BY <1>10 DEF StopReturn
<1>11. ASSUME NEW w \in Workers, Take(w) PROVE TaskInOnePlace'
  <2> DEFINE h == Head(jobs)
  <2>1. /\ job' = [job EXCEPT ![w] = h] /\ job[w] = NoTask
        /\ jobs' = Tail(jobs) /\ jobs # <<>>
        /\ call' = [call EXCEPT ![h] = "running"]
      BY <1>11 DEF Take
  <2>2. h \in Tasks /\ h = jobs[1] /\ 1 \in DOMAIN jobs
      BY <2>1
  <2>3. call[h] = "queued"
      BY <2>2
  <2>4. \A v \in Workers : job[v] # h
      BY <2>2, <2>3
  <2>5. /\ \A i \in DOMAIN jobs' : i + 1 \in DOMAIN jobs /\ jobs'[i] = jobs[i + 1]
                                  /\ i + 1 # 1 /\ i \in Nat
        /\ \A i \in DOMAIN jobs \ {1} : i - 1 \in DOMAIN jobs' /\ jobs'[i - 1] = jobs[i]
      BY <2>1
  <2>6. \A i \in DOMAIN jobs' : jobs'[i] # h
      BY <2>2, <2>5
  <2>7. \A i, j \in DOMAIN jobs' : jobs'[i] = jobs'[j] => i = j
      BY <2>5
  <2>8. \A u \in Tasks : call'[u] = "queued" <=> \E i \in DOMAIN jobs' : jobs'[i] = u
    <3> TAKE u \in Tasks
    <3>1. CASE u = h
        BY <2>1, <2>6, <3>1
    <3>2. CASE u # h
      <4>1. ASSUME call'[u] = "queued" PROVE \E i \in DOMAIN jobs' : jobs'[i] = u
        <5>1. PICK i \in DOMAIN jobs : jobs[i] = u
            BY <4>1, <3>2, <2>1, <2>2
        <5>2. i # 1
            BY <5>1, <3>2, <2>2
        <5> QED
            BY <5>1, <5>2, <2>5
      <4>2. ASSUME NEW i \in DOMAIN jobs', jobs'[i] = u PROVE call'[u] = "queued"
          BY <4>2, <3>2, <2>1, <2>5
      <4> QED
          BY <4>1, <4>2
    <3> QED
        BY <3>1, <3>2
  <2>9. \A u \in Tasks : call'[u] = "running" <=> \E v \in Workers : job'[v] = u
      BY <2>1, <2>2, <2>4
  <2>10. \A v, x \in Workers : job'[v] = job'[x] /\ job'[v] # NoTask => v = x
      BY <2>1, <2>4
  <2> QED
      BY <2>7, <2>8, <2>9, <2>10
<1>12. ASSUME NEW w \in Workers, Handle(w) PROVE TaskInOnePlace'
    BY <1>12 DEF Handle
<1>13. ASSUME NEW w \in Workers, Exit(w) PROVE TaskInOnePlace'
    BY <1>13 DEF Exit
<1>14. CASE UNCHANGED vars
    BY <1>14 DEF vars
<1> QED
    BY <1>1, <1>2, <1>3, <1>4, <1>5, <1>6, <1>7, <1>8, <1>9, <1>10, <1>11,
       <1>12, <1>13, <1>14
    DEF Next, SubmitSteps, StopSteps, WorkerSteps

\* A send finds the channel open, and a close finds it not yet closed.
LEMMA PanicStep == TypeOK /\ StopInv /\ NoPanic /\ [Next]_vars => NoPanic'
<1> SUFFICES ASSUME TypeOK, StopInv, NoPanic, [Next]_vars PROVE NoPanic'
    OBVIOUS
<1> USE DEF TypeOK, StopInv, Closing, NoPanic
<1>1. CASE Start
    BY <1>1 DEF Start
<1>2. ASSUME NEW t \in Tasks, Submit(t) PROVE NoPanic'
    BY <1>2 DEF Submit
<1>3. ASSUME NEW t \in Tasks, SubmitLock(t) PROVE NoPanic'
    BY <1>3 DEF SubmitLock
<1>4. ASSUME NEW t \in Tasks, SubmitCheck(t) PROVE NoPanic'
    BY <1>4 DEF SubmitCheck
<1>5. ASSUME NEW t \in Tasks, SubmitSend(t) PROVE NoPanic'
    BY <1>5 DEF SubmitSend
<1>6. ASSUME NEW s \in Stoppers, StopCall(s) PROVE NoPanic'
    BY <1>6 DEF StopCall
<1>7. ASSUME NEW s \in Stoppers, StopLock(s) PROVE NoPanic'
    BY <1>7 DEF StopLock
<1>8. ASSUME NEW s \in Stoppers, StopMark(s) PROVE NoPanic'
    BY <1>8 DEF StopMark
<1>9. ASSUME NEW s \in Stoppers, CloseJobs(s) PROVE NoPanic'
    BY <1>9 DEF CloseJobs
<1>10. ASSUME NEW s \in Stoppers, StopReturn(s) PROVE NoPanic'
    BY <1>10 DEF StopReturn
<1>11. ASSUME NEW w \in Workers, Take(w) PROVE NoPanic'
    BY <1>11 DEF Take
<1>12. ASSUME NEW w \in Workers, Handle(w) PROVE NoPanic'
    BY <1>12 DEF Handle
<1>13. ASSUME NEW w \in Workers, Exit(w) PROVE NoPanic'
    BY <1>13 DEF Exit
<1>14. CASE UNCHANGED vars
    BY <1>14 DEF vars
<1> QED
    BY <1>1, <1>2, <1>3, <1>4, <1>5, <1>6, <1>7, <1>8, <1>9, <1>10, <1>11,
       <1>12, <1>13, <1>14
    DEF Next, SubmitSteps, StopSteps, WorkerSteps

\* IInv is inductive, so it holds of every reachable state of the queue.
THEOREM QueueInvariant == Spec => []IInv
<1>1. IInv /\ [Next]_vars => IInv'
    BY TypeStep, MutexStep, StopStep, WorkerStep, PlaceStep, PanicStep DEF IInv
<1> QED
    BY InitIInv, <1>1, PTL DEF Spec

\* The buffer never exceeds its capacity and every variable keeps its type.
THEOREM TypeCorrect == Spec => []TypeOK
<1>1. IInv => TypeOK
    BY DEF IInv
<1> QED
    BY QueueInvariant, <1>1, PTL

\* Submit never sends on a closed channel and Stop never closes it twice,
\* however many goroutines call them at once.
THEOREM NeverPanics == Spec => []NoPanic
<1>1. IInv => NoPanic
    BY DEF IInv
<1> QED
    BY QueueInvariant, <1>1, PTL

\* An accepted task is never duplicated and never lost between the buffer and
\* the workers.
THEOREM OnePlace == Spec => []TaskInOnePlace
<1>1. IInv => TaskInOnePlace
    BY DEF IInv
<1> QED
    BY QueueInvariant, <1>1, PTL

\* A Stop returns after all workers, and a worker leaves an empty closed buffer:
\* nothing accepted is left by then.
LEMMA DrainedFromIInv == IInv => ReturnMeansDrained
<1> SUFFICES ASSUME IInv, NEW s \in Stoppers, stop[s] = "returned", NEW t \in Tasks
             PROVE  call[t] \notin {"cleared", "queued", "running"}
    BY DEF ReturnMeansDrained
<1> USE DEF IInv
<1>1. \A w \in Workers : worker[w] = "exited" /\ job[w] = NoTask
    BY DEF WorkerInv
<1>2. jobs = <<>>
    BY <1>1, QueueAssumption DEF WorkerInv
<1>3. call[t] # "cleared"
    BY DEF StopInv, Closing
<1>4. call[t] # "queued"
    BY <1>2 DEF TaskInOnePlace
<1>5. call[t] # "running"
    BY <1>1, QueueAssumption DEF TaskInOnePlace
<1> QED
    BY <1>3, <1>4, <1>5

\* When Stop returns to the call that closed the channel, no accepted task is
\* left, and no Submit is still between its test of stopped and its send.
THEOREM StopDrains == Spec => []ReturnMeansDrained
    BY QueueInvariant, DrainedFromIInv, PTL

------------------------------------------------------------------------------
(* The refinement.                                                          *)

ST == [t \in Tasks |-> StatusOf(t)]

\* What the refinement mapping is, case by case.
LEMMA Mapping ==
    ASSUME TypeOK
    PROVE  /\ \A t \in Tasks : /\ StatusOf(t) = "new" <=> call[t] \in {"new", "calling", "locked", "cleared"}
                               /\ StatusOf(t) = "accepted" <=> call[t] \in {"queued", "running"}
                               /\ StatusOf(t) = "refused" <=> call[t] = "dropped"
                               /\ StatusOf(t) = "completed" <=> call[t] = "done"
                               /\ StatusOf(t) \in {"new", "accepted", "refused", "completed"}
           /\ ServicePhase = "open" <=> ~stopped
           /\ ServicePhase = "drained" <=> stopped /\ \E s \in Stoppers : stop[s] = "returned"
           /\ ServicePhase = "closing" <=> stopped /\ \A s \in Stoppers : stop[s] # "returned"
<1>1. \A t \in Tasks : call[t] \in {"new", "calling", "locked", "cleared", "queued",
                                    "dropped", "running", "done"}
    BY DEF TypeOK
<1>2. stopped \in BOOLEAN
    BY DEF TypeOK
<1>3. ASSUME NEW t \in Tasks
      PROVE  /\ StatusOf(t) = "new" <=> call[t] \in {"new", "calling", "locked", "cleared"}
             /\ StatusOf(t) = "accepted" <=> call[t] \in {"queued", "running"}
             /\ StatusOf(t) = "refused" <=> call[t] = "dropped"
             /\ StatusOf(t) = "completed" <=> call[t] = "done"
             /\ StatusOf(t) \in {"new", "accepted", "refused", "completed"}
    BY <1>1 DEF StatusOf
<1>4. /\ ServicePhase = "open" <=> ~stopped
      /\ ServicePhase = "drained" <=> stopped /\ \E s \in Stoppers : stop[s] = "returned"
      /\ ServicePhase = "closing" <=> stopped /\ \A s \in Stoppers : stop[s] # "returned"
    BY <1>2 DEF ServicePhase
<1> QED
    BY <1>3, <1>4

\* Steps that leave the status of every task and the phase alone are stutters.
LEMMA Stutter ==
    ASSUME \A t \in Tasks : StatusOf(t)' = StatusOf(t), ServicePhase' = ServicePhase
    PROVE  UNCHANGED Async!vars
    BY DEF Async!vars

\* A step that moves one task moves one entry of the abstract status.
LEMMA StatusMove ==
    ASSUME NEW t \in Tasks, NEW c, StatusOf(t)' = c,
           \A u \in Tasks \ {t} : StatusOf(u)' = StatusOf(u)
    PROVE  ST' = [ST EXCEPT ![t] = c]
    BY DEF ST

\* A new queue is an open service with no task submitted.
LEMMA InitRefines == Init => Async!Init
    BY DEF Init, Async!Init, StatusOf, ServicePhase

\* Every step of the queue is a step of the abstract service or a stutter.
LEMMA StepRefines == IInv /\ IInv' /\ [Next]_vars => [Async!Next]_Async!vars
<1> SUFFICES ASSUME IInv, IInv', [Next]_vars PROVE [Async!Next]_Async!vars
    OBVIOUS
<1> DEFINE SameStatus == \A t \in Tasks : StatusOf(t)' = StatusOf(t)
           SamePhase == ServicePhase' = ServicePhase
<1>a. TypeOK /\ TypeOK'
    BY DEF IInv
<1>1. CASE Start
  <2>1. SameStatus /\ SamePhase
      BY <1>1 DEF Start, StatusOf, ServicePhase
  <2> QED
      BY <2>1, Stutter
<1>2. ASSUME NEW t \in Tasks, Submit(t) PROVE [Async!Next]_Async!vars
  <2>1. SameStatus /\ SamePhase
      BY <1>2, <1>a DEF Submit, TypeOK, StatusOf, ServicePhase
  <2> QED
      BY <2>1, Stutter
<1>3. ASSUME NEW t \in Tasks, SubmitLock(t) PROVE [Async!Next]_Async!vars
  <2>1. SameStatus /\ SamePhase
      BY <1>3, <1>a DEF SubmitLock, TypeOK, StatusOf, ServicePhase
  <2> QED
      BY <2>1, Stutter
<1>4. ASSUME NEW t \in Tasks, SubmitCheck(t) PROVE [Async!Next]_Async!vars
  <2>1. SamePhase
      BY <1>4 DEF SubmitCheck, ServicePhase
  <2>2. \A u \in Tasks \ {t} : StatusOf(u)' = StatusOf(u)
      BY <1>4, <1>a DEF SubmitCheck, TypeOK, StatusOf
  <2>3. StatusOf(t) = "new"
      BY <1>4, <1>a, Mapping DEF SubmitCheck
  <2>4. CASE call'[t] = "dropped"
    <3>1. StatusOf(t)' = "refused"
        BY <2>4 DEF StatusOf
    <3> QED
        BY <2>1, <2>2, <2>3, <3>1, StatusMove DEF ST, Async!Refuse, Async!Next
  <2>5. CASE call'[t] = "cleared"
    <3>1. StatusOf(t)' = "new"
        BY <2>5 DEF StatusOf
    <3> QED
        BY <2>1, <2>2, <2>3, <3>1, Stutter
  <2> QED
      BY <1>4, <1>a, <2>4, <2>5 DEF SubmitCheck, TypeOK
<1>5. ASSUME NEW t \in Tasks, SubmitSend(t) PROVE [Async!Next]_Async!vars
  <2>1. SamePhase
      BY <1>5 DEF SubmitSend, ServicePhase
  <2>2. \A u \in Tasks \ {t} : StatusOf(u)' = StatusOf(u)
      BY <1>5, <1>a DEF SubmitSend, TypeOK, StatusOf
  <2>3. StatusOf(t) = "new" /\ call[t] = "cleared"
      BY <1>5, <1>a, Mapping DEF SubmitSend
  <2>4. ServicePhase = "open"
      BY <2>3, <1>a, Mapping DEF IInv, StopInv
  <2>5. CASE call'[t] = "queued"
    <3>1. StatusOf(t)' = "accepted"
        BY <2>5 DEF StatusOf
    <3> QED
        BY <2>1, <2>2, <2>3, <2>4, <3>1, StatusMove DEF ST, Async!Accept, Async!Next
  <2>6. CASE call'[t] = "dropped"
    <3>1. StatusOf(t)' = "refused"
        BY <2>6 DEF StatusOf
    <3> QED
        BY <2>1, <2>2, <2>3, <3>1, StatusMove DEF ST, Async!Refuse, Async!Next
  <2> QED
      BY <1>5, <1>a, <2>5, <2>6 DEF SubmitSend, TypeOK
<1>6. ASSUME NEW s \in Stoppers, StopCall(s) \/ StopLock(s) \/ CloseJobs(s)
      PROVE  [Async!Next]_Async!vars
  <2>1. SameStatus
      BY <1>6 DEF StopCall, StopLock, CloseJobs, StatusOf
  <2>2. /\ stopped' = stopped
        /\ \A r \in Stoppers : stop'[r] = "returned" <=> stop[r] = "returned"
      BY <1>6, <1>a DEF StopCall, StopLock, CloseJobs, TypeOK
  <2>3. SamePhase
      BY <2>2 DEF ServicePhase
  <2> QED
      BY <2>1, <2>3, Stutter
<1>7. ASSUME NEW s \in Stoppers, StopMark(s) PROVE [Async!Next]_Async!vars
  <2>1. SameStatus
      BY <1>7 DEF StopMark, StatusOf
  <2>2. /\ stopped'
        /\ \A r \in Stoppers : stop'[r] = "returned" <=> stop[r] = "returned"
      BY <1>7, <1>a DEF StopMark, TypeOK
  <2>3. CASE stopped
    <3>1. SamePhase
        BY <2>2, <2>3 DEF ServicePhase
    <3> QED
        BY <2>1, <3>1, Stutter
  <2>4. CASE ~stopped
    <3>1. \A r \in Stoppers : stop[r] # "returned"
        BY <2>4 DEF IInv, StopInv, Closing
    <3>2. ServicePhase = "open"
        BY <2>4 DEF ServicePhase
    <3>3. ServicePhase' = "closing"
        BY <2>2, <3>1 DEF ServicePhase
    <3> QED
        BY <2>1, <3>2, <3>3 DEF Async!Close, Async!Next
  <2> QED
      BY <2>3, <2>4
<1>8. ASSUME NEW s \in Stoppers, StopReturn(s) PROVE [Async!Next]_Async!vars
  <2>1. SameStatus
      BY <1>8 DEF StopReturn, StatusOf
  <2>2. stopped /\ stopped' = stopped /\ stop'[s] = "returned"
      BY <1>8, <1>a DEF StopReturn, IInv, StopInv, Closing, TypeOK
  <2>3. \A r \in Stoppers : stop[r] # "returned"
      BY <1>8 DEF StopReturn, IInv, StopInv, Closing
  <2>4. ServicePhase = "closing" /\ ServicePhase' = "drained"
      BY <2>2, <2>3 DEF ServicePhase
  <2>5. \A t \in Tasks : call[t] \notin {"queued", "running"}
    <3>1. ReturnMeansDrained'
        BY DrainedFromIInv, PTL
    <3> QED
        BY <3>1, <2>2, <1>8 DEF ReturnMeansDrained, StopReturn
  <2>6. \A t \in Tasks : StatusOf(t) # "accepted"
      BY <2>5, <1>a, Mapping
  <2> QED
      BY <2>1, <2>4, <2>6 DEF Async!Drain, Async!Next
<1>9. ASSUME NEW w \in Workers, Take(w) PROVE [Async!Next]_Async!vars
  <2> DEFINE h == Head(jobs)
  <2>1. h \in Tasks /\ call[h] = "queued" /\ call' = [call EXCEPT ![h] = "running"]
      BY <1>9, <1>a DEF Take, TypeOK, IInv, TaskInOnePlace
  <2>2. SameStatus
    <3> SUFFICES ASSUME NEW t \in Tasks PROVE StatusOf(t)' = StatusOf(t)
        OBVIOUS
    <3> QED
        BY <2>1, <1>a DEF StatusOf, TypeOK
  <2>3. SamePhase
      BY <1>9 DEF Take, ServicePhase
  <2> QED
      BY <2>2, <2>3, Stutter
<1>10. ASSUME NEW w \in Workers, Handle(w) PROVE [Async!Next]_Async!vars
  <2>1. PICK t \in Tasks : t = job[w]
      BY <1>10, <1>a DEF Handle, TypeOK
  <2>0. call[t] = "running" /\ call' = [call EXCEPT ![t] = "done"]
      BY <2>1, <1>10 DEF Handle, IInv, TaskInOnePlace
  <2>2. StatusOf(t) = "accepted" /\ StatusOf(t)' = "completed"
      BY <2>0, <1>a DEF StatusOf, TypeOK
  <2>3. \A u \in Tasks \ {t} : StatusOf(u)' = StatusOf(u)
      BY <2>0, <1>a DEF StatusOf, TypeOK
  <2>4. SamePhase
      BY <1>10 DEF Handle, ServicePhase
  <2>5. \A s \in Stoppers : stop[s] # "returned"
      BY <1>10 DEF Handle, IInv, WorkerInv
  <2>6. ServicePhase # "drained"
      BY <2>5, <1>a, Mapping
  <2>7. ST' = [ST EXCEPT ![t] = "completed"]
      BY <2>2, <2>3, StatusMove
  <2> QED
      BY <2>2, <2>4, <2>6, <2>7 DEF ST, Async!Complete, Async!Next
<1>11. ASSUME NEW w \in Workers, Exit(w) PROVE [Async!Next]_Async!vars
  <2>1. SameStatus /\ SamePhase
      BY <1>11 DEF Exit, StatusOf, ServicePhase
  <2> QED
      BY <2>1, Stutter
<1>12. CASE UNCHANGED vars
  <2>1. SameStatus /\ SamePhase
      BY <1>12 DEF vars, StatusOf, ServicePhase
  <2> QED
      BY <2>1, Stutter
<1> QED
    BY <1>1, <1>2, <1>3, <1>4, <1>5, <1>6, <1>7, <1>8, <1>9, <1>10, <1>11, <1>12
    DEF Next, SubmitSteps, StopSteps, WorkerSteps

\* The queue implements the abstract service for every number of tasks, workers
\* and stoppers: what callers rely on is AsyncTasks, not the channel.
THEOREM QueueRefines == Spec => ImplementsAsyncTasks
<1> QED
    BY QueueInvariant, InitRefines, StepRefines, PTL
    DEF Spec, ImplementsAsyncTasks, Async!Spec

=============================================================================
