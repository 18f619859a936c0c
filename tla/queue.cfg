CONSTANTS
    Tasks = {t1, t2, t3}
    Workers = {w1, w2}
    Stoppers = {s1, s2}
    Capacity = 1
    NoTask = NoTask
    Free = Free
SPECIFICATION Spec
CHECK_DEADLOCK FALSE
INVARIANTS TypeOK NoPanic TaskInOnePlace ReturnMeansDrained
PROPERTIES SubmitReturns AcceptedIsHandled StopCallReturns ImplementsAsyncTasks
