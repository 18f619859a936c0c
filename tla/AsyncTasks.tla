----------------------------- MODULE AsyncTasks -----------------------------
(***************************************************************************)
(* What the background task service of PureFS promises its callers: every  *)
(* submitted task is either refused at once or accepted, an accepted task  *)
(* is completed exactly once, nothing is accepted once the service is      *)
(* closing, and the service is drained only when no accepted task is left. *)
(***************************************************************************)
CONSTANT Tasks

VARIABLES status,   \* status[t]: what has become of task t
          service   \* the phase of the whole service

vars == <<status, service>>

TypeOK ==
    /\ status \in [Tasks -> {"new", "accepted", "refused", "completed"}]
    /\ service \in {"open", "closing", "drained"}

Init ==
    /\ status = [t \in Tasks |-> "new"]
    /\ service = "open"

Accept(t) ==
    /\ service = "open"
    /\ status[t] = "new"
    /\ status' = [status EXCEPT ![t] = "accepted"]
    /\ UNCHANGED service

\* A full or a closing service turns the task away.
Refuse(t) ==
    /\ status[t] = "new"
    /\ status' = [status EXCEPT ![t] = "refused"]
    /\ UNCHANGED service

Complete(t) ==
    /\ service # "drained"
    /\ status[t] = "accepted"
    /\ status' = [status EXCEPT ![t] = "completed"]
    /\ UNCHANGED service

Close ==
    /\ service = "open"
    /\ service' = "closing"
    /\ UNCHANGED status

Drain ==
    /\ service = "closing"
    /\ \A t \in Tasks : status[t] # "accepted"
    /\ service' = "drained"
    /\ UNCHANGED status

Next ==
    \/ \E t \in Tasks : Accept(t) \/ Refuse(t) \/ Complete(t)
    \/ Close
    \/ Drain

Spec == Init /\ [][Next]_vars
=============================================================================
