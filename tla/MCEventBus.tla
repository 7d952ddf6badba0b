----------------------------- MODULE MCEventBus -----------------------------
(* Model-checking instance of EventBus: the dispatcher and one department  *)
(* handler subscribed to inbound events, the department to the others.     *)
(* Three events in two constellations: a root with the two others in its   *)
(* family, whoever of them emits which, or any two, related or not.        *)
EXTENDS EventBus, TLC

CONSTANTS dispatch, dept

VARIABLE side

MCHandlers == {dispatch, dept}
MCRegistry == [type \in Types |-> IF type = "inbound" THEN <<dispatch, dept>>
                                                      ELSE <<dept>>]

SideInit == Init /\ side \in {"family", "strangers"}

Kept == \/ /\ side = "family"
           /\ \A e \in Events : row'[e] # "absent" /\ parent'[e] = NoEvent => e = 1
        \/ /\ side = "strangers"
           /\ row'[3] = "absent"

(* With the fairness of FairSpec: a worker that lives goes on, and a task  *)
(* the broker holds out is taken.                                          *)
SideSpec == /\ SideInit
            /\ [][Next /\ Kept /\ UNCHANGED side]_<<vars, side>>
            /\ \A t \in Threads : WF_vars(Continue(t))
            /\ \A e \in Events : WF_vars(\E w \in Workers : Take(w, e))
=============================================================================
