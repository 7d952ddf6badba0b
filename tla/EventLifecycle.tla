--------------------------- MODULE EventLifecycle ---------------------------
(***************************************************************************)
(* What the bus promises about an event (agents/events.py, BusEvent        *)
(* docstring): it is queued before any handler sees it, only the handlers  *)
(* subscribed to its type are called, and it settles once all of them      *)
(* were, as "dispatched" if all have returned.  What a handler publishes   *)
(* is in the event's own chain.  If the broker is patient, each handler is *)
(* called once and the event settles once; an event whose worker died is   *)
(* delivered again, and is beyond that part of the promise.                *)
(***************************************************************************)
CONSTANTS Events, NoEvent,
          Handlers,
          Publisher,      \* the handler that publishes
          Subscribers,    \* type -> handlers subscribed to it
          Patient         \* whether a task waits for its first worker to be over

VARIABLES status, type, chain,
          called,     \* event -> handlers that were called
          clean,      \* event -> handlers that returned without raising
          abandoned   \* events whose worker died

eventVars == <<status, type, chain, called, clean, abandoned>>

Init == /\ status = [e \in Events |-> "absent"]
        /\ type = [e \in Events |-> "inbound"]
        /\ chain = [e \in Events |-> NoEvent]
        /\ called = [e \in Events |-> {}]
        /\ clean = [e \in Events |-> {}]
        /\ abandoned = {}

MayRepeat(e) == e \in abandoned \/ ~Patient
Open(e) == \/ status[e] = "queued"
           \/ status[e] # "absent" /\ MayRepeat(e)

Publish(e, k, c) == /\ status[e] = "absent"
                    /\ status' = [status EXCEPT ![e] = "queued"]
                    /\ type' = [type EXCEPT ![e] = k]
                    /\ chain' = [chain EXCEPT ![e] = c]

Begin(e) == /\ Publish(e, "inbound", e)
            /\ UNCHANGED <<called, clean, abandoned>>

(* The AP intake records its own event as already dispatched. *)
Record(e) == /\ status[e] = "absent"
             /\ status' = [status EXCEPT ![e] = "dispatched"]
             /\ type' = [type EXCEPT ![e] = "received"]
             /\ chain' = [chain EXCEPT ![e] = e]
             /\ UNCHANGED <<called, clean, abandoned>>

Call(e, h) == /\ Open(e)
              /\ h \in Subscribers[type[e]]
              /\ h \notin called[e] \/ MayRepeat(e)
              /\ called' = [called EXCEPT ![e] = @ \cup {h}]
              /\ UNCHANGED abandoned

Handle(e, h) == /\ Call(e, h)
                /\ clean' \in {clean, [clean EXCEPT ![e] = @ \cup {h}]}
                /\ UNCHANGED <<status, type, chain>>

PublishFrom(e, c) == /\ Call(e, Publisher)
                     /\ Publish(c, "routed", chain[e])
                     /\ UNCHANGED clean

Return(e) == /\ Publisher \in called[e]
             /\ clean' = [clean EXCEPT ![e] = @ \cup {Publisher}]
             /\ UNCHANGED <<status, type, chain, called, abandoned>>

Settle(e, s) == /\ Open(e)
                /\ Subscribers[type[e]] \subseteq called[e]
                /\ s = "dispatched" => Subscribers[type[e]] \subseteq clean[e]
                /\ status' = [status EXCEPT ![e] = s]
                /\ UNCHANGED <<type, chain, called, clean, abandoned>>

Abandon(e) == /\ status[e] # "absent"
              /\ abandoned' = abandoned \cup {e}
              /\ UNCHANGED <<status, type, chain, called, clean>>

Next == \E e \in Events :
            \/ Begin(e) \/ Record(e) \/ Return(e) \/ Abandon(e)
            \/ \E h \in Handlers : Handle(e, h)
            \/ \E c \in Events : PublishFrom(e, c)
            \/ \E s \in {"dispatched", "failed"} : Settle(e, s)

Spec == Init /\ [][Next]_eventVars
=============================================================================
