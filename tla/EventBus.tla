------------------------------ MODULE EventBus ------------------------------
(***************************************************************************)
(* agents/events.py: emit() inserts a BusEvent row, then hands its key to  *)
(* the Django-Q2 broker; a qcluster worker runs _dispatch, which calls     *)
(* every registered handler and settles the row.  One handler is the       *)
(* Router of agents/dispatcher.py: it emits a child event in the same      *)
(* causal chain, from inside the worker.                                   *)
(*                                                                         *)
(* The broker is external and modelled from the settings that configure    *)
(* it: a task handed out and not acknowledged is handed out again, at most *)
(* MaxAttempts times.  A thread is a web request or a worker; pc[t]:       *)
(*   "idle"      nothing to do                                             *)
(*   "created"   emit(): row inserted, task not queued yet                 *)
(*   "enqueued"  emit(): task queued, task_id not saved yet                *)
(*   "handling"  _dispatch: handlers left[t] still to call                 *)
(*   "settled"   _dispatch: row saved, task not acknowledged yet           *)
(* A handler or a broker call may raise; a thread may die at any point.    *)
(***************************************************************************)
EXTENDS Naturals, Sequences, Functions

CONSTANTS Requests, Workers,   \* threads
          Events, NoEvent,     \* BusEvent primary keys, handed out in order
          Handlers, Router,    \* subscribed functions; Router = _dispatcher_bus_handler
          Registry,            \* event type -> sequence of subscribed handlers
          MaxAttempts,         \* Q_CLUSTER["max_attempts"]
          Timeout, Retry,      \* Q_CLUSTER["timeout"] and ["retry"], seconds
          Mortal,              \* threads that may die
          BrokerFails          \* whether async_task may raise

Threads == Requests \cup Workers
Types == {"inbound", "routed", "received"}

(* subscribe() does not register a handler twice. *)
ASSUME BusAssumption == /\ Requests \cap Workers = {}
                        /\ Events \subseteq Nat
                        /\ NoEvent \notin Events
                        /\ Router \in Handlers
                        /\ Registry \in [Types -> Seq(Handlers)]
                        /\ \A type \in Types : IsInjective(Registry[type])
                        /\ MaxAttempts \in Nat \ {0}
                        /\ Timeout \in Nat /\ Retry \in Nat
                        /\ Mortal \subseteq Threads
                        /\ BrokerFails \in BOOLEAN

VARIABLES row,        \* event -> BusEvent.status ("absent" before INSERT)
          etype,      \* event -> event_type, as far as the registry tells apart
          parent,     \* event -> event whose handler emitted it (history)
          chain,      \* event -> chain_id, named by the event that began it
          task,       \* event -> its task in the broker
          deliveries, \* event -> times the broker handed the task out
          pc, subject, child, left, erred,   \* locals of each thread
          runs,       \* event -> handler -> times it was called (history)
          clean,      \* event -> handlers that returned without raising (history)
          abandoned   \* events whose worker died (history)

rowVars == <<row, etype, parent, chain>>
brokerVars == <<task, deliveries>>
threadVars == <<pc, subject, child, left, erred>>
historyVars == <<runs, clean, abandoned>>
vars == <<rowVars, brokerVars, threadVars, historyVars>>

Init == /\ row = [e \in Events |-> "absent"]
        /\ etype = [e \in Events |-> "inbound"]
        /\ parent = [e \in Events |-> NoEvent]
        /\ chain = [e \in Events |-> NoEvent]
        /\ task = [e \in Events |-> "none"]
        /\ deliveries = [e \in Events |-> 0]
        /\ pc = [t \in Threads |-> "idle"]
        /\ subject = [t \in Threads |-> NoEvent]
        /\ child = [t \in Threads |-> NoEvent]
        /\ left = [t \in Threads |-> <<>>]
        /\ erred = [t \in Threads |-> FALSE]
        /\ runs = [e \in Events |-> [h \in Handlers |-> 0]]
        /\ clean = [e \in Events |-> {}]
        /\ abandoned = {}

-----------------------------------------------------------------------------
(* emit(). *)

NextKey(e) == /\ row[e] = "absent"
              /\ \A f \in Events : f < e => row[f] # "absent"

(* BusEvent.objects.create(..., status="queued"). *)
Create(t, e, type, from, chainId) ==
    /\ NextKey(e)
    /\ row' = [row EXCEPT ![e] = "queued"]
    /\ etype' = [etype EXCEPT ![e] = type]
    /\ parent' = [parent EXCEPT ![e] = from]
    /\ chain' = [chain EXCEPT ![e] = chainId]
    /\ child' = [child EXCEPT ![t] = e]
    /\ pc' = [pc EXCEPT ![t] = "created"]

(* A request emits an event that begins a chain. *)
Emit(r, e) == /\ pc[r] = "idle"
              /\ Create(r, e, "inbound", NoEvent, e)
              /\ UNCHANGED <<brokerVars, subject, left, erred, historyVars>>

NewTaskLost == "none"
NewTask == "waiting"

(* async_task('agents.events._dispatch', bus_event.id). *)
Enqueue(t) == /\ pc[t] = "created"
              /\ task' = [task EXCEPT ![child[t]] = NewTask]
              /\ pc' = [pc EXCEPT ![t] = "enqueued"]
              /\ UNCHANGED <<rowVars, deliveries, subject, child, left, erred,
                             historyVars>>

SavedWhole(e) == "queued"
SavedStatus(e) == row[e]

(* Where a thread goes on when emit() is over: the emitting handler, in a  *)
(* worker, has returned cleanly or raised.                                 *)
EmitOver(t, ok) ==
    /\ child' = [child EXCEPT ![t] = NoEvent]
    /\ IF t \in Workers
       THEN /\ pc' = [pc EXCEPT ![t] = "handling"]
            /\ left' = [left EXCEPT ![t] = Tail(@)]
            /\ erred' = [erred EXCEPT ![t] = @ \/ ~ok]
            /\ clean' = IF ok THEN [clean EXCEPT ![subject[t]] = @ \cup {Router}]
                              ELSE clean
       ELSE /\ pc' = [pc EXCEPT ![t] = "idle"]
            /\ UNCHANGED <<left, erred, clean>>

(* bus_event.save(update_fields=['task_id']): the copy's status, by now    *)
(* possibly stale, is not written.                                         *)
SaveTaskId(t) == /\ pc[t] = "enqueued"
                 /\ row' = [row EXCEPT ![child[t]] = SavedStatus(child[t])]
                 /\ EmitOver(t, TRUE)
                 /\ UNCHANGED <<etype, parent, chain, brokerVars, subject, runs,
                                abandoned>>

(* async_task raises: emit() raises, the row stays. *)
EnqueueFails(t) == /\ BrokerFails
                   /\ pc[t] = "created"
                   /\ EmitOver(t, FALSE)
                   /\ UNCHANGED <<rowVars, brokerVars, subject, runs, abandoned>>

(* The AP intake writes its bill.received row itself, already dispatched.  *)
Receive(r, e) == /\ pc[r] = "idle"
                 /\ NextKey(e)
                 /\ row' = [row EXCEPT ![e] = "dispatched"]
                 /\ etype' = [etype EXCEPT ![e] = "received"]
                 /\ chain' = [chain EXCEPT ![e] = e]
                 /\ UNCHANGED <<parent, brokerVars, threadVars, historyVars>>

-----------------------------------------------------------------------------
(* The broker and _dispatch. *)

Held(e) == \E w \in Workers : subject[w] = e

RetryableNever(e) == FALSE
RetryableHeld(e) == task[e] = "out"
Retryable(e) == task[e] = "out" /\ (Held(e) => Retry <= Timeout)

(* A worker is handed the task; _dispatch loads the row and the handlers.  *)
(* A task still unacknowledged after Retry seconds is handed out again: by *)
(* then its first worker is over or was killed, if Timeout < Retry.        *)
Take(w, e) == /\ pc[w] = "idle"
              /\ task[e] = "waiting" \/ Retryable(e)
              /\ deliveries[e] < MaxAttempts
              /\ task' = [task EXCEPT ![e] = "out"]
              /\ deliveries' = [deliveries EXCEPT ![e] = @ + 1]
              /\ pc' = [pc EXCEPT ![w] = "handling"]
              /\ subject' = [subject EXCEPT ![w] = e]
              /\ left' = [left EXCEPT ![w] = Registry[etype[e]]]
              /\ erred' = [erred EXCEPT ![w] = FALSE]
              /\ UNCHANGED <<rowVars, child, historyVars>>

Calling(w, h) == /\ pc[w] = "handling"
                 /\ left[w] # <<>>
                 /\ h = Head(left[w])
                 /\ runs' = [runs EXCEPT ![subject[w]][h] = @ + 1]

(* A handler returns. *)
HandlerReturns(w, h) ==
    /\ Calling(w, h)
    /\ h # Router
    /\ clean' = [clean EXCEPT ![subject[w]] = @ \cup {h}]
    /\ left' = [left EXCEPT ![w] = Tail(@)]
    /\ UNCHANGED <<rowVars, brokerVars, pc, subject, child, erred, abandoned>>

(* A handler raises: the error is kept, the next handler still runs. *)
HandlerRaises(w, h) ==
    /\ Calling(w, h)
    /\ left' = [left EXCEPT ![w] = Tail(@)]
    /\ erred' = [erred EXCEPT ![w] = TRUE]
    /\ UNCHANGED <<rowVars, brokerVars, pc, subject, child, clean, abandoned>>

(* Every event on the bus has a chain, so that route's own "or a new one"  *)
(* is never taken.                                                         *)
ChildChainFresh(w, e) == e
ChildChain(w, e) == chain[subject[w]]

(* Dispatcher.route: emit the routed event in the chain of its parent. *)
Route(w, e) ==
    /\ Calling(w, Router)
    /\ Create(w, e, "routed", subject[w], ChildChain(w, e))
    /\ UNCHANGED <<brokerVars, subject, left, erred, clean, abandoned>>

AllCalled(w) == left[w] = <<>>

Outcome(w) == IF erred[w] THEN "failed" ELSE "dispatched"

(* One save of status, handler_count, error, dispatched_at. *)
Settle(w) ==
    /\ pc[w] = "handling"
    /\ AllCalled(w)
    /\ row' = [row EXCEPT ![subject[w]] = Outcome(w)]
    /\ pc' = [pc EXCEPT ![w] = "settled"]
    /\ UNCHANGED <<etype, parent, chain, brokerVars, subject, child, left, erred,
                   historyVars>>

Acknowledge(w) == /\ pc[w] = "settled"
                  /\ task' = [task EXCEPT ![subject[w]] = "acked"]
                  /\ pc' = [pc EXCEPT ![w] = "idle"]
                  /\ subject' = [subject EXCEPT ![w] = NoEvent]
                  /\ erred' = [erred EXCEPT ![w] = FALSE]
                  /\ UNCHANGED <<rowVars, deliveries, child, left, historyVars>>

(* The thread dies (deploy, kill, database gone): its locals are lost. *)
Die(t) == /\ t \in Mortal
          /\ pc[t] # "idle"
          /\ abandoned' = abandoned \cup ({subject[t]} \cap Events)
          /\ pc' = [pc EXCEPT ![t] = "idle"]
          /\ subject' = [subject EXCEPT ![t] = NoEvent]
          /\ child' = [child EXCEPT ![t] = NoEvent]
          /\ left' = [left EXCEPT ![t] = <<>>]
          /\ erred' = [erred EXCEPT ![t] = FALSE]
          /\ UNCHANGED <<rowVars, brokerVars, runs, clean>>

(* What a live thread does once it is under way. *)
Continue(t) == \/ Enqueue(t)
               \/ SaveTaskId(t)
               \/ EnqueueFails(t)
               \/ \E h \in Handlers : HandlerReturns(t, h) \/ HandlerRaises(t, h)
               \/ \E e \in Events : Route(t, e)
               \/ Settle(t)
               \/ Acknowledge(t)

Next == \/ \E r \in Requests, e \in Events : Emit(r, e) \/ Receive(r, e)
        \/ \E w \in Workers, e \in Events : Take(w, e)
        \/ \E t \in Threads : Continue(t) \/ Die(t)

Spec == Init /\ [][Next]_vars

(* The qcluster runs: live threads go on, idle workers take what waits. *)
FairSpec == /\ Spec
            /\ \A t \in Threads : WF_vars(Continue(t))
            /\ \A e \in Events : WF_vars(\E w \in Workers : Take(w, e))

-----------------------------------------------------------------------------
(* Properties. *)

HandlersOf(e) == Range(Registry[etype[e]])
Emitted(e) == etype[e] # "received"

TypeOK == /\ row \in [Events -> {"absent", "queued", "dispatched", "failed"}]
          /\ etype \in [Events -> Types]
          /\ parent \in [Events -> Events \cup {NoEvent}]
          /\ chain \in [Events -> Events \cup {NoEvent}]
          /\ task \in [Events -> {"none", "waiting", "out", "acked"}]
          /\ deliveries \in [Events -> 0 .. MaxAttempts]
          /\ pc \in [Threads -> {"idle", "created", "enqueued", "handling", "settled"}]
          /\ subject \in [Threads -> Events \cup {NoEvent}]
          /\ child \in [Threads -> Events \cup {NoEvent}]
          /\ left \in [Threads -> Seq(Handlers)]
          /\ erred \in [Threads -> BOOLEAN]
          /\ runs \in [Events -> [Handlers -> Nat]]
          /\ clean \in [Events -> SUBSET Handlers]
          /\ abandoned \subseteq Events

(* An inbound event that is "dispatched" has been routed: a child event    *)
(* exists in the same causal chain, and its task has reached the broker.   *)
DispatchedWasRouted ==
    \A e \in Events :
        row[e] = "dispatched" /\ Emitted(e) /\ Router \in HandlersOf(e) =>
            \E c \in Events : /\ parent[c] = e
                              /\ chain[c] = chain[e]
                              /\ task[c] # "none"

(* A handler runs twice for one event only after a worker died on it: the  *)
(* broker's retry is longer than its timeout.                              *)
RerunNeedsDeath ==
    \A e \in Events, h \in Handlers : runs[e][h] > 1 => e \in abandoned

(* A task that reached the broker is run until its event settles: it stays *)
(* unsettled only if a worker died on each of its MaxAttempts deliveries.  *)
QueuedSettles ==
    \A e \in Events : task[e] = "waiting" ~>
        \/ row[e] \in {"dispatched", "failed"}
        \/ e \in abandoned /\ deliveries[e] = MaxAttempts

(* The bus implements the event's lifecycle: if the broker waits longer    *)
(* than a worker may take, an event none of whose workers died has each of *)
(* its handlers called once, all before it settles, and settles once; an   *)
(* event that is delivered again still settles only after all of them.     *)
Event == INSTANCE EventLifecycle
             WITH status <- row, type <- etype,
                  called <- [e \in Events |-> {h \in Handlers : runs[e][h] > 0}],
                  Publisher <- Router,
                  Subscribers <- [k \in Types |-> Range(Registry[k])],
                  Patient <- Retry > Timeout
ImplementsEventLifecycle == Event!Spec

(* agents/events.py:17-19 and BusEvent's docstring: the queued row is the  *)
(* durability layer, a worker that dies mid-dispatch is covered by the     *)
(* retry; so a queued row is either being emitted or has a task to run.    *)
QueuedHasTask ==
    \A e \in Events :
        row[e] = "queued" => \/ \E t \in Threads : child[t] = e
                             \/ task[e] = "waiting"
                             \/ Held(e)
                             \/ task[e] = "out" /\ deliveries[e] < MaxAttempts
=============================================================================
