--------------------------- MODULE EventBusProofs ---------------------------
(***************************************************************************)
(* Proofs about EventBus for every set of requests, workers, events and    *)
(* handlers and every registry: what a settled event stands for, whatever  *)
(* raises, dies or is delivered again; and, if the broker waits longer     *)
(* than a worker may take, that only deaths make a handler run twice; and  *)
(* that the bus implements EventLifecycle.  Where nobody dies and the       *)
(* broker takes every task, every queued row has a task.                   *)
(***************************************************************************)
EXTENDS EventBus, TLAPS

Emitting == {"created", "enqueued"}
Remaining(w) == Range(left[w])

(* What a thread's place in emit() or _dispatch says about its locals.     *)
LocalInv ==
    \A t \in Threads :
        /\ pc[t] = "idle" => subject[t] = NoEvent
        /\ pc[t] \in Emitting => child[t] \in Events
        /\ pc[t] \in {"handling", "settled"} => t \in Workers
        /\ t \notin Workers => subject[t] = NoEvent
        /\ t \in Workers /\ pc[t] # "idle" => subject[t] \in Events
        /\ t \in Workers /\ pc[t] \in Emitting => left[t] # <<>> /\ Head(left[t]) = Router

(* Whatever a thread, the broker or a handler knows of has its row.        *)
RowInv ==
    /\ \A t \in Threads :
           /\ pc[t] \in Emitting => row[child[t]] # "absent"
           /\ subject[t] \in Events => row[subject[t]] # "absent"
    /\ \A e \in Events : task[e] # "none" \/ clean[e] # {} => row[e] # "absent"

BusInv == TypeOK /\ LocalInv /\ RowInv

(* A worker has called every handler that is not left to call, and one     *)
(* that has not returned cleanly has left its error.                       *)
Called(w) ==
    /\ \A h \in HandlersOf(subject[w]) :
           \/ h \in Remaining(w)
           \/ runs[subject[w]][h] > 0 /\ (erred[w] \/ h \in clean[subject[w]])
    /\ pc[w] \in Emitting => runs[subject[w]][Router] > 0

CallInv == \A w \in Workers : pc[w] # "idle" => Called(w)

(* An event the router has dealt with has its child.                       *)
RouteInv ==
    /\ \A w \in Workers : pc[w] \in Emitting => /\ parent[child[w]] = subject[w]
                                                /\ chain[child[w]] = chain[subject[w]]
    /\ \A t \in Threads : pc[t] = "enqueued" => task[child[t]] # "none"
    /\ \A e \in Events : Router \in clean[e] =>
           \E c \in Events : parent[c] = e /\ chain[c] = chain[e] /\ task[c] # "none"

(* A task is queued once, by the one thread that emits its event, and      *)
(* before any worker works on it.                                          *)
EmitInv ==
    /\ \A t \in Threads : /\ pc[t] = "created" => task[child[t]] = "none"
                          /\ subject[t] \in Events => task[subject[t]] # "none"
    /\ \A t, u \in Threads :
           pc[t] \in Emitting /\ pc[u] \in Emitting /\ child[t] = child[u] => t = u

(* An event none of whose workers died is in one pair of hands, which has  *)
(* not yet called what it has left to call.                                *)
Once(e) ==
    /\ task[e] \in {"none", "waiting"} => \A h \in Handlers : runs[e][h] = 0
    /\ task[e] = "out" <=> Held(e)
    /\ \A u, v \in Workers : subject[u] = e /\ subject[v] = e => u = v
    /\ \A h \in Handlers : runs[e][h] <= 1
    /\ \A w \in Workers : subject[w] = e =>
           /\ IsInjective(left[w])
           /\ \A h \in Remaining(w) : \/ runs[e][h] = 0
                                      \/ pc[w] \in Emitting /\ h = Router

OnceInv == \A e \in Events \ abandoned : Once(e)

(* An event none of whose workers died is still queued while it waits for  *)
(* a worker or the worker has not settled it.                              *)
Waiting(e) ==
    /\ task[e] = "waiting" => row[e] = "queued"
    /\ \A t \in Threads : pc[t] = "created" /\ child[t] = e => row[e] = "queued"
    /\ \A w \in Workers : subject[w] = e /\ pc[w] # "settled" => row[e] = "queued"

QueuedInv == \A e \in Events \ abandoned : Waiting(e)

(* A worker has only subscribed handlers left to call.                     *)
SubscribedInv ==
    \A w \in Workers : subject[w] \in Events => Remaining(w) \subseteq HandlersOf(subject[w])

(* What holds if the broker waits longer than a worker may take.           *)
PatientInv == Retry > Timeout => OnceInv /\ QueuedInv

(* What the refinement needs, and what it maps the calls to.               *)
CalledOf == [e \in Events |-> {h \in Handlers : runs[e][h] > 0}]
LifecycleInv == BusInv /\ CallInv /\ SubscribedInv /\ PatientInv

(* A sequence is its head and its tail, which share nothing if it has no   *)
(* repeats.                                                                *)
LEMMA TailRange ==
  ASSUME NEW S, NEW s \in Seq(S), s # <<>>
  PROVE  Range(s) = {Head(s)} \cup Range(Tail(s))
  <1> DEFINE D == DOMAIN s
             u == Tail(s)
             E == DOMAIN u
  <1>1. /\ Len(s) \in Nat \ {0} /\ DOMAIN s = 1 .. Len(s)
        /\ Head(s) = s[1] /\ Head(s) \in S /\ Tail(s) \in Seq(S)
        /\ DOMAIN Tail(s) = 1 .. Len(s) - 1
        /\ \A i \in 1 .. Len(s) - 1 : Tail(s)[i] = s[i + 1]
    OBVIOUS
  <1>2. \A i \in D : i = 1 \/ \E j \in E : s[i] = u[j]
    <2> TAKE i \in D
    <2>1. i # 1 => i - 1 \in 1 .. Len(s) - 1 /\ (i - 1) + 1 = i
      BY <1>1
    <2>2. QED
      BY <1>1, <2>1
  <1>3. \A j \in E : \E i \in D : u[j] = s[i]
    <2> TAKE j \in E
    <2>1. j + 1 \in 1 .. Len(s)
      BY <1>1
    <2>2. QED
      BY <1>1, <2>1
  <1>4. 1 \in D /\ Head(s) = s[1]
    BY <1>1
  <1> HIDE DEF D, u, E
  <1>5. {s[i] : i \in D} = {s[1]} \cup {u[i] : i \in E}
    BY <1>2, <1>3, <1>4
  <1>6. QED
    BY <1>4, <1>5 DEF Range, D, u, E

LEMMA TailInjective ==
  ASSUME NEW S, NEW s \in Seq(S), s # <<>>, IsInjective(s)
  PROVE  IsInjective(Tail(s)) /\ Head(s) \notin Range(Tail(s))
  <1>1. /\ Len(s) \in Nat \ {0} /\ DOMAIN s = 1 .. Len(s)
        /\ Head(s) = s[1]
        /\ DOMAIN Tail(s) = 1 .. Len(s) - 1
        /\ \A i \in 1 .. Len(s) - 1 : Tail(s)[i] = s[i + 1]
    OBVIOUS
  <1>2. \A i, j \in 1 .. Len(s) : s[i] = s[j] => i = j
    BY <1>1 DEF IsInjective
  <1>3. ASSUME NEW i \in 1 .. Len(s) - 1
        PROVE  i + 1 \in 1 .. Len(s) /\ i + 1 # 1 /\ 1 \in 1 .. Len(s)
    BY <1>1
  <1>4. ASSUME NEW i \in 1 .. Len(s) - 1, NEW j \in 1 .. Len(s) - 1, Tail(s)[i] = Tail(s)[j]
        PROVE  i = j
    <2>1. i + 1 = j + 1
      BY <1>1, <1>2, <1>3, <1>4
    <2>2. QED
      BY <2>1
  <1>5. ASSUME NEW i \in 1 .. Len(s) - 1 
        PROVE  Tail(s)[i] # s[1]
    BY <1>1, <1>2, <1>3
  <1>6. IsInjective(Tail(s))
    BY <1>1, <1>4 DEF IsInjective
  <1>7. Head(s) \notin Range(Tail(s))
    BY <1>1, <1>5 DEF Range
  <1>8. QED
    BY <1>6, <1>7

-----------------------------------------------------------------------------
(* BusInv. *)

LEMMA InitBusInv == Init => BusInv
  BY BusAssumption DEF Init, BusInv, TypeOK, LocalInv, RowInv, Emitting, Threads, Types

LEMMA CreateTypes ==
  ASSUME BusInv, NEW t \in Threads, NEW e \in Events, NEW type \in Types,
         NEW from \in Events \cup {NoEvent}, NEW chainId \in Events \cup {NoEvent},
         Create(t, e, type, from, chainId)
  PROVE  /\ row' \in [Events -> {"absent", "queued", "dispatched", "failed"}]
         /\ etype' \in [Events -> Types]
         /\ parent' \in [Events -> Events \cup {NoEvent}]
         /\ chain' \in [Events -> Events \cup {NoEvent}]
         /\ child' \in [Threads -> Events \cup {NoEvent}]
         /\ pc' \in [Threads -> {"idle", "created", "enqueued", "handling", "settled"}]
  BY DEF BusInv, TypeOK, Create

LEMMA EmitBusInv ==
  ASSUME BusInv, NEW r \in Requests, NEW e \in Events, Emit(r, e)
  PROVE  BusInv'
  <1> USE BusAssumption DEF BusInv, Emitting, Threads, Types, rowVars, brokerVars, threadVars,
          historyVars, Emit, Create, NextKey
  <1>1. TypeOK'
    BY CreateTypes DEF TypeOK, LocalInv
  <1>2. LocalInv'
    BY DEF TypeOK, LocalInv
  <1>3. RowInv'
    BY DEF TypeOK, LocalInv, RowInv
  <1>4. QED
    BY <1>1, <1>2, <1>3

LEMMA ReceiveBusInv ==
  ASSUME BusInv, NEW r \in Requests, NEW e \in Events, Receive(r, e)
  PROVE  BusInv'
  <1> USE BusAssumption DEF BusInv, Emitting, Threads, Types, rowVars, brokerVars, threadVars,
          historyVars, Receive, NextKey
  <1>1. TypeOK'
    BY DEF TypeOK, LocalInv
  <1>2. LocalInv'
    BY DEF TypeOK, LocalInv
  <1>3. RowInv'
    BY DEF TypeOK, LocalInv, RowInv
  <1>4. QED
    BY <1>1, <1>2, <1>3

LEMMA TakeBusInv ==
  ASSUME BusInv, NEW w \in Workers, NEW e \in Events, Take(w, e)
  PROVE  BusInv'
  <1> USE BusAssumption DEF BusInv, Emitting, Threads, Types, rowVars, brokerVars, threadVars,
          historyVars, Take, Retryable, Held
  <1>1. TypeOK'
    <2>1. left' \in [Threads -> Seq(Handlers)]
      <3>1. Registry[etype[e]] \in Seq(Handlers)
        BY DEF TypeOK
      <3>2. QED
        BY <3>1 DEF TypeOK
    <2>2. deliveries' \in [Events -> 0 .. MaxAttempts]
      BY DEF TypeOK
    <2>3. QED
      BY <2>1, <2>2 DEF TypeOK
  <1>2. LocalInv'
    BY DEF TypeOK, LocalInv
  <1>3. RowInv'
    BY DEF TypeOK, LocalInv, RowInv
  <1>4. QED
    BY <1>1, <1>2, <1>3

LEMMA EnqueueBusInv ==
  ASSUME BusInv, NEW t \in Threads, Enqueue(t)
  PROVE  BusInv'
  <1> USE BusAssumption DEF BusInv, Emitting, Threads, Types, rowVars, brokerVars, threadVars,
          historyVars, Enqueue, NewTask
  <1>1. TypeOK'
    BY DEF TypeOK, LocalInv
  <1>2. LocalInv'
    BY DEF TypeOK, LocalInv
  <1>3. RowInv'
    BY DEF TypeOK, LocalInv, RowInv
  <1>4. QED
    BY <1>1, <1>2, <1>3

(* Where emit() leaves the locals of its thread. *)
LEMMA EmitOverTypes ==
  ASSUME BusInv, NEW t \in Threads, NEW ok \in BOOLEAN, pc[t] \in Emitting, EmitOver(t, ok)
  PROVE  /\ left' \in [Threads -> Seq(Handlers)]
         /\ clean' \in [Events -> SUBSET Handlers]
         /\ child' \in [Threads -> Events \cup {NoEvent}]
         /\ pc' \in [Threads -> {"idle", "created", "enqueued", "handling", "settled"}]
         /\ erred' \in [Threads -> BOOLEAN]
  <1>1. left' \in [Threads -> Seq(Handlers)]
    <2>1. left \in [Threads -> Seq(Handlers)]
      BY DEF BusInv, TypeOK
    <2>2. ASSUME t \in Workers PROVE Tail(left[t]) \in Seq(Handlers)
      <3>1. left[t] # <<>> /\ left[t] \in Seq(Handlers)
        BY <2>1, <2>2 DEF BusInv, LocalInv, Emitting
      <3>2. QED
        BY <3>1
    <2>3. left' = IF t \in Workers THEN [left EXCEPT ![t] = Tail(@)] ELSE left
      BY DEF EmitOver
    <2>4. QED
      BY <2>1, <2>2, <2>3, Zenon
  <1>2. clean' \in [Events -> SUBSET Handlers]
    <2>1. clean \in [Events -> SUBSET Handlers]
      BY DEF BusInv, TypeOK
    <2>2. ASSUME t \in Workers PROVE clean[subject[t]] \cup {Router} \in SUBSET Handlers
      <3>1. subject[t] \in Events
        BY <2>2 DEF BusInv, LocalInv, Emitting
      <3>2. QED
        BY <2>1, <3>1, BusAssumption DEF BusAssumption
    <2>3. clean' = IF t \in Workers /\ ok
                   THEN [clean EXCEPT ![subject[t]] = @ \cup {Router}] ELSE clean
      BY DEF EmitOver
    <2>4. QED
      BY <2>1, <2>2, <2>3, Zenon
  <1>3. QED
    BY <1>1, <1>2 DEF BusInv, TypeOK, EmitOver

LEMMA SaveTaskIdBusInv ==
  ASSUME BusInv, NEW t \in Threads, SaveTaskId(t)
  PROVE  BusInv'
  <1> USE BusAssumption DEF BusInv, Emitting, Threads, Types, rowVars, brokerVars, threadVars,
          historyVars, SaveTaskId, EmitOver, SavedStatus
  <1>1. TypeOK'
    BY EmitOverTypes DEF TypeOK, LocalInv
  <1>2. LocalInv'
    BY DEF TypeOK, LocalInv
  <1>3. RowInv'
    <2>1. row' = row
      BY DEF TypeOK
    <2>2. \A u \in Threads : /\ pc'[u] \in Emitting => pc[u] \in Emitting /\ child'[u] = child[u]
                           /\ subject'[u] = subject[u]
      BY DEF TypeOK
    <2>3. \A e \in Events : clean'[e] # {} => clean[e] # {} \/ (t \in Workers /\ e = subject[t])
      BY DEF TypeOK
    <2>4. t \in Workers => subject[t] \in Events
      BY DEF LocalInv
    <2>5. QED
      BY <2>1, <2>2, <2>3, <2>4 DEF RowInv
  <1>4. QED
    BY <1>1, <1>2, <1>3

LEMMA EnqueueFailsBusInv ==
  ASSUME BusInv, NEW t \in Threads, EnqueueFails(t)
  PROVE  BusInv'
  <1> USE BusAssumption DEF BusInv, Emitting, Threads, Types, rowVars, brokerVars, threadVars,
          historyVars, EnqueueFails, EmitOver
  <1>1. TypeOK'
    BY EmitOverTypes DEF TypeOK, LocalInv
  <1>2. LocalInv'
    BY DEF TypeOK, LocalInv
  <1>3. RowInv'
    BY DEF TypeOK, LocalInv, RowInv
  <1>4. QED
    BY <1>1, <1>2, <1>3

(* A worker that calls a handler is at work on an event. *)
LEMMA CallingTypes ==
  ASSUME BusInv, NEW t \in Threads, NEW h, Calling(t, h)
  PROVE  /\ t \in Workers /\ subject[t] \in Events /\ h \in Handlers
         /\ runs' \in [Events -> [Handlers -> Nat]]
  <1>1. t \in Workers /\ subject[t] \in Events
    BY DEF BusInv, TypeOK, LocalInv, Calling
  <1>2. h \in Handlers
    BY DEF BusInv, TypeOK, Calling
  <1>3. runs' \in [Events -> [Handlers -> Nat]]
    <2>1. runs \in [Events -> [Handlers -> Nat]]
      BY DEF BusInv, TypeOK
    <2>2. runs[subject[t]][h] + 1 \in Nat
      BY <1>1, <1>2, <2>1
    <2>3. QED
      BY <1>1, <1>2, <2>1, <2>2 DEF Calling
  <1>4. QED
    BY <1>1, <1>2, <1>3

LEMMA HandlerReturnsBusInv ==
  ASSUME BusInv, NEW t \in Threads, NEW h \in Handlers, HandlerReturns(t, h)
  PROVE  BusInv'
  <1> USE BusAssumption DEF BusInv, Emitting, Threads, Types, rowVars, brokerVars, threadVars,
          historyVars, HandlerReturns, Calling
  <1>1. Tail(left[t]) \in Seq(Handlers)
    BY DEF TypeOK, LocalInv
  <1>2. TypeOK'
    <2>1. left' \in [Threads -> Seq(Handlers)] /\ runs' \in [Events -> [Handlers -> Nat]]
      BY <1>1, CallingTypes DEF TypeOK, LocalInv
    <2>2. clean' \in [Events -> SUBSET Handlers]
      BY ZenonT(60) DEF TypeOK, LocalInv
    <2>3. QED
      BY <2>1, <2>2 DEF TypeOK, LocalInv
  <1>3. LocalInv'
    BY DEF TypeOK, LocalInv
  <1>4. RowInv'
    BY DEF TypeOK, LocalInv, RowInv
  <1>5. QED
    BY <1>2, <1>3, <1>4

LEMMA HandlerRaisesBusInv ==
  ASSUME BusInv, NEW t \in Threads, NEW h \in Handlers, HandlerRaises(t, h)
  PROVE  BusInv'
  <1> USE BusAssumption DEF BusInv, Emitting, Threads, Types, rowVars, brokerVars, threadVars,
          historyVars, HandlerRaises, Calling
  <1>1. Tail(left[t]) \in Seq(Handlers)
    BY DEF TypeOK, LocalInv
  <1>2. TypeOK'
    <2>1. left' \in [Threads -> Seq(Handlers)] /\ runs' \in [Events -> [Handlers -> Nat]]
      BY <1>1, CallingTypes DEF TypeOK, LocalInv
    <2>2. QED
      BY <2>1 DEF TypeOK, LocalInv
  <1>3. LocalInv'
    BY DEF TypeOK, LocalInv
  <1>4. RowInv'
    BY DEF TypeOK, LocalInv, RowInv
  <1>5. QED
    BY <1>2, <1>3, <1>4

LEMMA RouteBusInv ==
  ASSUME BusInv, NEW t \in Threads, NEW e \in Events, Route(t, e)
  PROVE  BusInv'
  <1> USE BusAssumption DEF BusInv, Emitting, Threads, Types, rowVars, brokerVars, threadVars,
          historyVars, Route, Calling, Create, NextKey, ChildChain
  <1>1. TypeOK'
    <2>1. subject[t] \in Events /\ chain[subject[t]] \in Events \cup {NoEvent}
      BY CallingTypes DEF TypeOK
    <2>2. QED
      BY <2>1, CallingTypes, CreateTypes DEF TypeOK
  <1>2. LocalInv'
    BY DEF TypeOK, LocalInv
  <1>3. RowInv'
    BY DEF TypeOK, LocalInv, RowInv
  <1>4. QED
    BY <1>1, <1>2, <1>3

LEMMA SettleBusInv ==
  ASSUME BusInv, NEW t \in Threads, Settle(t)
  PROVE  BusInv'
  <1> USE BusAssumption DEF BusInv, Emitting, Threads, Types, rowVars, brokerVars, threadVars,
          historyVars, Settle, AllCalled, Outcome
  <1>1. TypeOK'
    BY DEF TypeOK, LocalInv
  <1>2. LocalInv'
    BY DEF TypeOK, LocalInv
  <1>3. RowInv'
    BY DEF TypeOK, LocalInv, RowInv
  <1>4. QED
    BY <1>1, <1>2, <1>3

LEMMA AcknowledgeBusInv ==
  ASSUME BusInv, NEW t \in Threads, Acknowledge(t)
  PROVE  BusInv'
  <1> USE BusAssumption DEF BusInv, Emitting, Threads, Types, rowVars, brokerVars, threadVars,
          historyVars, Acknowledge
  <1>1. TypeOK'
    BY DEF TypeOK, LocalInv
  <1>2. LocalInv'
    BY DEF TypeOK, LocalInv
  <1>3. RowInv'
    BY DEF TypeOK, LocalInv, RowInv
  <1>4. QED
    BY <1>1, <1>2, <1>3

LEMMA DieBusInv ==
  ASSUME BusInv, NEW t \in Threads, Die(t)
  PROVE  BusInv'
  <1> USE BusAssumption DEF BusInv, Emitting, Threads, Types, rowVars, brokerVars, threadVars,
          historyVars, Die
  <1>1. TypeOK'
    <2>1. <<>> \in Seq(Handlers)
      OBVIOUS
    <2>2. left' \in [Threads -> Seq(Handlers)]
      BY <2>1 DEF TypeOK
    <2>3. QED
      BY <2>2 DEF TypeOK, LocalInv
  <1>2. LocalInv'
    BY DEF TypeOK, LocalInv
  <1>3. RowInv'
    BY DEF TypeOK, LocalInv, RowInv
  <1>4. QED
    BY <1>1, <1>2, <1>3

(* Every step is one of these. *)
LEMMA StepCases ==
  ASSUME [Next]_vars
  PROVE  \/ \E r \in Requests, e \in Events : Emit(r, e) \/ Receive(r, e)
         \/ \E w \in Workers, e \in Events : Take(w, e)
         \/ \E t \in Threads : \/ Enqueue(t) \/ SaveTaskId(t) \/ EnqueueFails(t)
                               \/ \E h \in Handlers : HandlerReturns(t, h) \/ HandlerRaises(t, h)
                               \/ \E e \in Events : Route(t, e)
                               \/ Settle(t) \/ Acknowledge(t) \/ Die(t)
         \/ UNCHANGED vars
  BY DEF Next, Continue

LEMMA BusInvHolds == Spec => []BusInv
  <1>1. BusInv /\ [Next]_vars => BusInv'
    <2> SUFFICES ASSUME BusInv, [Next]_vars PROVE BusInv'
      OBVIOUS
    <2>1. ASSUME UNCHANGED vars PROVE BusInv'
      BY <2>1 DEF vars, rowVars, brokerVars, threadVars, historyVars, BusInv, TypeOK, LocalInv,
              RowInv
    <2>2. QED
      BY <2>1, StepCases, EmitBusInv, ReceiveBusInv, TakeBusInv, EnqueueBusInv, SaveTaskIdBusInv,
         EnqueueFailsBusInv, HandlerReturnsBusInv, HandlerRaisesBusInv, RouteBusInv,
         SettleBusInv, AcknowledgeBusInv, DieBusInv
  <1>2. QED
    BY <1>1, InitBusInv, PTL DEF Spec

-----------------------------------------------------------------------------
(* What a step leaves of the events that exist, and what settles a row.    *)

Kept ==
    \A e \in Events :
        /\ row[e] # "absent" => /\ row'[e] # "absent" /\ etype'[e] = etype[e]
                               /\ parent'[e] = parent[e] /\ chain'[e] = chain[e]
        /\ task[e] # "none" => task'[e] # "none"
        /\ clean[e] \subseteq clean'[e]
        /\ \A h \in Handlers : runs[e][h] <= runs'[e][h]

SettledBy(e) == \E w \in Workers : Settle(w) /\ subject[w] = e

RowMoves ==
    \A e \in Events : \/ row'[e] = row[e]
                      \/ row[e] = "absent" /\ (row'[e] = "queued" \/ ~Emitted(e)')
                      \/ SettledBy(e)

LEMMA KeptByStep ==
  ASSUME BusInv, [Next]_vars
  PROVE  Kept
  <1> USE DEF rowVars, brokerVars, threadVars, historyVars, BusInv, TypeOK, Kept
  <1>1. ASSUME NEW r \in Requests, NEW e \in Events, Emit(r, e) PROVE Kept
    BY <1>1 DEF Emit, Create, NextKey
  <1>2. ASSUME NEW r \in Requests, NEW e \in Events, Receive(r, e) PROVE Kept
    BY <1>2 DEF Receive, NextKey
  <1>3. ASSUME NEW w \in Workers, NEW e \in Events, Take(w, e) PROVE Kept
    BY <1>3 DEF Take
  <1>4. ASSUME NEW t \in Threads, Enqueue(t) PROVE Kept
    BY <1>4 DEF Enqueue, NewTask
  <1>5. ASSUME NEW t \in Threads, SaveTaskId(t) PROVE Kept
    <2>1. row' = row
      BY <1>5 DEF SaveTaskId, SavedStatus
    <2>2. /\ UNCHANGED <<etype, parent, chain, task, runs>>
          /\ \/ clean' = clean
             \/ clean' = [clean EXCEPT ![subject[t]] = @ \cup {Router}]
      BY <1>5 DEF SaveTaskId, EmitOver
    <2>3. \A e \in Events : clean[e] \subseteq clean'[e]
      BY <2>2
    <2>4. \A e \in Events : \A h \in Handlers : runs[e][h] <= runs'[e][h]
      BY <2>2
    <2>5. QED
      BY <2>1, <2>2, <2>3, <2>4
  <1>6. ASSUME NEW t \in Threads, EnqueueFails(t) PROVE Kept
    BY <1>6 DEF EnqueueFails, EmitOver
  <1>7. ASSUME NEW t \in Threads, NEW h \in Handlers, HandlerReturns(t, h) PROVE Kept
    BY <1>7, CallingTypes DEF HandlerReturns, Calling
  <1>8. ASSUME NEW t \in Threads, NEW h \in Handlers, HandlerRaises(t, h) PROVE Kept
    BY <1>8, CallingTypes DEF HandlerRaises, Calling
  <1>9. ASSUME NEW t \in Threads, NEW e \in Events, Route(t, e) PROVE Kept
    BY <1>9, CallingTypes DEF Route, Calling, Create, NextKey
  <1>10. ASSUME NEW t \in Threads, Settle(t) PROVE Kept
    BY <1>10 DEF Settle, AllCalled, Outcome
  <1>11. ASSUME NEW t \in Threads, Acknowledge(t) PROVE Kept
    BY <1>11 DEF Acknowledge
  <1>12. ASSUME NEW t \in Threads, Die(t) PROVE Kept
    BY <1>12 DEF Die
  <1>13. ASSUME UNCHANGED vars PROVE Kept
    BY <1>13 DEF vars
  <1>14. QED
    BY <1>1, <1>2, <1>3, <1>4, <1>5, <1>6, <1>7, <1>8, <1>9, <1>10, <1>11, <1>12, <1>13, StepCases

LEMMA RowMovesByStep ==
  ASSUME BusInv, [Next]_vars
  PROVE  RowMoves
  <1> USE DEF rowVars, brokerVars, threadVars, historyVars, BusInv, TypeOK, RowMoves, Emitted
  <1>1. ASSUME NEW r \in Requests, NEW e \in Events, Emit(r, e) PROVE RowMoves
    BY <1>1 DEF Emit, Create, NextKey
  <1>2. ASSUME NEW r \in Requests, NEW e \in Events, Receive(r, e) PROVE RowMoves
    BY <1>2 DEF Receive, NextKey
  <1>3. ASSUME NEW w \in Workers, NEW e \in Events, Take(w, e) PROVE RowMoves
    BY <1>3 DEF Take
  <1>4. ASSUME NEW t \in Threads, Enqueue(t) PROVE RowMoves
    BY <1>4 DEF Enqueue, NewTask
  <1>5. ASSUME NEW t \in Threads, SaveTaskId(t) PROVE RowMoves
    BY <1>5 DEF SaveTaskId, SavedStatus, EmitOver
  <1>6. ASSUME NEW t \in Threads, EnqueueFails(t) PROVE RowMoves
    BY <1>6 DEF EnqueueFails, EmitOver
  <1>7. ASSUME NEW t \in Threads, NEW h \in Handlers, HandlerReturns(t, h) PROVE RowMoves
    BY <1>7 DEF HandlerReturns, Calling
  <1>8. ASSUME NEW t \in Threads, NEW h \in Handlers, HandlerRaises(t, h) PROVE RowMoves
    BY <1>8 DEF HandlerRaises, Calling
  <1>9. ASSUME NEW t \in Threads, NEW e \in Events, Route(t, e) PROVE RowMoves
    BY <1>9 DEF Route, Calling, Create, NextKey
  <1>10. ASSUME NEW t \in Threads, Settle(t) PROVE RowMoves
    BY <1>10 DEF Settle, SettledBy, LocalInv
  <1>11. ASSUME NEW t \in Threads, Acknowledge(t) PROVE RowMoves
    BY <1>11 DEF Acknowledge
  <1>12. ASSUME NEW t \in Threads, Die(t) PROVE RowMoves
    BY <1>12 DEF Die
  <1>13. ASSUME UNCHANGED vars PROVE RowMoves
    BY <1>13 DEF vars
  <1>14. QED
    BY <1>1, <1>2, <1>3, <1>4, <1>5, <1>6, <1>7, <1>8, <1>9, <1>10, <1>11, <1>12, <1>13, StepCases
-----------------------------------------------------------------------------
(* CallInv. *)

LEMMA HandlersOfType ==
  ASSUME BusInv, NEW e \in Events
  PROVE  HandlersOf(e) \subseteq Handlers
  <1>1. Registry[etype[e]] \in Seq(Handlers)
    BY BusAssumption DEF BusInv, TypeOK
  <1>2. QED
    BY <1>1 DEF HandlersOf, Range

LEMMA CalledKept ==
  ASSUME BusInv, Kept, NEW w \in Workers, pc[w] # "idle", Called(w),
         subject'[w] = subject[w], left'[w] = left[w], erred'[w] = erred[w],
         pc'[w] \in Emitting => pc[w] \in Emitting \/ runs'[subject[w]][Router] > 0,
         runs' \in [Events -> [Handlers -> Nat]]
  PROVE  Called(w)'
  <1> DEFINE e == subject[w]
  <1>1. e \in Events /\ row[e] # "absent"
    BY DEF BusInv, LocalInv, RowInv, Threads
  <1>2. HandlersOf(e)' = HandlersOf(e) /\ HandlersOf(e) \subseteq Handlers /\ Router \in Handlers
    BY <1>1, HandlersOfType, BusAssumption DEF HandlersOf, Kept
  <1>3. \A h \in Handlers : runs[e][h] > 0 => runs'[e][h] > 0
    BY <1>1 DEF Kept, BusInv, TypeOK
  <1>4. clean[e] \subseteq clean'[e]
    BY <1>1 DEF Kept
  <1>5. QED
    BY <1>2, <1>3, <1>4 DEF Called, Remaining, HandlersOf

(* The same when it is through with the first of the handlers left.        *)
LEMMA CalledTail ==
  ASSUME BusInv, Kept, NEW w \in Workers, pc[w] # "idle", Called(w),
         NEW h, left[w] # <<>>, h = Head(left[w]), left'[w] = Tail(left[w]),
         subject'[w] = subject[w], runs'[subject[w]][h] > 0,
         erred[w] => erred'[w], erred'[w] \/ h \in clean'[subject[w]],
         pc'[w] \notin Emitting, runs' \in [Events -> [Handlers -> Nat]]
  PROVE  Called(w)'
  <1> DEFINE e == subject[w]
  <1>1. e \in Events /\ row[e] # "absent" /\ left[w] \in Seq(Handlers)
    BY DEF BusInv, TypeOK, LocalInv, RowInv, Threads
  <1>2. HandlersOf(e)' = HandlersOf(e) /\ HandlersOf(e) \subseteq Handlers
    BY <1>1, HandlersOfType DEF HandlersOf, Kept
  <1>3. \A g \in Handlers : runs[e][g] > 0 => runs'[e][g] > 0
    BY <1>1 DEF Kept, BusInv, TypeOK
  <1>4. clean[e] \subseteq clean'[e]
    BY <1>1 DEF Kept
  <1>5. Remaining(w) = {h} \cup Remaining(w)'
    BY <1>1, TailRange DEF Remaining
  <1>6. \A g \in HandlersOf(e) :
           \/ g \in Remaining(w)'
           \/ runs'[e][g] > 0 /\ (erred'[w] \/ g \in clean'[e])
    BY <1>2, <1>3, <1>4, <1>5 DEF Called
  <1>7. QED
    BY <1>2, <1>6 DEF Called

LEMMA CallInvStep ==
  ASSUME BusInv, BusInv', Kept, CallInv, [Next]_vars
  PROVE  CallInv'
  <1> SUFFICES ASSUME NEW v \in Workers, pc'[v] # "idle"
               PROVE  Called(v)'
    BY DEF CallInv
  <1>0. runs' \in [Events -> [Handlers -> Nat]] /\ Requests \cap Workers = {}
    BY BusAssumption DEF BusInv, TypeOK
  <1> USE DEF rowVars, brokerVars, threadVars, historyVars, Threads, Emitting
  <1> DEFINE Same == /\ pc[v] # "idle" /\ subject'[v] = subject[v] /\ left'[v] = left[v]
                     /\ erred'[v] = erred[v]
                     /\ pc'[v] \in Emitting =>
                            pc[v] \in Emitting \/ runs'[subject[v]][Router] > 0
  <1>s. ASSUME Same PROVE Called(v)'
    BY <1>0, <1>s, CalledKept DEF CallInv
  <1> HIDE DEF Same
  <1>1. ASSUME NEW r \in Requests, NEW e \in Events, Emit(r, e) PROVE Called(v)'
    <2>1. Same
      BY <1>1, <1>0 DEF Same, BusInv, TypeOK, Emit, Create
    <2>2. QED
      BY <1>s, <2>1
  <1>2. ASSUME NEW r \in Requests, NEW e \in Events, Receive(r, e) PROVE Called(v)'
    <2>1. Same
      BY <1>2, <1>0 DEF Same, BusInv, TypeOK, Receive
    <2>2. QED
      BY <1>s, <2>1
  <1>3. ASSUME NEW w \in Workers, NEW e \in Events, Take(w, e) PROVE Called(v)'
    <2>1. CASE v = w
      <3>1. /\ subject'[v] = e /\ pc'[v] = "handling" /\ etype' = etype
            /\ left'[v] = Registry[etype[e]]
        BY <1>3, <2>1 DEF Take, BusInv, TypeOK
      <3>2. QED
        BY <3>1 DEF Called, Remaining, HandlersOf
    <2>2. CASE v # w
      <3>1. Same
        BY <1>3, <2>2 DEF Same, Take, BusInv, TypeOK
      <3>2. QED
        BY <1>s, <3>1
    <2>3. QED
      BY <2>1, <2>2
  <1>4. ASSUME NEW t \in Threads, Enqueue(t) PROVE Called(v)'
    <2>1. Same
      BY <1>4, <1>0 DEF Same, BusInv, TypeOK, Enqueue
    <2>2. QED
      BY <1>s, <2>1
  <1>5. ASSUME NEW t \in Threads, SaveTaskId(t) PROVE Called(v)'
    <2>1. CASE v = t
      <3>1. /\ pc[v] # "idle" /\ Called(v) /\ left[v] # <<>> /\ Router = Head(left[v])
            /\ subject[v] \in Events
        BY <1>5, <2>1 DEF BusInv, LocalInv, CallInv, SaveTaskId, EmitOver
      <3>2. /\ left'[v] = Tail(left[v]) /\ subject'[v] = subject[v] /\ pc'[v] = "handling"
            /\ erred[v] => erred'[v]
        BY <1>5, <2>1 DEF BusInv, TypeOK, SaveTaskId, EmitOver
      <3>3. runs'[subject[v]][Router] > 0
        BY <1>5, <2>1, <3>1 DEF Called, SaveTaskId
      <3>4. erred'[v] \/ Router \in clean'[subject[v]]
        BY <1>5, <2>1, <3>1 DEF BusInv, TypeOK, SaveTaskId, EmitOver
      <3>5. QED
        BY <1>0, <3>1, <3>2, <3>3, <3>4, CalledTail
    <2>2. CASE v # t
      <3>1. Same
        BY <1>5, <2>2, <1>0 DEF Same, BusInv, TypeOK, SaveTaskId, EmitOver
      <3>2. QED
        BY <1>s, <3>1
    <2>3. QED
      BY <2>1, <2>2
  <1>6. ASSUME NEW t \in Threads, EnqueueFails(t) PROVE Called(v)'
    <2>1. CASE v = t
      <3>1. /\ pc[v] # "idle" /\ Called(v) /\ left[v] # <<>> /\ Router = Head(left[v])
            /\ subject[v] \in Events
        BY <1>6, <2>1 DEF BusInv, LocalInv, CallInv, EnqueueFails, EmitOver
      <3>2. /\ left'[v] = Tail(left[v]) /\ subject'[v] = subject[v] /\ pc'[v] = "handling"
            /\ erred[v] => erred'[v]
        BY <1>6, <2>1 DEF BusInv, TypeOK, EnqueueFails, EmitOver
      <3>3. runs'[subject[v]][Router] > 0
        BY <1>6, <2>1, <3>1 DEF Called, EnqueueFails
      <3>4. erred'[v] \/ Router \in clean'[subject[v]]
        BY <1>6, <2>1, <3>1 DEF BusInv, TypeOK, EnqueueFails, EmitOver
      <3>5. QED
        BY <1>0, <3>1, <3>2, <3>3, <3>4, CalledTail
    <2>2. CASE v # t
      <3>1. Same
        BY <1>6, <2>2, <1>0 DEF Same, BusInv, TypeOK, EnqueueFails, EmitOver
      <3>2. QED
        BY <1>s, <3>1
    <2>3. QED
      BY <2>1, <2>2
  <1>7. ASSUME NEW t \in Threads, NEW h \in Handlers, HandlerReturns(t, h) PROVE Called(v)'
    <2>1. CASE v = t
      <3>1. /\ pc[v] # "idle" /\ Called(v) /\ left[v] # <<>> /\ h = Head(left[v])
            /\ subject[v] \in Events
        BY <1>7, <2>1 DEF BusInv, LocalInv, CallInv, HandlerReturns, Calling
      <3>2. /\ left'[v] = Tail(left[v]) /\ subject'[v] = subject[v] /\ pc'[v] = "handling"
            /\ erred[v] => erred'[v]
        BY <1>7, <2>1 DEF BusInv, TypeOK, HandlerReturns, Calling
      <3>3. runs'[subject[v]][h] > 0
        BY <1>7, <2>1, <3>1 DEF BusInv, TypeOK, HandlerReturns, Calling
      <3>4. erred'[v] \/ h \in clean'[subject[v]]
        BY <1>7, <2>1, <3>1 DEF BusInv, TypeOK, HandlerReturns, Calling
      <3>5. QED
        BY <1>0, <3>1, <3>2, <3>3, <3>4, CalledTail
    <2>2. CASE v # t
      <3>1. Same
        BY <1>7, <2>2, <1>0 DEF Same, BusInv, TypeOK, HandlerReturns, Calling
      <3>2. QED
        BY <1>s, <3>1
    <2>3. QED
      BY <2>1, <2>2
  <1>8. ASSUME NEW t \in Threads, NEW h \in Handlers, HandlerRaises(t, h) PROVE Called(v)'
    <2>1. CASE v = t
      <3>1. /\ pc[v] # "idle" /\ Called(v) /\ left[v] # <<>> /\ h = Head(left[v])
            /\ subject[v] \in Events
        BY <1>8, <2>1 DEF BusInv, LocalInv, CallInv, HandlerRaises, Calling
      <3>2. /\ left'[v] = Tail(left[v]) /\ subject'[v] = subject[v] /\ pc'[v] = "handling"
            /\ erred[v] => erred'[v]
        BY <1>8, <2>1 DEF BusInv, TypeOK, HandlerRaises, Calling
      <3>3. runs'[subject[v]][h] > 0
        BY <1>8, <2>1, <3>1 DEF BusInv, TypeOK, HandlerRaises, Calling
      <3>4. erred'[v] \/ h \in clean'[subject[v]]
        BY <1>8, <2>1, <3>1 DEF BusInv, TypeOK, HandlerRaises, Calling
      <3>5. QED
        BY <1>0, <3>1, <3>2, <3>3, <3>4, CalledTail
    <2>2. CASE v # t
      <3>1. Same
        BY <1>8, <2>2, <1>0 DEF Same, BusInv, TypeOK, HandlerRaises, Calling
      <3>2. QED
        BY <1>s, <3>1
    <2>3. QED
      BY <2>1, <2>2
  <1>9. ASSUME NEW t \in Threads, NEW e \in Events, Route(t, e) PROVE Called(v)'
    <2>1. t \in Workers /\ subject[t] \in Events /\ Router \in Handlers /\ pc[t] # "idle"
      BY <1>9, CallingTypes, BusAssumption DEF Route, Calling
    <2>2. runs'[subject[t]][Router] > 0
      BY <1>9, <2>1 DEF BusInv, TypeOK, Route, Calling
    <2>3. pc' = [pc EXCEPT ![t] = "created"] /\ UNCHANGED <<subject, left, erred>>
      BY <1>9 DEF Route, Create
    <2>4. Same
      BY <2>1, <2>2, <2>3 DEF Same, BusInv, TypeOK
    <2>5. QED
      BY <1>s, <2>4
  <1>10. ASSUME NEW t \in Threads, Settle(t) PROVE Called(v)'
    <2>1. Same
      BY <1>10, <1>0 DEF Same, BusInv, TypeOK, Settle
    <2>2. QED
      BY <1>s, <2>1
  <1>11. ASSUME NEW t \in Threads, Acknowledge(t) PROVE Called(v)'
    <2>1. Same
      BY <1>11, <1>0 DEF Same, BusInv, TypeOK, Acknowledge
    <2>2. QED
      BY <1>s, <2>1
  <1>12. ASSUME NEW t \in Threads, Die(t) PROVE Called(v)'
    <2>1. Same
      BY <1>12, <1>0 DEF Same, BusInv, TypeOK, Die
    <2>2. QED
      BY <1>s, <2>1
  <1>13. ASSUME UNCHANGED vars PROVE Called(v)'
    <2>1. Same
      BY <1>13, <1>0 DEF Same, BusInv, TypeOK, vars
    <2>2. QED
      BY <1>s, <2>1
  <1>14. QED
    BY <1>1, <1>2, <1>3, <1>4, <1>5, <1>6, <1>7, <1>8, <1>9, <1>10, <1>11, <1>12, <1>13, StepCases
-----------------------------------------------------------------------------
(* RouteInv. *)

LEMMA RouteInvKept ==
  ASSUME BusInv, BusInv', Kept, RouteInv,
         \A w \in Workers : pc'[w] \in Emitting =>
             \/ pc[w] \in Emitting /\ child'[w] = child[w] /\ subject'[w] = subject[w]
             \/ parent'[child'[w]] = subject'[w] /\ chain'[child'[w]] = chain'[subject'[w]],
         \A t \in Threads : pc'[t] = "enqueued" =>
             \/ pc[t] = "enqueued" /\ child'[t] = child[t]
             \/ task'[child'[t]] # "none",
         \A e \in Events : Router \in clean'[e] =>
             \/ Router \in clean[e]
             \/ \E w \in Workers : pc[w] = "enqueued" /\ subject[w] = e
  PROVE  RouteInv'
  <1>1. ASSUME NEW w \in Workers, pc[w] \in Emitting
        PROVE  /\ child[w] \in Events /\ subject[w] \in Events
               /\ parent'[child[w]] = subject[w] /\ chain'[child[w]] = chain'[subject[w]]
    <2>1. /\ child[w] \in Events /\ row[child[w]] # "absent"
          /\ subject[w] \in Events /\ row[subject[w]] # "absent"
      BY <1>1 DEF BusInv, LocalInv, RowInv, Threads, Emitting
    <2>2. QED
      BY <1>1, <2>1 DEF RouteInv, Kept
  <1>2. ASSUME NEW t \in Threads, pc[t] = "enqueued"
        PROVE  task'[child[t]] # "none"
    BY <1>2 DEF BusInv, LocalInv, Emitting, RouteInv, Kept
  <1>3. ASSUME NEW e \in Events, Router \in clean'[e]
        PROVE  \E c \in Events : parent'[c] = e /\ chain'[c] = chain'[e] /\ task'[c] # "none"
    <2>1. CASE Router \in clean[e]
      <3>1. PICK c \in Events : parent[c] = e /\ chain[c] = chain[e] /\ task[c] # "none"
        BY <2>1 DEF RouteInv
      <3>2. row[c] # "absent" /\ row[e] # "absent"
        BY <2>1, <3>1 DEF BusInv, RowInv
      <3>3. QED
        BY <3>1, <3>2 DEF Kept
    <2>2. CASE \E w \in Workers : pc[w] = "enqueued" /\ subject[w] = e
      BY <1>1, <1>2, <2>2 DEF Emitting, Threads
    <2>3. QED
      BY <1>3, <2>1, <2>2
  <1>4. QED
    BY <1>1, <1>2, <1>3 DEF RouteInv, Emitting

LEMMA RouteInvStep ==
  ASSUME BusInv, BusInv', Kept, RouteInv, [Next]_vars
  PROVE  RouteInv'
  <1>0. Requests \cap Workers = {}
    BY BusAssumption
  <1> DEFINE Children ==
               \A w \in Workers : pc'[w] \in Emitting =>
                 \/ pc[w] \in Emitting /\ child'[w] = child[w] /\ subject'[w] = subject[w]
                 \/ /\ parent'[child'[w]] = subject'[w]
                    /\ chain'[child'[w]] = chain'[subject'[w]]
             Queued ==
               \A t \in Threads : pc'[t] = "enqueued" =>
                 \/ pc[t] = "enqueued" /\ child'[t] = child[t]
                 \/ task'[child'[t]] # "none"
             Routed ==
               \A e \in Events : Router \in clean'[e] =>
                 \/ Router \in clean[e]
                 \/ \E w \in Workers : pc[w] = "enqueued" /\ subject[w] = e
  <1>s. Children /\ Queued /\ Routed => RouteInv'
    BY RouteInvKept
  <1> USE DEF rowVars, brokerVars, threadVars, historyVars, Threads, Emitting
  <1> HIDE DEF Children, Queued, Routed
  <1>1. ASSUME NEW r \in Requests, NEW e \in Events, Emit(r, e) PROVE Children /\ Queued /\ Routed
    <2>1. Children
      BY <1>1, <1>0 DEF Children, BusInv, TypeOK, Emit, Create
    <2>2. Queued
      BY <1>1 DEF Queued, BusInv, TypeOK, Emit, Create
    <2>3. Routed
      BY <1>1 DEF Routed, BusInv, TypeOK, Emit, Create
    <2>4. QED
      BY <2>1, <2>2, <2>3
  <1>2. ASSUME NEW r \in Requests, NEW e \in Events, Receive(r, e)
        PROVE  Children /\ Queued /\ Routed
    <2>1. Children
      BY <1>2, <1>0 DEF Children, BusInv, TypeOK, Receive
    <2>2. Queued
      BY <1>2 DEF Queued, BusInv, TypeOK, Receive
    <2>3. Routed
      BY <1>2 DEF Routed, BusInv, TypeOK, Receive
    <2>4. QED
      BY <2>1, <2>2, <2>3
  <1>3. ASSUME NEW w \in Workers, NEW e \in Events, Take(w, e) PROVE Children /\ Queued /\ Routed
    <2>1. Children
      BY <1>3, <1>0 DEF Children, BusInv, TypeOK, Take
    <2>2. Queued
      BY <1>3 DEF Queued, BusInv, TypeOK, Take
    <2>3. Routed
      BY <1>3 DEF Routed, BusInv, TypeOK, Take
    <2>4. QED
      BY <2>1, <2>2, <2>3
  <1>4. ASSUME NEW t \in Threads, Enqueue(t) PROVE Children /\ Queued /\ Routed
    <2>1. Children
      BY <1>4, <1>0 DEF Children, BusInv, TypeOK, Enqueue, NewTask, LocalInv
    <2>2. Queued
      BY <1>4 DEF Queued, BusInv, TypeOK, Enqueue, NewTask, LocalInv
    <2>3. Routed
      BY <1>4 DEF Routed, BusInv, TypeOK, Enqueue, NewTask, LocalInv
    <2>4. QED
      BY <2>1, <2>2, <2>3
  <1>5. ASSUME NEW t \in Threads, SaveTaskId(t) PROVE Children /\ Queued /\ Routed
    <2>1. Children
      BY <1>5, <1>0 DEF Children, BusInv, TypeOK, SaveTaskId, EmitOver
    <2>2. Queued
      BY <1>5 DEF Queued, BusInv, TypeOK, SaveTaskId, EmitOver
    <2>3. Routed
      BY <1>5 DEF Routed, BusInv, TypeOK, SaveTaskId, EmitOver
    <2>4. QED
      BY <2>1, <2>2, <2>3
  <1>6. ASSUME NEW t \in Threads, EnqueueFails(t) PROVE Children /\ Queued /\ Routed
    <2>1. Children
      BY <1>6, <1>0 DEF Children, BusInv, TypeOK, EnqueueFails, EmitOver
    <2>2. Queued
      BY <1>6 DEF Queued, BusInv, TypeOK, EnqueueFails, EmitOver
    <2>3. Routed
      BY <1>6 DEF Routed, BusInv, TypeOK, EnqueueFails, EmitOver
    <2>4. QED
      BY <2>1, <2>2, <2>3
  <1>7. ASSUME NEW t \in Threads, NEW h \in Handlers, HandlerReturns(t, h)
        PROVE  Children /\ Queued /\ Routed
    <2>1. Children
      BY <1>7, <1>0 DEF Children, BusInv, TypeOK, HandlerReturns, Calling
    <2>2. Queued
      BY <1>7 DEF Queued, BusInv, TypeOK, HandlerReturns, Calling
    <2>3. Routed
      BY <1>7 DEF Routed, BusInv, TypeOK, HandlerReturns, Calling
    <2>4. QED
      BY <2>1, <2>2, <2>3
  <1>8. ASSUME NEW t \in Threads, NEW h \in Handlers, HandlerRaises(t, h)
        PROVE  Children /\ Queued /\ Routed
    <2>1. Children
      BY <1>8, <1>0 DEF Children, BusInv, TypeOK, HandlerRaises, Calling
    <2>2. Queued
      BY <1>8 DEF Queued, BusInv, TypeOK, HandlerRaises, Calling
    <2>3. Routed
      BY <1>8 DEF Routed, BusInv, TypeOK, HandlerRaises, Calling
    <2>4. QED
      BY <2>1, <2>2, <2>3
  <1>9. ASSUME NEW t \in Threads, NEW e \in Events, Route(t, e) PROVE Children /\ Queued /\ Routed
    <2>1. Children
      BY <1>9, <1>0 DEF Children, BusInv, TypeOK, Route, Calling, Create, NextKey, ChildChain,
         LocalInv, RowInv
    <2>2. Queued
      BY <1>9 DEF Queued, BusInv, TypeOK, Route, Calling, Create, NextKey, ChildChain, LocalInv,
         RowInv
    <2>3. Routed
      BY <1>9 DEF Routed, BusInv, TypeOK, Route, Calling, Create, NextKey, ChildChain, LocalInv,
         RowInv
    <2>4. QED
      BY <2>1, <2>2, <2>3
  <1>10. ASSUME NEW t \in Threads, Settle(t) PROVE Children /\ Queued /\ Routed
    <2>1. Children
      BY <1>10, <1>0 DEF Children, BusInv, TypeOK, Settle
    <2>2. Queued
      BY <1>10 DEF Queued, BusInv, TypeOK, Settle
    <2>3. Routed
      BY <1>10 DEF Routed, BusInv, TypeOK, Settle
    <2>4. QED
      BY <2>1, <2>2, <2>3
  <1>11. ASSUME NEW t \in Threads, Acknowledge(t) PROVE Children /\ Queued /\ Routed
    <2>1. Children
      BY <1>11, <1>0 DEF Children, BusInv, TypeOK, Acknowledge
    <2>2. Queued
      BY <1>11 DEF Queued, BusInv, TypeOK, Acknowledge
    <2>3. Routed
      BY <1>11 DEF Routed, BusInv, TypeOK, Acknowledge
    <2>4. QED
      BY <2>1, <2>2, <2>3
  <1>12. ASSUME NEW t \in Threads, Die(t) PROVE Children /\ Queued /\ Routed
    <2>1. Children
      BY <1>12, <1>0 DEF Children, BusInv, TypeOK, Die
    <2>2. Queued
      BY <1>12 DEF Queued, BusInv, TypeOK, Die
    <2>3. Routed
      BY <1>12 DEF Routed, BusInv, TypeOK, Die
    <2>4. QED
      BY <2>1, <2>2, <2>3
  <1>13. ASSUME UNCHANGED vars PROVE Children /\ Queued /\ Routed
    <2>1. Children
      BY <1>13, <1>0 DEF Children, BusInv, TypeOK, vars
    <2>2. Queued
      BY <1>13 DEF Queued, BusInv, TypeOK, vars
    <2>3. Routed
      BY <1>13 DEF Routed, BusInv, TypeOK, vars
    <2>4. QED
      BY <2>1, <2>2, <2>3
  <1>14. QED
    BY <1>s, <1>1, <1>2, <1>3, <1>4, <1>5, <1>6, <1>7, <1>8, <1>9, <1>10, <1>11, <1>12, <1>13,
       StepCases

-----------------------------------------------------------------------------
(* EmitInv. *)

LEMMA EmitInvKept ==
  ASSUME BusInv, EmitInv,
         \A t \in Threads : pc'[t] \in Emitting => pc'[t] = pc[t] /\ child'[t] = child[t],
         \A e \in Events : task[e] = "none" => task'[e] = "none",
         \A t \in Threads : subject'[t] \in Events => task'[subject'[t]] # "none"
  PROVE  EmitInv'
  BY DEF BusInv, LocalInv, EmitInv, Emitting

LEMMA EmitInvCreate ==
  ASSUME EmitInv, NEW r \in Threads, NEW e,
         pc'[r] = "created" /\ child'[r] = e /\ UNCHANGED <<task, subject>>,
         \A u \in Threads \ {r} : pc'[u] = pc[u] /\ child'[u] = child[u],
         task[e] = "none", \A u \in Threads : pc[u] \in Emitting => child[u] # e
  PROVE  EmitInv'
  BY DEF EmitInv, Emitting

LEMMA EmitInvStep ==
  ASSUME BusInv, BusInv', EmitInv, [Next]_vars
  PROVE  EmitInv'
  <1>0. Requests \cap Workers = {}
    BY BusAssumption
  <1> USE DEF rowVars, brokerVars, threadVars, historyVars, Threads, Emitting, BusInv, TypeOK
  <1>1. ASSUME NEW r \in Requests, NEW e \in Events, Emit(r, e) PROVE EmitInv'
    <2>1. /\ pc'[r] = "created" /\ child'[r] = e /\ UNCHANGED <<task, subject>>
          /\ \A u \in Threads \ {r} : pc'[u] = pc[u] /\ child'[u] = child[u]
      BY <1>1 DEF Emit, Create
    <2>2. /\ task[e] = "none"
          /\ \A u \in Threads : pc[u] \in Emitting => child[u] # e
      BY <1>1 DEF Emit, Create, NextKey, RowInv
    <2>3. QED
      BY ZenonT(60), <2>1, <2>2, EmitInvCreate
  <1>2. ASSUME NEW r \in Requests, NEW e \in Events, Receive(r, e) PROVE EmitInv'
    BY <1>2, <1>0 DEF EmitInv, LocalInv, RowInv, Receive
  <1>3. ASSUME NEW w \in Workers, NEW e \in Events, Take(w, e) PROVE EmitInv'
    <2>1. \A u \in Threads : pc'[u] \in Emitting => pc'[u] = pc[u] /\ child'[u] = child[u]
      BY <1>3 DEF Take, Retryable
    <2>2. \A f \in Events : task[f] = "none" => task'[f] = "none"
      BY <1>3 DEF EmitInv, Take, Retryable
    <2>3. \A u \in Threads : subject'[u] \in Events => task'[subject'[u]] # "none"
      BY <1>3 DEF EmitInv, Take, Retryable
    <2>4. QED
      BY <2>1, <2>2, <2>3, EmitInvKept
  <1>4. ASSUME NEW t \in Threads, Enqueue(t) PROVE EmitInv'
    BY <1>4, <1>0 DEF EmitInv, LocalInv, RowInv, Enqueue, NewTask
  <1>5. ASSUME NEW t \in Threads, SaveTaskId(t) PROVE EmitInv'
    <2>1. \A u \in Threads : pc'[u] \in Emitting => pc'[u] = pc[u] /\ child'[u] = child[u]
      BY <1>5 DEF SaveTaskId, EmitOver
    <2>2. \A f \in Events : task[f] = "none" => task'[f] = "none"
      BY <1>5 DEF EmitInv, SaveTaskId, EmitOver
    <2>3. \A u \in Threads : subject'[u] \in Events => task'[subject'[u]] # "none"
      BY <1>5 DEF EmitInv, SaveTaskId, EmitOver
    <2>4. QED
      BY <2>1, <2>2, <2>3, EmitInvKept
  <1>6. ASSUME NEW t \in Threads, EnqueueFails(t) PROVE EmitInv'
    BY <1>6, <1>0 DEF EmitInv, LocalInv, RowInv, EnqueueFails, EmitOver
  <1>7. ASSUME NEW t \in Threads, NEW h \in Handlers, HandlerReturns(t, h) PROVE EmitInv'
    BY <1>7, <1>0 DEF EmitInv, LocalInv, RowInv, HandlerReturns, Calling
  <1>8. ASSUME NEW t \in Threads, NEW h \in Handlers, HandlerRaises(t, h) PROVE EmitInv'
    BY <1>8, <1>0 DEF EmitInv, LocalInv, RowInv, HandlerRaises, Calling
  <1>9. ASSUME NEW t \in Threads, NEW e \in Events, Route(t, e) PROVE EmitInv'
    BY <1>9, <1>0 DEF EmitInv, LocalInv, RowInv, Route, Calling, Create, NextKey
  <1>10. ASSUME NEW t \in Threads, Settle(t) PROVE EmitInv'
    BY <1>10, <1>0 DEF EmitInv, LocalInv, RowInv, Settle
  <1>11. ASSUME NEW t \in Threads, Acknowledge(t) PROVE EmitInv'
    <2>1. \A u \in Threads : pc'[u] \in Emitting => pc'[u] = pc[u] /\ child'[u] = child[u]
      BY <1>11 DEF Acknowledge, LocalInv
    <2>2. \A f \in Events : task[f] = "none" => task'[f] = "none"
      BY <1>11 DEF EmitInv, Acknowledge, LocalInv
    <2>3. \A u \in Threads : subject'[u] \in Events => task'[subject'[u]] # "none"
      BY <1>11, BusAssumption DEF EmitInv, Acknowledge, LocalInv
    <2>4. QED
      BY <2>1, <2>2, <2>3, EmitInvKept
  <1>12. ASSUME NEW t \in Threads, Die(t) PROVE EmitInv'
    <2>1. \A u \in Threads : pc'[u] \in Emitting => pc'[u] = pc[u] /\ child'[u] = child[u]
      BY <1>12 DEF Die
    <2>2. \A f \in Events : task[f] = "none" => task'[f] = "none"
      BY <1>12 DEF EmitInv, Die
    <2>3. \A u \in Threads : subject'[u] \in Events => task'[subject'[u]] # "none"
      BY <1>12, BusAssumption DEF EmitInv, Die
    <2>4. QED
      BY <2>1, <2>2, <2>3, EmitInvKept
  <1>13. ASSUME UNCHANGED vars PROVE EmitInv'
    BY <1>13, <1>0 DEF EmitInv, LocalInv, RowInv, vars
  <1>14. QED
    BY <1>1, <1>2, <1>3, <1>4, <1>5, <1>6, <1>7, <1>8, <1>9, <1>10, <1>11, <1>12, <1>13, StepCases
-----------------------------------------------------------------------------
(* OnceInv. *)

LEMMA OnceKept ==
  ASSUME NEW e, Once(e), task'[e] = task[e], runs'[e] = runs[e],
         \A w \in Workers : subject'[w] = e <=> subject[w] = e,
         \A w \in Workers : subject[w] = e =>
             left'[w] = left[w] /\ (pc[w] \in Emitting => pc'[w] \in Emitting)
  PROVE  Once(e)'
  BY DEF Once, Held, Remaining

(* The one worker on e calls the first of the handlers left to call, or is *)
(* through with it.                                                        *)
LEMMA OnceTail ==
  ASSUME BusInv, BusInv', NEW e \in Events, Once(e), NEW w \in Workers, subject[w] = e,
         left[w] # <<>>, left'[w] = Tail(left[w]), pc'[w] = "handling",
         UNCHANGED <<task, subject>>,
         \A h \in Handlers : h # Head(left[w]) => runs'[e][h] = runs[e][h],
         runs'[e][Head(left[w])] <= 1,
         pc[w] \in Emitting => Head(left[w]) = Router
  PROVE  Once(e)'
  <1>1. /\ left[w] \in Seq(Handlers) /\ IsInjective(left[w])
        /\ runs \in [Events -> [Handlers -> Nat]] /\ runs' \in [Events -> [Handlers -> Nat]]
    BY DEF BusInv, TypeOK, Once, Threads
  <1>2. /\ Remaining(w) = {Head(left[w])} \cup Remaining(w)'
        /\ IsInjective(left'[w]) /\ Head(left[w]) \notin Remaining(w)'
    BY <1>1, TailRange, TailInjective DEF Remaining
  <1>3. Remaining(w)' \subseteq Handlers /\ left'[w] \in Seq(Handlers)
    <2>1. left'[w] \in Seq(Handlers)
      BY DEF BusInv, TypeOK, Threads
    <2>2. QED
      BY <2>1 DEF Remaining, Range
  <1>4. \A u \in Workers : subject[u] = e => u = w
    BY DEF Once
  <1>5. \A h \in Remaining(w)' : runs'[e][h] = 0
    BY <1>2, <1>3 DEF Once
  <1>6. \A h \in Handlers : runs'[e][h] <= 1
    BY DEF Once
  <1>7. task'[e] = "out" /\ Held(e) /\ Held(e)'
    BY DEF Once, Held
  <1>8. QED
    BY <1>2, <1>4, <1>5, <1>6, <1>7 DEF Once

LEMMA OnceInvStep ==
  ASSUME BusInv, BusInv', EmitInv, OnceInv, Retry > Timeout, [Next]_vars
  PROVE  OnceInv'
  <1> SUFFICES ASSUME NEW e \in Events, e \notin abandoned'
               PROVE  Once(e)'
    BY DEF OnceInv
  <1>0. Requests \cap Workers = {} /\ NoEvent \notin Events /\ Timeout \in Nat /\ Retry \in Nat
    BY BusAssumption
  <1>a. abandoned \subseteq abandoned'
    <2>1. ASSUME NEW t \in Threads, Die(t) PROVE abandoned \subseteq abandoned'
      BY <2>1 DEF Die
    <2>2. QED
      BY <2>1, StepCases DEF vars, rowVars, brokerVars, threadVars, historyVars, Emit, Receive,
         Take, Enqueue, SaveTaskId, EnqueueFails, HandlerReturns, HandlerRaises, Route, Settle,
         Acknowledge
  <1>b. Once(e)
    BY <1>a DEF OnceInv
  <1> DEFINE Same == /\ task'[e] = task[e] /\ runs'[e] = runs[e]
                     /\ \A w \in Workers : subject'[w] = e <=> subject[w] = e
                     /\ \A w \in Workers : subject[w] = e =>
                            /\ left'[w] = left[w]
                            /\ pc[w] \in Emitting => pc'[w] \in Emitting
  <1>s. Same => Once(e)'
    BY <1>b, OnceKept
  <1> USE DEF rowVars, brokerVars, threadVars, historyVars, Threads, Emitting
  <1> HIDE DEF Same
  <1>1. ASSUME NEW r \in Requests, NEW f \in Events, Emit(r, f) PROVE Once(e)'
    <2>1. Same
      BY <1>1, <1>0 DEF Same, BusInv, TypeOK, Emit, Create
    <2>2. QED
      BY <1>s, <2>1
  <1>2. ASSUME NEW r \in Requests, NEW f \in Events, Receive(r, f) PROVE Once(e)'
    <2>1. Same
      BY <1>2, <1>0 DEF Same, BusInv, TypeOK, Receive
    <2>2. QED
      BY <1>s, <2>1
  <1>3. ASSUME NEW w \in Workers, NEW f \in Events, Take(w, f) PROVE Once(e)'
    <2>1. CASE f = e
      <3>1. task[e] = "waiting" /\ ~Held(e)
        BY <1>3, <1>0, <1>b, <2>1 DEF Take, Retryable, Once
      <3>2. /\ task'[e] = "out" /\ runs' = runs /\ subject'[w] = e
            /\ left'[w] = Registry[etype[e]]
            /\ \A u \in Workers : subject'[u] = e => u = w
        BY <1>3, <2>1, <3>1 DEF Take, Held, BusInv, TypeOK
      <3>3. /\ \A h \in Handlers : runs[e][h] = 0
            /\ IsInjective(Registry[etype[e]]) /\ Registry[etype[e]] \in Seq(Handlers)
        BY <1>b, <3>1, BusAssumption DEF Once, BusInv, TypeOK
      <3>4. Remaining(w)' \subseteq Handlers
        BY <3>2, <3>3 DEF Remaining, Range
      <3>5. QED
        BY <3>2, <3>3, <3>4 DEF Once, Held
    <2>2. CASE f # e
      <3>1. subject[w] # e
        BY <1>3, <1>0 DEF Take, BusInv, LocalInv
      <3>2. Same
        BY <1>3, <2>2, <3>1 DEF Same, BusInv, TypeOK, Take
      <3>3. QED
        BY <1>s, <3>2
    <2>3. QED
      BY <2>1, <2>2
  <1>4. ASSUME NEW t \in Threads, Enqueue(t) PROVE Once(e)'
    <2>1. CASE child[t] = e
      <3>1. task[e] = "none"
        BY <1>4, <2>1 DEF Enqueue, EmitInv
      <3>2. task'[e] = "waiting" /\ UNCHANGED <<runs, subject>>
        BY <1>4, <2>1 DEF Enqueue, NewTask, BusInv, TypeOK
      <3>3. QED
        BY <1>b, <3>1, <3>2 DEF Once, Held
    <2>2. CASE child[t] # e
      <3>1. Same
        BY <1>4, <2>2 DEF Same, BusInv, TypeOK, Enqueue
      <3>2. QED
        BY <1>s, <3>1
    <2>3. QED
      BY <2>1, <2>2
  <1>5. ASSUME NEW t \in Threads, SaveTaskId(t) PROVE Once(e)'
    <2>1. CASE t \in Workers /\ subject[t] = e
      <3>1. /\ left[t] # <<>> /\ left'[t] = Tail(left[t]) /\ pc'[t] = "handling"
            /\ UNCHANGED <<task, subject>>
            /\ pc[t] \in Emitting => Head(left[t]) = Router
        BY <1>5, <2>1 DEF BusInv, TypeOK, LocalInv, SaveTaskId, EmitOver
      <3>2. /\ \A h \in Handlers : h # Head(left[t]) => runs'[e][h] = runs[e][h]
            /\ runs'[e][Head(left[t])] <= 1
        BY <1>b, <1>5, <2>1, <3>1, BusAssumption DEF Once, LocalInv, BusInv, SaveTaskId
      <3>3. QED
        BY <1>b, <2>1, <3>1, <3>2, OnceTail
    <2>2. CASE ~(t \in Workers /\ subject[t] = e)
      <3>1. Same
        BY <1>5, <2>2, <1>0 DEF Same, BusInv, TypeOK, SaveTaskId, EmitOver
      <3>2. QED
        BY <1>s, <3>1
    <2>3. QED
      BY <2>1, <2>2
  <1>6. ASSUME NEW t \in Threads, EnqueueFails(t) PROVE Once(e)'
    <2>1. CASE t \in Workers /\ subject[t] = e
      <3>1. /\ left[t] # <<>> /\ left'[t] = Tail(left[t]) /\ pc'[t] = "handling"
            /\ UNCHANGED <<task, subject>>
            /\ pc[t] \in Emitting => Head(left[t]) = Router
        BY <1>6, <2>1 DEF BusInv, TypeOK, LocalInv, EnqueueFails, EmitOver
      <3>2. /\ \A h \in Handlers : h # Head(left[t]) => runs'[e][h] = runs[e][h]
            /\ runs'[e][Head(left[t])] <= 1
        BY <1>b, <1>6, <2>1, <3>1, BusAssumption DEF Once, LocalInv, BusInv, EnqueueFails
      <3>3. QED
        BY <1>b, <2>1, <3>1, <3>2, OnceTail
    <2>2. CASE ~(t \in Workers /\ subject[t] = e)
      <3>1. Same
        BY <1>6, <2>2, <1>0 DEF Same, BusInv, TypeOK, EnqueueFails, EmitOver
      <3>2. QED
        BY <1>s, <3>1
    <2>3. QED
      BY <2>1, <2>2
  <1>7. ASSUME NEW t \in Threads, NEW h \in Handlers, HandlerReturns(t, h) PROVE Once(e)'
    <2>1. CASE t \in Workers /\ subject[t] = e
      <3>1. /\ left[t] # <<>> /\ left'[t] = Tail(left[t]) /\ pc'[t] = "handling"
            /\ UNCHANGED <<task, subject>>
            /\ pc[t] \in Emitting => Head(left[t]) = Router
        BY <1>7, <2>1 DEF BusInv, TypeOK, LocalInv, HandlerReturns, Calling
      <3>2. /\ \A g \in Handlers : g # Head(left[t]) => runs'[e][g] = runs[e][g]
            /\ runs'[e][Head(left[t])] <= 1
        <4>1. h \in Remaining(t) /\ h = Head(left[t]) /\ pc[t] = "handling"
          BY <1>7, <2>1, <3>1, TailRange DEF BusInv, TypeOK, Remaining, Calling, HandlerReturns
        <4>2. runs[e][h] = 0
          BY <1>b, <2>1, <4>1 DEF Once
        <4>3. QED
          BY <1>7, <2>1, <4>1, <4>2 DEF BusInv, TypeOK, Calling, HandlerReturns
      <3>3. QED
        BY <1>b, <2>1, <3>1, <3>2, OnceTail
    <2>2. CASE ~(t \in Workers /\ subject[t] = e)
      <3>1. Same
        BY <1>7, <2>2, <1>0, CallingTypes DEF Same, BusInv, TypeOK, HandlerReturns, Calling
      <3>2. QED
        BY <1>s, <3>1
    <2>3. QED
      BY <2>1, <2>2
  <1>8. ASSUME NEW t \in Threads, NEW h \in Handlers, HandlerRaises(t, h) PROVE Once(e)'
    <2>1. CASE t \in Workers /\ subject[t] = e
      <3>1. /\ left[t] # <<>> /\ left'[t] = Tail(left[t]) /\ pc'[t] = "handling"
            /\ UNCHANGED <<task, subject>>
            /\ pc[t] \in Emitting => Head(left[t]) = Router
        BY <1>8, <2>1 DEF BusInv, TypeOK, LocalInv, HandlerRaises, Calling
      <3>2. /\ \A g \in Handlers : g # Head(left[t]) => runs'[e][g] = runs[e][g]
            /\ runs'[e][Head(left[t])] <= 1
        <4>1. h \in Remaining(t) /\ h = Head(left[t]) /\ pc[t] = "handling"
          BY <1>8, <2>1, <3>1, TailRange DEF BusInv, TypeOK, Remaining, Calling, HandlerRaises
        <4>2. runs[e][h] = 0
          BY <1>b, <2>1, <4>1 DEF Once
        <4>3. QED
          BY <1>8, <2>1, <4>1, <4>2 DEF BusInv, TypeOK, Calling, HandlerRaises
      <3>3. QED
        BY <1>b, <2>1, <3>1, <3>2, OnceTail
    <2>2. CASE ~(t \in Workers /\ subject[t] = e)
      <3>1. Same
        BY <1>8, <2>2, <1>0, CallingTypes DEF Same, BusInv, TypeOK, HandlerRaises, Calling
      <3>2. QED
        BY <1>s, <3>1
    <2>3. QED
      BY <2>1, <2>2
  <1>9. ASSUME NEW t \in Threads, NEW f \in Events, Route(t, f) PROVE Once(e)'
    <2>1. CASE subject[t] = e
      <3>1. /\ t \in Workers /\ Router \in Remaining(t) /\ pc[t] = "handling"
            /\ Remaining(t) \subseteq Handlers
        <4>1. t \in Workers /\ left[t] \in Seq(Handlers) /\ left[t] # <<>> /\ Router = Head(left[t])
          BY <1>9, CallingTypes DEF BusInv, TypeOK, Route, Calling
        <4>2. QED
          BY <1>9, <4>1, TailRange DEF Remaining, Range, Route, Calling
      <3>2. /\ pc' = [pc EXCEPT ![t] = "created"] /\ UNCHANGED <<task, subject, left>>
            /\ runs' = [runs EXCEPT ![e][Router] = @ + 1]
        BY <1>9, <2>1 DEF Route, Create, Calling
      <3>3. runs[e][Router] = 0 /\ \A u \in Workers : subject[u] = e => u = t
        BY <1>b, <2>1, <3>1 DEF Once
      <3>4. /\ runs'[e][Router] = 1
            /\ \A h \in Handlers : h # Router => runs'[e][h] = runs[e][h]
        BY <3>2, <3>3, BusAssumption DEF BusInv, TypeOK
      <3>5. pc'[t] = "created"
        BY <3>2 DEF BusInv, TypeOK
      <3>6. \A h \in Handlers : runs'[e][h] <= 1
        BY <1>b, <3>4 DEF Once
      <3>7. task[e] = "out" /\ Held(e) /\ Held(e)'
        BY <1>b, <2>1, <3>1, <3>2 DEF Once, Held
      <3>8. \A h \in Remaining(t) : h = Router \/ runs'[e][h] = 0
        BY <1>b, <2>1, <3>1, <3>4 DEF Once
      <3>9. QED
        BY <1>b, <3>2, <3>3, <3>5, <3>6, <3>7, <3>8 DEF Once, Remaining
    <2>2. CASE subject[t] # e
      <3>1. Same
        BY <1>9, <2>2, CallingTypes DEF Same, BusInv, TypeOK, Route, Create, Calling
      <3>2. QED
        BY <1>s, <3>1
    <2>3. QED
      BY <2>1, <2>2
  <1>10. ASSUME NEW t \in Threads, Settle(t) PROVE Once(e)'
    <2>1. Same
      BY <1>10, <1>0 DEF Same, BusInv, TypeOK, Settle
    <2>2. QED
      BY <1>s, <2>1
  <1>11. ASSUME NEW t \in Threads, Acknowledge(t) PROVE Once(e)'
    <2>0. t \in Workers /\ subject[t] \in Events /\ pc[t] = "settled"
      BY <1>11 DEF Acknowledge, BusInv, LocalInv
    <2>1. CASE subject[t] = e
      <3>1. /\ task'[e] = "acked" /\ runs' = runs
            /\ \A u \in Workers : u # t => subject'[u] = subject[u]
            /\ subject'[t] # e
        BY <1>11, <1>0, <2>0, <2>1 DEF Acknowledge, BusInv, TypeOK
      <3>2. \A u \in Workers : subject'[u] # e
        BY <1>b, <2>0, <2>1, <3>1 DEF Once
      <3>3. QED
        BY <1>b, <3>1, <3>2 DEF Once, Held
    <2>2. CASE subject[t] # e
      <3>1. Same
        BY <1>11, <1>0, <2>0, <2>2 DEF Same, BusInv, TypeOK, Acknowledge
      <3>2. QED
        BY <1>s, <3>1
    <2>3. QED
      BY <2>1, <2>2
  <1>12. ASSUME NEW t \in Threads, Die(t) PROVE Once(e)'
    <2>1. subject[t] # e
      BY <1>12 DEF Die
    <2>2. Same
      BY <1>12, <1>0, <2>1 DEF Same, BusInv, TypeOK, Die
    <2>3. QED
      BY <1>s, <2>2
  <1>13. ASSUME UNCHANGED vars PROVE Once(e)'
    <2>1. Same
      BY <1>13, <1>0 DEF Same, BusInv, TypeOK, vars
    <2>2. QED
      BY <1>s, <2>1
  <1>14. QED
    BY <1>1, <1>2, <1>3, <1>4, <1>5, <1>6, <1>7, <1>8, <1>9, <1>10, <1>11, <1>12, <1>13, StepCases
-----------------------------------------------------------------------------
(* PatientInv and SubscribedInv. *)

LEMMA InitOnceInv == Init => OnceInv
  <1> SUFFICES ASSUME Init, NEW e \in Events PROVE Once(e)
    BY DEF OnceInv
  <1>1. ~Held(e) /\ task[e] = "none" /\ \A h \in Handlers : runs[e][h] = 0
    BY BusAssumption DEF Init, Held, Threads
  <1>2. QED
    BY <1>1 DEF Once, Held

LEMMA WaitingKept ==
  ASSUME NEW e, Waiting(e), row'[e] = row[e],
         task'[e] = "waiting" => task[e] = "waiting",
         \A t \in Threads : pc'[t] = "created" /\ child'[t] = e =>
             pc[t] = "created" /\ child[t] = e,
         \A w \in Workers : subject'[w] = e /\ pc'[w] # "settled" =>
             subject[w] = e /\ pc[w] # "settled"
  PROVE  Waiting(e)'
  BY DEF Waiting

LEMMA QueuedInvStep ==
  ASSUME BusInv, EmitInv, OnceInv, QueuedInv, [Next]_vars, Retry > Timeout
  PROVE  QueuedInv'
  <1> SUFFICES ASSUME NEW e \in Events, e \notin abandoned'
               PROVE  Waiting(e)'
    BY DEF QueuedInv
  <1>0. /\ Requests \cap Workers = {} /\ NoEvent \notin Events
        /\ Retry > Timeout /\ Retry \in Nat /\ Timeout \in Nat
    BY BusAssumption
  <1>a. e \notin abandoned
    BY StepCases DEF Emit, Receive, Take, Enqueue, SaveTaskId, EnqueueFails, HandlerReturns,
       HandlerRaises, Route, Settle, Acknowledge, Die, vars, historyVars
  <1>b. Once(e) /\ Waiting(e)
    BY <1>a DEF OnceInv, QueuedInv
  <1> USE DEF rowVars, brokerVars, threadVars, historyVars, Threads
  <1> DEFINE Same == /\ row'[e] = row[e]
                     /\ task'[e] = "waiting" => task[e] = "waiting"
                     /\ \A t \in Threads : pc'[t] = "created" /\ child'[t] = e =>
                            pc[t] = "created" /\ child[t] = e
                     /\ \A w \in Workers : subject'[w] = e /\ pc'[w] # "settled" =>
                            subject[w] = e /\ pc[w] # "settled"
  <1>s. ASSUME Same PROVE Waiting(e)'
    BY <1>b, <1>s, WaitingKept
  <1> HIDE DEF Same
  <1>1. ASSUME NEW t \in Threads, NEW f \in Events, NEW type, NEW from, NEW chainId,
               Create(t, f, type, from, chainId), UNCHANGED <<task, subject>>,
               t \in Workers => pc[t] # "settled"
        PROVE  Waiting(e)'
    <2>1. CASE f = e
      <3>1. row'[e] = "queued"
        BY <1>1, <2>1 DEF Create, BusInv, TypeOK
      <3>2. QED
        BY <3>1 DEF Waiting
    <2>2. CASE f # e
      <3>1. Same
        BY <1>1, <2>2 DEF Same, BusInv, TypeOK, Create
      <3>2. QED
        BY <1>s, <3>1
    <2>3. QED
      BY <2>1, <2>2
  <1>2. ASSUME NEW r \in Requests, NEW f \in Events, Receive(r, f) PROVE Waiting(e)'
    <2>1. CASE f = e
      <3>1. /\ task[e] = "none"
            /\ \A t \in Threads : pc[t] = "created" => child[t] # e
            /\ \A w \in Workers : subject[w] # e
        BY <1>2, <2>1 DEF Receive, NextKey, BusInv, RowInv, Emitting
      <3>2. QED
        BY <1>2, <3>1 DEF Receive, Waiting
    <2>2. CASE f # e
      <3>1. Same
        BY <1>2, <2>2 DEF Same, BusInv, TypeOK, Receive
      <3>2. QED
        BY <1>s, <3>1
    <2>3. QED
      BY <2>1, <2>2
  <1>3. ASSUME NEW w \in Workers, NEW f \in Events, Take(w, f) PROVE Waiting(e)'
    <2>1. CASE f = e
      <3>1. task[e] = "waiting"
        BY <1>3, <1>0, <1>b, <2>1 DEF Take, Retryable, Once
      <3>2. row'[e] = "queued"
        BY <1>3, <1>b, <3>1 DEF Take, Waiting
      <3>3. QED
        BY <3>2 DEF Waiting
    <2>2. CASE f # e
      <3>1. Same
        BY <1>3, <2>2, <1>0 DEF Same, BusInv, TypeOK, LocalInv, Take
      <3>2. QED
        BY <1>s, <3>1
    <2>3. QED
      BY <2>1, <2>2
  <1>4. ASSUME NEW t \in Threads, Enqueue(t) PROVE Waiting(e)'
    <2>1. CASE child[t] = e
      <3>1. row'[e] = "queued"
        BY <1>4, <1>b, <2>1 DEF Enqueue, Waiting
      <3>2. QED
        BY <3>1 DEF Waiting
    <2>2. CASE child[t] # e
      <3>1. Same
        BY <1>4, <2>2 DEF Same, BusInv, TypeOK, Enqueue
      <3>2. QED
        BY <1>s, <3>1
    <2>3. QED
      BY <2>1, <2>2
  <1>5. ASSUME NEW t \in Threads, SaveTaskId(t) PROVE Waiting(e)'
    <2>1. Same
      BY <1>5, <1>0 DEF Same, BusInv, TypeOK, SaveTaskId, SavedStatus, EmitOver
    <2>2. QED
      BY <1>s, <2>1
  <1>6. ASSUME NEW t \in Threads, EnqueueFails(t) PROVE Waiting(e)'
    <2>1. Same
      BY <1>6, <1>0 DEF Same, BusInv, TypeOK, EnqueueFails, EmitOver
    <2>2. QED
      BY <1>s, <2>1
  <1>7. ASSUME NEW t \in Threads, UNCHANGED <<row, task, pc, subject, child>> PROVE Waiting(e)'
    <2>1. Same
      BY <1>7 DEF Same
    <2>2. QED
      BY <1>s, <2>1
  <1>8. ASSUME NEW t \in Threads, Settle(t) PROVE Waiting(e)'
    <2>0. t \in Workers
      BY <1>8 DEF Settle, BusInv, LocalInv
    <2>1. CASE subject[t] = e
      <3>1. /\ task[e] = "out" /\ \A u \in Workers : subject[u] = e => u = t
            /\ \A u \in Threads : pc[u] = "created" => child[u] # e
        BY <1>b, <2>0, <2>1 DEF Once, Held, EmitInv
      <3>2. /\ task'[e] = "out" /\ pc'[t] = "settled"
            /\ \A u \in Threads : u # t => pc'[u] = pc[u] /\ child'[u] = child[u]
            /\ subject' = subject
        BY <1>8, <3>1 DEF Settle, BusInv, TypeOK
      <3>3. QED
        BY <3>1, <3>2 DEF Waiting
    <2>2. CASE subject[t] # e
      <3>1. Same
        BY <1>8, <2>2 DEF Same, BusInv, TypeOK, Settle
      <3>2. QED
        BY <1>s, <3>1
    <2>3. QED
      BY <2>1, <2>2
  <1>9. ASSUME NEW t \in Threads, Acknowledge(t) PROVE Waiting(e)'
    <2>1. Same
      BY <1>9, <1>0 DEF Same, BusInv, TypeOK, Acknowledge
    <2>2. QED
      BY <1>s, <2>1
  <1>10. ASSUME NEW t \in Threads, Die(t) PROVE Waiting(e)'
    <2>1. Same
      BY <1>10, <1>0 DEF Same, BusInv, TypeOK, Die
    <2>2. QED
      BY <1>s, <2>1
  <1>11. ASSUME UNCHANGED vars PROVE Waiting(e)'
    <2>1. Same
      BY <1>11 DEF Same, vars
    <2>2. QED
      BY <1>s, <2>1
  <1>12. ASSUME NEW r \in Requests, NEW f \in Events, Emit(r, f) PROVE Waiting(e)'
    BY <1>1, <1>12, <1>0 DEF Emit
  <1>13. ASSUME NEW t \in Threads, NEW f \in Events, Route(t, f) PROVE Waiting(e)'
    BY <1>1, <1>13 DEF Route, Calling
  <1>14. ASSUME NEW t \in Threads, NEW h \in Handlers, HandlerReturns(t, h) \/ HandlerRaises(t, h)
         PROVE  Waiting(e)'
    BY <1>7, <1>14 DEF HandlerReturns, HandlerRaises
  <1>15. QED
    BY <1>2, <1>3, <1>4, <1>5, <1>6, <1>8, <1>9, <1>10, <1>11, <1>12, <1>13, <1>14, StepCases

LEMMA SubscribedInvStep ==
  ASSUME BusInv, BusInv', Kept, SubscribedInv, [Next]_vars
  PROVE  SubscribedInv'
  <1> SUFFICES ASSUME NEW v \in Workers, subject'[v] \in Events
               PROVE  Remaining(v)' \subseteq HandlersOf(subject[v])'
    BY DEF SubscribedInv
  <1>0. Requests \cap Workers = {} /\ NoEvent \notin Events
    BY BusAssumption
  <1> USE DEF rowVars, brokerVars, threadVars, historyVars, Threads
  <1>s. ASSUME subject'[v] = subject[v],
               left'[v] = left[v] \/ (left[v] # <<>> /\ left'[v] = Tail(left[v]))
        PROVE  Remaining(v)' \subseteq HandlersOf(subject[v])'
    <2>1. HandlersOf(subject[v])' = HandlersOf(subject[v])
      BY <1>s DEF HandlersOf, Kept, BusInv, RowInv
    <2>2. Remaining(v)' \subseteq Remaining(v)
      BY <1>s, TailRange DEF Remaining, BusInv, TypeOK
    <2>3. QED
      BY <1>s, <2>1, <2>2 DEF SubscribedInv
  <1>1. ASSUME UNCHANGED <<subject, left>> PROVE Remaining(v)' \subseteq HandlersOf(subject[v])'
    BY <1>s, <1>1
  <1>2. ASSUME NEW w \in Workers, NEW f \in Events, Take(w, f)
        PROVE Remaining(v)' \subseteq HandlersOf(subject[v])'
    <2>1. CASE v = w
      <3>1. subject'[v] = f /\ left'[v] = Registry[etype[f]] /\ etype' = etype
        BY <1>2, <2>1 DEF Take, BusInv, TypeOK
      <3>2. QED
        BY <3>1 DEF Remaining, HandlersOf
    <2>2. CASE v # w
      BY <1>s, <1>2, <2>2 DEF Take, BusInv, TypeOK
    <2>3. QED
      BY <2>1, <2>2
  <1>3. ASSUME NEW t \in Threads, NEW ok, EmitOver(t, ok), UNCHANGED subject, pc[t] \in Emitting
        PROVE Remaining(v)' \subseteq HandlersOf(subject[v])'
    <2>1. v = t => left[v] # <<>> /\ left'[v] = Tail(left[v])
      BY <1>3 DEF EmitOver, BusInv, TypeOK, LocalInv
    <2>2. v # t => left'[v] = left[v]
      BY <1>3 DEF EmitOver, BusInv, TypeOK
    <2>3. QED
      BY <1>s, <1>3, <2>1, <2>2
  <1>4. ASSUME NEW t \in Threads, NEW h, Calling(t, h), UNCHANGED subject,
               left' = [left EXCEPT ![t] = Tail(@)]
        PROVE Remaining(v)' \subseteq HandlersOf(subject[v])'
    BY <1>s, <1>4 DEF Calling, BusInv, TypeOK
  <1>5. ASSUME NEW t \in Threads, Acknowledge(t)
        PROVE Remaining(v)' \subseteq HandlersOf(subject[v])'
    BY <1>s, <1>5, <1>0 DEF Acknowledge, BusInv, TypeOK
  <1>6. ASSUME NEW t \in Threads, Die(t)
        PROVE Remaining(v)' \subseteq HandlersOf(subject[v])'
    BY <1>s, <1>6, <1>0 DEF Die, BusInv, TypeOK
  <1>7. ASSUME NEW t \in Threads, SaveTaskId(t) \/ EnqueueFails(t)
        PROVE Remaining(v)' \subseteq HandlersOf(subject[v])'
    BY <1>3, <1>7 DEF SaveTaskId, EnqueueFails, Emitting
  <1>8. ASSUME NEW t \in Threads, NEW h \in Handlers, HandlerReturns(t, h) \/ HandlerRaises(t, h)
        PROVE Remaining(v)' \subseteq HandlersOf(subject[v])'
    BY <1>4, <1>8 DEF HandlerReturns, HandlerRaises
  <1>9. ASSUME \/ \E r \in Requests, e \in Events : Emit(r, e) \/ Receive(r, e)
               \/ \E t \in Threads : \/ Enqueue(t) \/ Settle(t)
                                     \/ \E e \in Events : Route(t, e)
               \/ UNCHANGED vars
        PROVE Remaining(v)' \subseteq HandlersOf(subject[v])'
    BY <1>1, <1>9 DEF Emit, Receive, Enqueue, Settle, Route, vars
  <1>10. QED
    BY <1>2, <1>5, <1>6, <1>7, <1>8, <1>9, StepCases

-----------------------------------------------------------------------------
(* Every step is a step of the event's lifecycle, or none of it. *)

(* Only an event beyond the promise is worked on once it has settled.      *)
LEMMA WorkIsOpen ==
  ASSUME BusInv, PatientInv, NEW w \in Workers, pc[w] = "handling"
  PROVE  Event!Open(subject[w])
  <1>1. subject[w] \in Events /\ row[subject[w]] # "absent"
    BY DEF BusInv, LocalInv, RowInv, Threads
  <1>2. CASE subject[w] \in abandoned \/ ~(Retry > Timeout)
    BY <1>1, <1>2 DEF Event!Open, Event!MayRepeat
  <1>3. CASE subject[w] \notin abandoned /\ Retry > Timeout
    BY <1>1, <1>3 DEF PatientInv, QueuedInv, Waiting, Event!Open
  <1>4. QED
    BY <1>2, <1>3

LEMMA CalledGrows ==
  ASSUME BusInv, NEW e \in Events, NEW h \in Handlers, runs' = [runs EXCEPT ![e][h] = @ + 1]
  PROVE  CalledOf' = [CalledOf EXCEPT ![e] = @ \cup {h}]
  <1>1. \A f \in Events, g \in Handlers :
            runs'[f][g] > 0 <=> (runs[f][g] > 0 \/ (f = e /\ g = h))
    BY DEF BusInv, TypeOK
  <1>2. \A f \in Events : CalledOf'[f] = IF f = e THEN CalledOf[f] \cup {h} ELSE CalledOf[f]
    BY <1>1 DEF CalledOf
  <1>3. QED
    BY <1>2 DEF CalledOf

LEMMA SubscribersAreHandlers ==
  ASSUME BusInv, NEW e \in Events
  PROVE  [k \in Types |-> Range(Registry[k])][etype[e]] = HandlersOf(e)
  BY DEF BusInv, TypeOK, HandlersOf

LEMMA CallingIsCall ==
  ASSUME LifecycleInv, NEW t \in Threads, NEW h \in Handlers, Calling(t, h),
         NEW e \in Events, e = subject[t], UNCHANGED abandoned
  PROVE  Event!Call(e, h)
  <1>1. t \in Workers
    BY CallingTypes DEF LifecycleInv
  <1>2. Event!Open(e)
    BY <1>1, WorkIsOpen DEF LifecycleInv, Calling
  <1>3. h \in Remaining(t)
    BY TailRange DEF LifecycleInv, BusInv, TypeOK, Remaining, Calling
  <1>4. h \in [k \in Types |-> Range(Registry[k])][etype[e]]
    BY <1>1, <1>3, SubscribersAreHandlers DEF LifecycleInv, SubscribedInv
  <1>5. h \notin CalledOf[e] \/ Event!MayRepeat(e)
    <2>1. CASE e \in abandoned \/ ~(Retry > Timeout)
      BY <2>1 DEF Event!MayRepeat
    <2>2. CASE e \notin abandoned /\ Retry > Timeout
      BY <1>1, <1>3, <2>2
         DEF LifecycleInv, PatientInv, OnceInv, Once, Calling, Emitting, CalledOf
    <2>3. QED
      BY <2>1, <2>2
  <1>6. CalledOf' = [CalledOf EXCEPT ![e] = @ \cup {h}]
    BY <1>1, CalledGrows DEF LifecycleInv, Calling
  <1>7. QED
    BY <1>2, <1>4, <1>5, <1>6 DEF Event!Call, CalledOf

LEMMA HandlerIsHandle ==
  ASSUME LifecycleInv, NEW t \in Threads, NEW h \in Handlers,
         HandlerReturns(t, h) \/ HandlerRaises(t, h)
  PROVE  Event!Next
  <1>1. PICK e \in Events : e = subject[t]
    BY CallingTypes DEF LifecycleInv, HandlerReturns, HandlerRaises
  <1>2. Event!Call(e, h)
    BY <1>1, CallingIsCall DEF HandlerReturns, HandlerRaises
  <1>3. Event!Handle(e, h)
    BY <1>1, <1>2 DEF Event!Handle, HandlerReturns, HandlerRaises, rowVars
  <1>4. QED
    BY <1>3 DEF Event!Next

LEMMA RouteIsPublish ==
  ASSUME LifecycleInv, NEW t \in Threads, NEW c \in Events, Route(t, c)
  PROVE  Event!Next
  <1>1. PICK e \in Events : e = subject[t]
    BY CallingTypes DEF LifecycleInv, Route
  <1>2. Event!Call(e, Router)
    BY <1>1, CallingIsCall, BusAssumption DEF Route
  <1>3. Event!Publish(c, "routed", chain[e])
    BY <1>1 DEF Route, Create, NextKey, ChildChain, Event!Publish
  <1>4. Event!PublishFrom(e, c)
    BY <1>2, <1>3 DEF Event!PublishFrom, Route
  <1>5. QED
    BY <1>4 DEF Event!Next

LEMMA SettleIsSettle ==
  ASSUME LifecycleInv, NEW t \in Threads, Settle(t)
  PROVE  Event!Next
  <1> DEFINE e == subject[t]
             s == Outcome(t)
  <1>1. t \in Workers /\ e \in Events
    BY DEF LifecycleInv, BusInv, LocalInv, Settle
  <1>2. Event!Open(e)
    BY <1>1, WorkIsOpen DEF LifecycleInv, Settle
  <1>3. Called(t) /\ Remaining(t) = {}
    BY <1>1 DEF LifecycleInv, CallInv, Settle, AllCalled, Remaining, Range
  <1>4. HandlersOf(e) \subseteq CalledOf[e]
    BY <1>1, <1>3, HandlersOfType DEF Called, CalledOf, LifecycleInv
  <1>5. s = "dispatched" => HandlersOf(e) \subseteq clean[e]
    BY <1>3 DEF Called, Outcome
  <1>6. s \in {"dispatched", "failed"}
    BY DEF Outcome
  <1>7. /\ row' = [row EXCEPT ![e] = s]
        /\ CalledOf' = CalledOf /\ UNCHANGED <<etype, chain, clean, abandoned>>
    BY DEF Settle, CalledOf, historyVars
  <1>8. [k \in Types |-> Range(Registry[k])][etype[e]] = HandlersOf(e)
    BY <1>1, SubscribersAreHandlers DEF LifecycleInv
  <1> HIDE DEF s
  <1>9. Event!Settle(e, s)
    BY <1>2, <1>4, <1>5, <1>7, <1>8 DEF Event!Settle, CalledOf
  <1>10. QED
    BY <1>1, <1>6, <1>9 DEF Event!Next

(* When emit() is over, the router has returned; or no event has moved.    *)
LEMMA SaveIsReturn ==
  ASSUME LifecycleInv, NEW t \in Threads, SaveTaskId(t)
  PROVE  [Event!Next]_(Event!eventVars)
  <1>1. row' = row
    BY DEF LifecycleInv, BusInv, TypeOK, SaveTaskId, SavedStatus
  <1>2. CalledOf' = CalledOf /\ UNCHANGED <<etype, chain, abandoned>>
    BY DEF SaveTaskId, CalledOf
  <1>3. CASE t \in Workers
    <2>1. subject[t] \in Events /\ Called(t) /\ pc[t] \in Emitting
      BY <1>3 DEF LifecycleInv, BusInv, LocalInv, CallInv, SaveTaskId, Emitting
    <2>2. Router \in CalledOf[subject[t]]
      BY <2>1, BusAssumption DEF Called, CalledOf
    <2>3. clean' = [clean EXCEPT ![subject[t]] = @ \cup {Router}]
      BY <1>3 DEF SaveTaskId, EmitOver
    <2>4. Event!Return(subject[t])
      BY <1>1, <1>2, <2>2, <2>3 DEF Event!Return, CalledOf
    <2>5. QED
      BY <2>1, <2>4 DEF Event!Next
  <1>4. CASE t \notin Workers
    BY <1>1, <1>2, <1>4 DEF Event!eventVars, SaveTaskId, EmitOver, CalledOf
  <1>5. QED
    BY <1>3, <1>4

LEMMA DieIsAbandon ==
  ASSUME LifecycleInv, NEW t \in Threads, Die(t)
  PROVE  [Event!Next]_(Event!eventVars)
  <1>1. CalledOf' = CalledOf /\ UNCHANGED <<row, etype, chain, clean>>
    BY DEF Die, CalledOf, rowVars
  <1>2. CASE subject[t] \in Events
    <2>1. row[subject[t]] # "absent"
      BY <1>2 DEF LifecycleInv, BusInv, RowInv
    <2>2. abandoned' = abandoned \cup {subject[t]}
      BY <1>2 DEF Die
    <2>3. Event!Abandon(subject[t])
      BY <1>1, <2>1, <2>2 DEF Event!Abandon, CalledOf
    <2>4. QED
      BY <1>2, <2>3 DEF Event!Next
  <1>3. CASE subject[t] \notin Events
    <2>1. abandoned' = abandoned
      BY <1>3 DEF Die
    <2>2. QED
      BY <1>1, <2>1 DEF Event!eventVars, CalledOf
  <1>4. QED
    BY <1>2, <1>3

LEMMA StepImplementsEvent ==
  ASSUME LifecycleInv, [Next]_vars
  PROVE  [Event!Next]_(Event!eventVars)
  <1> USE DEF rowVars, brokerVars, threadVars, historyVars
  <1>1. ASSUME NEW r \in Requests, NEW e \in Events, Emit(r, e) PROVE Event!Next
    <2>1. Event!Begin(e)
      BY <1>1 DEF Emit, Create, NextKey, Event!Begin, Event!Publish
    <2>2. QED
      BY <2>1 DEF Event!Next
  <1>2. ASSUME NEW r \in Requests, NEW e \in Events, Receive(r, e) PROVE Event!Next
    <2>1. Event!Record(e)
      BY <1>2 DEF Receive, NextKey, Event!Record
    <2>2. QED
      BY <2>1 DEF Event!Next
  <1>3. ASSUME UNCHANGED <<rowVars, historyVars>> PROVE UNCHANGED Event!eventVars
    BY <1>3 DEF Event!eventVars
  <1>4. ASSUME NEW t \in Threads, EnqueueFails(t) PROVE UNCHANGED Event!eventVars
    BY <1>3, <1>4 DEF EnqueueFails, EmitOver
  <1>5. ASSUME \/ \E w \in Workers, e \in Events : Take(w, e)
               \/ \E t \in Threads : Enqueue(t) \/ Acknowledge(t)
               \/ UNCHANGED vars
        PROVE UNCHANGED Event!eventVars
    BY <1>3, <1>5 DEF Take, Enqueue, Acknowledge, vars
  <1>6. QED
    BY <1>1, <1>2, <1>4, <1>5, StepCases, HandlerIsHandle, RouteIsPublish, SettleIsSettle,
       SaveIsReturn, DieIsAbandon

-----------------------------------------------------------------------------
(* The theorems. *)

(* The rows, the tasks and the locals of every thread keep their types.    *)
THEOREM BusTypeCorrect == Spec => []TypeOK
  <1>1. BusInv => TypeOK
    BY DEF BusInv
  <1>2. QED
    BY <1>1, BusInvHolds, PTL

(* Saving the task id never puts an event back in the queue, although the  *)
(* worker may have settled the row since emit() read it.                   *)
NeverRequeued ==
    [][\A e \in Events : row[e] \in {"dispatched", "failed"} => row'[e] # "queued"]_row

(* No step takes a settled row back into the queue: emit()'s late save of  *)
(* the task id leaves alone the status a worker has written meanwhile.     *)
THEOREM BusNeverRequeued == Spec => NeverRequeued
  <1>1. BusInv /\ [Next]_vars =>
            [\A e \in Events : row[e] \in {"dispatched", "failed"} => row'[e] # "queued"]_row
    <2> SUFFICES ASSUME BusInv, [Next]_vars, NEW e \in Events,
                        row[e] \in {"dispatched", "failed"}
                 PROVE  row'[e] # "queued"
      OBVIOUS
    <2>1. CASE row'[e] = row[e]
      BY <2>1
    <2>2. CASE SettledBy(e)
      <3>1. PICK w \in Workers : Settle(w) /\ subject[w] = e
        BY <2>2 DEF SettledBy
      <3>2. QED
        BY <3>1 DEF Settle, Outcome, BusInv, TypeOK
    <2>3. QED
      BY <2>1, <2>2, RowMovesByStep DEF RowMoves
  <1>2. QED
    BY <1>1, BusInvHolds, PTL DEF Spec, NeverRequeued

(* The four invariants hold in every reachable state. *)
LEMMA CallInvHolds == Spec => []CallInv
  <1>1. Init => CallInv
    BY DEF Init, CallInv, Threads
  <1>2. BusInv /\ BusInv' /\ CallInv /\ [Next]_vars => CallInv'
    BY CallInvStep, KeptByStep
  <1>3. QED
    BY <1>1, <1>2, BusInvHolds, PTL DEF Spec

LEMMA RouteInvHolds == Spec => []RouteInv
  <1>1. Init => RouteInv
    BY DEF Init, RouteInv, Threads, Emitting
  <1>2. BusInv /\ BusInv' /\ RouteInv /\ [Next]_vars => RouteInv'
    BY RouteInvStep, KeptByStep
  <1>3. QED
    BY <1>1, <1>2, BusInvHolds, PTL DEF Spec

LEMMA EmitInvHolds == Spec => []EmitInv
  <1>1. Init => EmitInv
    BY BusAssumption DEF Init, EmitInv, Emitting
  <1>2. BusInv /\ BusInv' /\ EmitInv /\ [Next]_vars => EmitInv'
    BY EmitInvStep
  <1>3. QED
    BY <1>1, <1>2, BusInvHolds, PTL DEF Spec

(* Fail-open: an emitted event leaves the queue only after every handler   *)
(* of its type was called, and is "dispatched" only if each of them has    *)
(* returned cleanly, however often the event was delivered.                *)
SettledAfterHandlers ==
    \A e \in Events :
        Emitted(e) => /\ row[e] = "dispatched" => HandlersOf(e) \subseteq clean[e]
                      /\ row[e] = "failed" => \A h \in HandlersOf(e) : runs[e][h] > 0

(* An emitted event leaves the queue only once every handler of its type   *)
(* was called, and as "dispatched" only if each has returned cleanly.      *)
THEOREM BusSettledAfterHandlers == Spec => []SettledAfterHandlers
  <1>1. Init => SettledAfterHandlers
    BY DEF Init, SettledAfterHandlers
  <1>2. BusInv /\ BusInv' /\ CallInv /\ SettledAfterHandlers /\ [Next]_vars => SettledAfterHandlers'
    <2> DEFINE Good(e) == /\ row[e] = "dispatched" => HandlersOf(e) \subseteq clean[e]
                          /\ row[e] = "failed" => \A h \in HandlersOf(e) : runs[e][h] > 0
    <2> SUFFICES ASSUME BusInv, BusInv', CallInv, SettledAfterHandlers, [Next]_vars,
                        NEW e \in Events, Emitted(e)'
                 PROVE  Good(e)'
      BY DEF SettledAfterHandlers
    <2>1. Kept /\ RowMoves
      BY KeptByStep, RowMovesByStep
    <2>2. ASSUME row[e] # "absent", Good(e), row'[e] = row[e] PROVE Good(e)'
      <3>1. HandlersOf(e)' = HandlersOf(e) /\ HandlersOf(e) \subseteq Handlers
        BY <2>1, <2>2, HandlersOfType DEF Kept, HandlersOf
      <3>2. clean[e] \subseteq clean'[e] /\ \A h \in Handlers : runs[e][h] > 0 => runs'[e][h] > 0
        BY <2>1 DEF Kept, BusInv, TypeOK
      <3>3. QED
        BY <2>2, <3>1, <3>2
    <2>3. CASE row'[e] = row[e]
      <3>1. CASE row[e] = "absent"
        BY <2>3, <3>1
      <3>2. CASE row[e] # "absent"
        <4>1. Emitted(e)
          BY <2>1, <3>2 DEF Emitted, Kept
        <4>2. QED
          BY <2>2, <2>3, <3>2, <4>1 DEF SettledAfterHandlers
      <3>3. QED
        BY <3>1, <3>2
    <2>4. CASE row'[e] = "queued"
      BY <2>4
    <2>5. CASE SettledBy(e)
      <3>1. PICK w \in Workers : Settle(w) /\ subject[w] = e
        BY <2>5 DEF SettledBy
      <3>2. /\ Called(w) /\ left[w] = <<>> /\ UNCHANGED <<etype, runs, clean>>
            /\ row'[e] = IF erred[w] THEN "failed" ELSE "dispatched"
        BY <3>1 DEF Settle, AllCalled, Outcome, CallInv, BusInv, TypeOK, historyVars
      <3>3. Remaining(w) = {}
        BY <3>2 DEF Remaining, Range
      <3>4. \A h \in HandlersOf(e) : runs[e][h] > 0 /\ (erred[w] \/ h \in clean[e])
        BY <3>1, <3>2, <3>3 DEF Called
      <3>5. HandlersOf(e)' = HandlersOf(e)
        BY <3>2 DEF HandlersOf
      <3>6. QED
        BY <3>2, <3>4, <3>5
    <2>6. QED
      BY <2>1, <2>3, <2>4, <2>5 DEF RowMoves
  <1>3. QED
    BY <1>1, <1>2, BusInvHolds, CallInvHolds, PTL DEF Spec

(* An inbound event that is "dispatched" has a child in its causal chain,  *)
(* whose task has reached the broker.                                      *)
THEOREM BusDispatchedWasRouted == Spec => []DispatchedWasRouted
  <1>1. SettledAfterHandlers /\ RouteInv => DispatchedWasRouted
    BY DEF SettledAfterHandlers, RouteInv, DispatchedWasRouted
  <1>2. QED
    BY <1>1, BusSettledAfterHandlers, RouteInvHolds, PTL

(* If the broker waits longer than a worker may take, a handler runs twice *)
(* for an event only after a worker died on it.                            *)
THEOREM BusRerunNeedsDeath ==
  ASSUME Retry > Timeout
  PROVE  Spec => []RerunNeedsDeath
  <1>1. Init => OnceInv
    BY InitOnceInv
  <1>2. BusInv /\ BusInv' /\ EmitInv /\ OnceInv /\ [Next]_vars => OnceInv'
    BY OnceInvStep
  <1>3. BusInv /\ OnceInv => RerunNeedsDeath
    BY DEF BusInv, TypeOK, OnceInv, Once, RerunNeedsDeath
  <1>4. QED
    BY <1>1, <1>2, <1>3, BusInvHolds, EmitInvHolds, PTL DEF Spec

(* The bus implements the lifecycle of an event: each handler subscribed   *)
(* to it is called before it settles; and if the broker waits longer than  *)
(* a worker may take, an event none of whose workers died has each of them *)
(* called once and settles once.                                           *)
THEOREM BusImplementsEventLifecycle == Spec => ImplementsEventLifecycle
  <1>1. Init => SubscribedInv /\ QueuedInv /\ Event!Init
    <2> SUFFICES ASSUME Init PROVE SubscribedInv /\ QueuedInv /\ Event!Init
      OBVIOUS
    <2>1. SubscribedInv /\ QueuedInv
      BY BusAssumption DEF Init, SubscribedInv, QueuedInv, Waiting, Threads
    <2>2. CalledOf = [e \in Events |-> {}]
      BY DEF Init, CalledOf
    <2>3. Event!Init
      BY <2>2 DEF Init, Event!Init, CalledOf
    <2>4. QED
      BY <2>1, <2>3
  <1>2. BusInv /\ BusInv' /\ SubscribedInv /\ [Next]_vars => SubscribedInv'
    BY SubscribedInvStep, KeptByStep
  <1>3. BusInv /\ BusInv' /\ EmitInv /\ PatientInv /\ [Next]_vars => PatientInv'
    BY OnceInvStep, QueuedInvStep DEF PatientInv
  <1>4. Init => PatientInv
    BY <1>1, InitOnceInv DEF PatientInv
  <1>5. BusInv /\ CallInv /\ SubscribedInv /\ PatientInv /\ [Next]_vars =>
            [Event!Next]_(Event!eventVars)
    BY StepImplementsEvent DEF LifecycleInv
  <1>6. QED
    BY <1>1, <1>2, <1>3, <1>4, <1>5, BusInvHolds, EmitInvHolds, CallInvHolds, PTL
       DEF Spec, ImplementsEventLifecycle, Event!Spec

-----------------------------------------------------------------------------
(* A queued event that has a task, if no thread dies and the broker takes  *)
(* every task.                                                             *)
HasTask(e) == \/ \E t \in Threads : pc[t] = "created" /\ child[t] = e
              \/ task[e] = "waiting"
              \/ Held(e)

HasTaskInv == /\ \A e \in Events : row[e] = "queued" => HasTask(e)
              /\ \A w \in Workers : pc[w] = "settled" => row[subject[w]] # "queued"

LEMMA HasTaskKept ==
  ASSUME NEW e, HasTask(e),
         \A t \in Threads : pc[t] = "created" /\ child[t] = e =>
             \/ pc'[t] = "created" /\ child'[t] = e
             \/ task'[e] = "waiting",
         task[e] = "waiting" => task'[e] = "waiting" \/ Held(e)',
         \A w \in Workers : subject[w] = e => subject'[w] = e
  PROVE  HasTask(e)'
  BY DEF HasTask, Held

LEMMA HasTaskInvStep ==
  ASSUME BusInv, BusInv', EmitInv, Kept, RowMoves, HasTaskInv, [Next]_vars,
         Mortal = {}, ~BrokerFails
  PROVE  HasTaskInv'
  <1>0. Requests \cap Workers = {} /\ NoEvent \notin Events
    BY BusAssumption
  <1> USE DEF rowVars, brokerVars, threadVars, historyVars, Threads
  <1>a. ASSUME NEW w \in Workers, pc'[w] = "settled" PROVE row'[subject'[w]] # "queued"
    <2>1. CASE Settle(w)
      <3>1. subject' = subject /\ subject[w] \in Events /\ row'[subject[w]] = Outcome(w)
        BY <2>1 DEF Settle, BusInv, TypeOK, LocalInv
      <3>2. QED
        BY <3>1 DEF Outcome
    <2>2. CASE ~Settle(w)
      <3>1. pc[w] = "settled" /\ subject'[w] = subject[w]
        <4> USE DEF BusInv, TypeOK
        <4> DEFINE Stays == pc[w] = "settled" /\ subject'[w] = subject[w]
        <4>1. ASSUME NEW t \in Threads, NEW f \in Events, NEW type, NEW from, NEW chainId,
                     Create(t, f, type, from, chainId), UNCHANGED subject
              PROVE  Stays
          BY <1>a, <4>1 DEF Create
        <4>2. ASSUME NEW u \in Workers, NEW f \in Events, Take(u, f)
              PROVE  Stays
          BY <1>a, <4>2 DEF Take
        <4>3. ASSUME NEW t \in Threads, NEW ok, EmitOver(t, ok), UNCHANGED subject
              PROVE  Stays
          BY <1>a, <4>3 DEF EmitOver
        <4>4. ASSUME UNCHANGED <<pc, subject>>
              PROVE  Stays
          BY <1>a, <4>4
        <4>5. ASSUME NEW t \in Threads, Enqueue(t) \/ Settle(t) \/ Acknowledge(t) \/ Die(t)
              PROVE  Stays
          BY <1>a, <2>2, <4>5 DEF Enqueue, Settle, Acknowledge, Die
        <4>6. ASSUME NEW r \in Requests, NEW f \in Events, Emit(r, f)
              PROVE  Stays
          BY <4>1, <4>6 DEF Emit
        <4>7. ASSUME NEW t \in Threads, NEW f \in Events, Route(t, f)
              PROVE  Stays
          BY <4>1, <4>7 DEF Route
        <4>8. ASSUME NEW t \in Threads, SaveTaskId(t) \/ EnqueueFails(t)
              PROVE  Stays
          BY <4>3, <4>8 DEF SaveTaskId, EnqueueFails
        <4>9. ASSUME NEW t \in Threads, NEW h \in Handlers, HandlerReturns(t, h) \/ HandlerRaises(t, h)
              PROVE  Stays
          BY <4>4, <4>9 DEF HandlerReturns, HandlerRaises
        <4>10. ASSUME NEW r \in Requests, NEW f \in Events, Receive(r, f) 
              PROVE  Stays
          BY <4>4, <4>10 DEF Receive
        <4>11. ASSUME UNCHANGED vars
              PROVE  Stays
          BY <4>4, <4>11 DEF vars
        <4>12. QED
          BY <4>2, <4>5, <4>6, <4>7, <4>8, <4>9, <4>10, <4>11, StepCases
      <3>2. subject[w] \in Events /\ row[subject[w]] \notin {"queued", "absent"}
        BY <3>1 DEF HasTaskInv, BusInv, LocalInv, RowInv
      <3>3. ASSUME SettledBy(subject[w]) PROVE row'[subject[w]] # "queued"
        BY <3>2, <3>3 DEF SettledBy, Settle, Outcome, BusInv, TypeOK
      <3>4. QED
        BY <3>1, <3>2, <3>3 DEF RowMoves
    <2>3. QED
      BY <2>1, <2>2
  <1>b. ASSUME NEW e \in Events, row'[e] = "queued" PROVE HasTask(e)'
    <2>1. CASE row[e] # "queued"
      <3>1. row[e] = "absent"
        <4>1. ~SettledBy(e)
          BY <1>b DEF SettledBy, Settle, Outcome, BusInv, TypeOK
        <4>2. QED
          BY <1>b, <2>1, <4>1 DEF RowMoves
      <3>2. PICK t \in Threads : \E type, from, chainId : Create(t, e, type, from, chainId)
        <4> USE DEF BusInv, TypeOK
        <4>1. ASSUME NEW r \in Requests, NEW f \in Events, Emit(r, f) PROVE f = e
          BY <1>b, <3>1, <4>1 DEF Emit, Create
        <4>2. ASSUME NEW t \in Threads, NEW f \in Events, Route(t, f) PROVE f = e
          BY <1>b, <3>1, <4>2 DEF Route, Create
        <4>3. \A r \in Requests, f \in Events : ~Receive(r, f)
          BY <1>b, <3>1 DEF Receive
        <4>4. \A t \in Threads : ~Settle(t)
          BY <1>b, <3>1 DEF Settle, Outcome
        <4>5. row' # row /\ \A t \in Threads : ~SaveTaskId(t)
          BY <1>b, <3>1 DEF SaveTaskId, SavedStatus
        <4>6. (\E r \in Requests : Emit(r, e)) \/ (\E t \in Threads : Route(t, e))
          BY <4>1, <4>2, <4>3, <4>4, <4>5, StepCases
             DEF Take, Enqueue, EnqueueFails, HandlerReturns, HandlerRaises, Acknowledge, Die, vars
        <4>7. QED
          BY <4>6 DEF Emit, Route
      <3>3. pc'[t] = "created" /\ child'[t] = e
        BY <3>2 DEF Create, BusInv, TypeOK
      <3>4. QED
        BY <3>3 DEF HasTask
    <2>2. CASE row[e] = "queued"
      <3>0. HasTask(e) /\ row[e] = "queued"
        BY <2>2 DEF HasTaskInv
      <3> DEFINE Same == /\ \A t \in Threads : pc[t] = "created" /\ child[t] = e =>
                                \/ pc'[t] = "created" /\ child'[t] = e
                                \/ task'[e] = "waiting"
                         /\ task[e] = "waiting" => task'[e] = "waiting" \/ Held(e)'
                         /\ \A w \in Workers : subject[w] = e => subject'[w] = e
      <3>s. ASSUME Same PROVE HasTask(e)'
        BY <3>0, <3>s, HasTaskKept
      <3> HIDE DEF Same
      <3>1. ASSUME NEW r \in Requests, NEW f \in Events, Emit(r, f) \/ Receive(r, f)
            PROVE  Same
        BY <3>1 DEF Same, BusInv, TypeOK, Emit, Create, Receive
      <3>2. ASSUME NEW w \in Workers, NEW f \in Events, Take(w, f) PROVE Same
        BY <3>2, <1>0 DEF Same, Held, BusInv, TypeOK, LocalInv, Take
      <3>3. ASSUME NEW t \in Threads, Enqueue(t) PROVE Same
        BY <3>3 DEF Same, BusInv, TypeOK, Enqueue, NewTask
      <3>4. ASSUME NEW t \in Threads, SaveTaskId(t) PROVE Same
        BY <3>4 DEF Same, BusInv, TypeOK, SaveTaskId, EmitOver
      <3>5. ASSUME NEW t \in Threads, NEW h \in Handlers,
                   HandlerReturns(t, h) \/ HandlerRaises(t, h)
            PROVE  Same
        BY <3>5 DEF Same, HandlerReturns, HandlerRaises
      <3>6. ASSUME NEW t \in Threads, NEW f \in Events, Route(t, f) PROVE Same
        BY <3>6 DEF Same, BusInv, TypeOK, Route, Create, Calling
      <3>7. ASSUME NEW t \in Threads, Settle(t) PROVE Same
        BY <3>7 DEF Same, BusInv, TypeOK, Settle
      <3>8. ASSUME NEW t \in Threads, Acknowledge(t) PROVE Same
        <4>1. /\ t \in Workers /\ subject[t] \in Events /\ pc[t] = "settled"
              /\ row[subject[t]] # "queued" /\ task[subject[t]] # "none"
          BY <3>8 DEF Acknowledge, HasTaskInv, BusInv, LocalInv, EmitInv
        <4>2. QED
          BY <3>8, <3>0, <4>1 DEF Same, BusInv, TypeOK, Acknowledge
      <3>9. ASSUME UNCHANGED vars PROVE Same
        BY <3>9 DEF Same, vars
      <3>10. \A t \in Threads : ~EnqueueFails(t) /\ ~Die(t)
        BY DEF EnqueueFails, Die
      <3>11. QED
        BY <3>s, <3>1, <3>2, <3>3, <3>4, <3>5, <3>6, <3>7, <3>8, <3>9, <3>10, StepCases
    <2>3. QED
      BY <2>1, <2>2
  <1>1. QED
    BY <1>a, <1>b DEF HasTaskInv

(* What the docstring promises of every queued row holds where no thread   *)
(* dies and the broker takes every task: the deaths and the refusals of    *)
(* the broker are the only ways to an event nothing will run.              *)
THEOREM BusQueuedHasTask ==
  ASSUME Mortal = {}, ~BrokerFails
  PROVE  Spec => []QueuedHasTask
  <1>1. Init => HasTaskInv
    BY DEF Init, HasTaskInv, Threads
  <1>2. BusInv /\ BusInv' /\ EmitInv /\ HasTaskInv /\ [Next]_vars => HasTaskInv'
    BY HasTaskInvStep, KeptByStep, RowMovesByStep
  <1>3. HasTaskInv => QueuedHasTask
    BY DEF HasTaskInv, HasTask, QueuedHasTask
  <1>4. QED
    BY <1>1, <1>2, <1>3, BusInvHolds, EmitInvHolds, PTL DEF Spec
=============================================================================
