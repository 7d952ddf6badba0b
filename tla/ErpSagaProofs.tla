--------------------------- MODULE ErpSagaProofs ----------------------------
(***************************************************************************)
(* Proofs about ErpSaga for every set of runners, operations and moves,    *)
(* every max_attempts and every choice of retryable failures, with or      *)
(* without process deaths.                                                 *)
(***************************************************************************)
EXTENDS ErpSaga, FiniteSetTheorems, TLAPS

(* A runner inside the saga holds an operation that is in flight, shares   *)
(* it with nobody, and has counted its attempts in it.                     *)
Busy == {"calling", "created", "posted", "sleeping"}

Counted(r) ==
    LET n == IF pc[r] = "sleeping" THEN attempt[r] - 1 ELSE attempt[r] - 2
    IN  retryCount[cur[r]] = IF n < 0 THEN 0 ELSE n

RunnerInv ==
    \A r \in Runners :
        /\ pc[r] # "idle" => cur[r] \in Ops
        /\ pc[r] \in Busy => /\ opStatus[cur[r]] = "in_flight"
                             /\ attempt[r] > 0
                             /\ Counted(r)
                             /\ pc[r] = "sleeping" => attempt[r] < MaxAttempts
        /\ pc[r] = "returned" => opStatus[cur[r]] \in Terminal

NotShared ==
    \A r, q \in Runners :
        r # q /\ pc[r] # "idle" /\ pc[q] # "idle" => cur[r] # cur[q]

(* The move a runner made in this attempt is its operation's, in the state *)
(* the runner believes it is in.                                           *)
MadeInv ==
    \A r \in Runners :
        /\ pc[r] \in {"created", "posted"} => /\ made[r] \in Moves
                                              /\ madeBy[made[r]] = cur[r]
        /\ pc[r] = "created" => moveState[made[r]] = "draft"
        /\ pc[r] = "posted" => moveState[made[r]] = "posted"

UnusedOps == \A o \in Ops : opStatus[o] = "absent" => retryCount[o] = 0

SagaInv == SagaTypeOK /\ RunnerInv /\ NotShared /\ MadeInv /\ UnusedOps
                      /\ SuccessIsPosted

LEMMA InitSagaInv == SagaInit => SagaInv
  BY SagaAssumption
  DEF SagaInit, SagaInv, SagaTypeOK, RunnerInv, NotShared, MadeInv, UnusedOps,
      SuccessIsPosted, OpStatuses, Busy

LEMMA BeginInv ==
  ASSUME SagaInv, NEW r \in Runners, NEW o \in Ops, Begin(r, o)
  PROVE  SagaInv'
  <1> USE SagaAssumption DEF SagaInv, OpStatuses, Causes, InFunc, Busy, erpVars
  <1>1. SagaTypeOK'
    BY DEF SagaTypeOK, Begin
  <1>2. RunnerInv'
    BY DEF SagaTypeOK, RunnerInv, NotShared, UnusedOps, Begin, Counted, Terminal
  <1>3. NotShared'
    BY DEF SagaTypeOK, RunnerInv, NotShared, Begin, Terminal
  <1>4. MadeInv'
    BY DEF SagaTypeOK, MadeInv, Begin
  <1>5. UnusedOps' /\ SuccessIsPosted'
    BY DEF SagaTypeOK, UnusedOps, SuccessIsPosted, Begin
  <1>6. QED
    BY <1>1, <1>2, <1>3, <1>4, <1>5

LEMMA CreateMoveInv ==
  ASSUME SagaInv, NEW r \in Runners, NEW m \in Moves, CreateMove(r, m)
  PROVE  SagaInv'
  <1> USE SagaAssumption DEF SagaInv, OpStatuses, Causes, InFunc, Busy, Terminal,
                             rowVars, erpVars, CreateMove
  <1>1. SagaTypeOK'
    BY DEF SagaTypeOK, RunnerInv, MadeInv
  <1>2. RunnerInv'
    BY DEF SagaTypeOK, RunnerInv, NotShared, Counted
  <1>3. NotShared'
    BY DEF SagaTypeOK, RunnerInv, NotShared
  <1>4. MadeInv'
    BY DEF SagaTypeOK, RunnerInv, NotShared, MadeInv
  <1>5. UnusedOps'
    BY DEF SagaTypeOK, RunnerInv, UnusedOps
  <1>6. SuccessIsPosted'
    BY DEF SagaTypeOK, RunnerInv, NotShared, MadeInv, SuccessIsPosted
  <1>7. QED
    BY <1>1, <1>2, <1>3, <1>4, <1>5, <1>6

LEMMA PostMoveInv ==
  ASSUME SagaInv, NEW r \in Runners, PostMove(r)
  PROVE  SagaInv'
  <1> USE SagaAssumption DEF SagaInv, OpStatuses, Causes, InFunc, Busy, Terminal,
                             rowVars, erpVars, PostMove
  <1>1. SagaTypeOK'
    BY DEF SagaTypeOK, RunnerInv, MadeInv
  <1>2. RunnerInv'
    BY DEF SagaTypeOK, RunnerInv, NotShared, Counted
  <1>3. NotShared'
    BY DEF SagaTypeOK, RunnerInv, NotShared
  <1>4. MadeInv'
    BY DEF SagaTypeOK, RunnerInv, NotShared, MadeInv
  <1>5. UnusedOps'
    BY DEF SagaTypeOK, RunnerInv, UnusedOps
  <1>6. SuccessIsPosted'
    BY DEF SagaTypeOK, RunnerInv, NotShared, MadeInv, SuccessIsPosted
  <1>7. QED
    BY <1>1, <1>2, <1>3, <1>4, <1>5, <1>6

LEMMA RecordSuccessInv ==
  ASSUME SagaInv, NEW r \in Runners, RecordSuccess(r)
  PROVE  SagaInv'
  <1> USE SagaAssumption DEF SagaInv, OpStatuses, Causes, InFunc, Busy, Terminal,
                             rowVars, erpVars, RecordSuccess, Answered, RetriesSoFar
  <1>1. SagaTypeOK'
    BY DEF SagaTypeOK, RunnerInv, MadeInv
  <1>2. RunnerInv'
    BY DEF SagaTypeOK, RunnerInv, NotShared, Counted
  <1>3. NotShared'
    BY DEF SagaTypeOK, RunnerInv, NotShared
  <1>4. MadeInv'
    BY DEF SagaTypeOK, RunnerInv, NotShared, MadeInv
  <1>5. UnusedOps'
    BY DEF SagaTypeOK, RunnerInv, UnusedOps
  <1>6. SuccessIsPosted'
    BY DEF SagaTypeOK, RunnerInv, NotShared, MadeInv, SuccessIsPosted
  <1>7. QED
    BY <1>1, <1>2, <1>3, <1>4, <1>5, <1>6

LEMMA BackOffInv ==
  ASSUME SagaInv, NEW r \in Runners, NEW c \in Causes, BackOff(r, c)
  PROVE  SagaInv'
  <1> USE SagaAssumption DEF SagaInv, OpStatuses, Causes, InFunc, Busy, Terminal,
                             rowVars, erpVars, BackOff, Raised, RetriesSoFar, Exhausted
  <1>1. SagaTypeOK'
    BY DEF SagaTypeOK, RunnerInv, MadeInv
  <1>2. RunnerInv'
    BY DEF SagaTypeOK, RunnerInv, NotShared, Counted
  <1>3. NotShared'
    BY DEF SagaTypeOK, RunnerInv, NotShared
  <1>4. MadeInv'
    BY DEF SagaTypeOK, RunnerInv, NotShared, MadeInv
  <1>5. UnusedOps'
    BY DEF SagaTypeOK, RunnerInv, UnusedOps
  <1>6. SuccessIsPosted'
    BY DEF SagaTypeOK, RunnerInv, NotShared, MadeInv, SuccessIsPosted
  <1>7. QED
    BY <1>1, <1>2, <1>3, <1>4, <1>5, <1>6

LEMMA EscalateInv ==
  ASSUME SagaInv, NEW r \in Runners, NEW c \in Causes, Escalate(r, c)
  PROVE  SagaInv'
  <1> USE SagaAssumption DEF SagaInv, OpStatuses, Causes, InFunc, Busy, Terminal,
                             rowVars, erpVars, Escalate, Raised, RetriesSoFar, Exhausted, EscalatedStatus
  <1>1. SagaTypeOK'
    BY DEF SagaTypeOK, RunnerInv, MadeInv
  <1>2. RunnerInv'
    BY DEF SagaTypeOK, RunnerInv, NotShared, Counted
  <1>3. NotShared'
    BY DEF SagaTypeOK, RunnerInv, NotShared
  <1>4. MadeInv'
    BY DEF SagaTypeOK, RunnerInv, NotShared, MadeInv
  <1>5. UnusedOps'
    BY DEF SagaTypeOK, RunnerInv, UnusedOps
  <1>6. SuccessIsPosted'
    BY DEF SagaTypeOK, RunnerInv, NotShared, MadeInv, SuccessIsPosted
  <1>7. QED
    BY <1>1, <1>2, <1>3, <1>4, <1>5, <1>6

LEMMA FailFastInv ==
  ASSUME SagaInv, NEW r \in Runners, NEW c \in Causes, FailFast(r, c)
  PROVE  SagaInv'
  <1> USE SagaAssumption DEF SagaInv, OpStatuses, Causes, InFunc, Busy, Terminal,
                             rowVars, erpVars, FailFast, Raised, RetriesSoFar
  <1>1. SagaTypeOK'
    BY DEF SagaTypeOK, RunnerInv, MadeInv
  <1>2. RunnerInv'
    BY DEF SagaTypeOK, RunnerInv, NotShared, Counted
  <1>3. NotShared'
    BY DEF SagaTypeOK, RunnerInv, NotShared
  <1>4. MadeInv'
    BY DEF SagaTypeOK, RunnerInv, NotShared, MadeInv
  <1>5. UnusedOps'
    BY DEF SagaTypeOK, RunnerInv, UnusedOps
  <1>6. SuccessIsPosted'
    BY DEF SagaTypeOK, RunnerInv, NotShared, MadeInv, SuccessIsPosted
  <1>7. QED
    BY <1>1, <1>2, <1>3, <1>4, <1>5, <1>6

LEMMA WakeInv ==
  ASSUME SagaInv, NEW r \in Runners, Wake(r)
  PROVE  SagaInv'
  <1> USE SagaAssumption DEF SagaInv, OpStatuses, Causes, InFunc, Busy, Terminal,
                             rowVars, erpVars, Wake
  <1>1. SagaTypeOK'
    BY DEF SagaTypeOK, RunnerInv, MadeInv
  <1>2. RunnerInv'
    BY DEF SagaTypeOK, RunnerInv, NotShared, Counted
  <1>3. NotShared'
    BY DEF SagaTypeOK, RunnerInv, NotShared
  <1>4. MadeInv'
    BY DEF SagaTypeOK, RunnerInv, NotShared, MadeInv
  <1>5. UnusedOps'
    BY DEF SagaTypeOK, RunnerInv, UnusedOps
  <1>6. SuccessIsPosted'
    BY DEF SagaTypeOK, RunnerInv, NotShared, MadeInv, SuccessIsPosted
  <1>7. QED
    BY <1>1, <1>2, <1>3, <1>4, <1>5, <1>6

LEMMA LeaveInv ==
  ASSUME SagaInv, NEW r \in Runners, Leave(r)
  PROVE  SagaInv'
  <1> USE SagaAssumption DEF SagaInv, OpStatuses, Causes, InFunc, Busy, Terminal,
                             rowVars, erpVars, Leave
  <1>1. SagaTypeOK'
    BY DEF SagaTypeOK, RunnerInv, MadeInv
  <1>2. RunnerInv'
    BY DEF SagaTypeOK, RunnerInv, NotShared, Counted
  <1>3. NotShared'
    BY DEF SagaTypeOK, RunnerInv, NotShared
  <1>4. MadeInv'
    BY DEF SagaTypeOK, RunnerInv, NotShared, MadeInv
  <1>5. UnusedOps'
    BY DEF SagaTypeOK, RunnerInv, UnusedOps
  <1>6. SuccessIsPosted'
    BY DEF SagaTypeOK, RunnerInv, NotShared, MadeInv, SuccessIsPosted
  <1>7. QED
    BY <1>1, <1>2, <1>3, <1>4, <1>5, <1>6

LEMMA CrashInv ==
  ASSUME SagaInv, NEW r \in Runners, Crash(r)
  PROVE  SagaInv'
  <1> USE SagaAssumption DEF SagaInv, OpStatuses, Causes, InFunc, Busy, Terminal,
                             rowVars, erpVars, Crash
  <1>1. SagaTypeOK'
    BY DEF SagaTypeOK, RunnerInv, MadeInv
  <1>2. RunnerInv'
    BY DEF SagaTypeOK, RunnerInv, NotShared, Counted
  <1>3. NotShared'
    BY DEF SagaTypeOK, RunnerInv, NotShared
  <1>4. MadeInv'
    BY DEF SagaTypeOK, RunnerInv, NotShared, MadeInv
  <1>5. UnusedOps'
    BY DEF SagaTypeOK, RunnerInv, UnusedOps
  <1>6. SuccessIsPosted'
    BY DEF SagaTypeOK, RunnerInv, NotShared, MadeInv, SuccessIsPosted
  <1>7. QED
    BY <1>1, <1>2, <1>3, <1>4, <1>5, <1>6

(* One step of the saga preserves the invariant. *)
LEMMA SagaNextInv == SagaInv /\ [SagaNext]_sagaVars => SagaInv'
  <1> SUFFICES ASSUME SagaInv, [SagaNext]_sagaVars
               PROVE  SagaInv'
    OBVIOUS
  <1>1. ASSUME NEW r \in Runners, NEW o \in Ops, Begin(r, o)
        PROVE  SagaInv'
    BY <1>1, BeginInv
  <1>2. ASSUME NEW r \in Runners, SagaStep(r)
        PROVE  SagaInv'
    BY <1>2, CreateMoveInv, PostMoveInv, RecordSuccessInv, BackOffInv,
       EscalateInv, FailFastInv, WakeInv DEF SagaStep
  <1>3. ASSUME NEW r \in Runners, Leave(r) \/ Crash(r)
        PROVE  SagaInv'
    BY <1>3, LeaveInv, CrashInv
  <1>4. CASE UNCHANGED sagaVars
    BY <1>4 DEF sagaVars, rowVars, erpVars, localVars, SagaInv, SagaTypeOK,
                RunnerInv, NotShared, MadeInv, UnusedOps, SuccessIsPosted, Counted
  <1>5. QED
    BY <1>1, <1>2, <1>3, <1>4 DEF SagaNext

(* The inductive invariant holds in every reachable state of the saga. *)
THEOREM SagaInvariant == SagaSpec => []SagaInv
  <1>1. SagaInit => SagaInv
    BY InitSagaInv
  <1>2. SagaInv /\ [SagaNext]_sagaVars => SagaInv'
    BY SagaNextInv
  <1>3. QED
    BY <1>1, <1>2, PTL DEF SagaSpec

(* run_erp_operation keeps every row and local variable in its type; in    *)
(* particular retry_count never reaches max_attempts.                      *)
THEOREM SagaTypeCorrect == SagaSpec => []SagaTypeOK
  BY SagaInvariant, PTL DEF SagaInv

(* An operation recorded as a success names a posted move of its own,      *)
(* whatever fails, retries or dies around it.                              *)
THEOREM SagaSuccessIsPosted == SagaSpec => []SuccessIsPosted
  BY SagaInvariant, PTL DEF SagaInv

-----------------------------------------------------------------------------
(* Refinement: the row of an operation follows OperationLifecycle. *)

LEMMA StepImplementsLifecycle ==
  ASSUME SagaInv, [SagaNext]_sagaVars
  PROVE  [Lifecycle!Next]_(Lifecycle!opVars)
  <1> USE SagaAssumption DEF SagaInv, SagaTypeOK, Lifecycle!opVars, rowVars,
                             Busy, InFunc
  <1>1. ASSUME NEW r \in Runners, NEW o \in Ops, Begin(r, o)
        PROVE  Lifecycle!Create(o)
    BY <1>1 DEF Begin, Lifecycle!Create
  <1>0. ASSUME NEW r \in Runners, pc[r] \in InFunc
        PROVE  /\ cur[r] \in Ops
               /\ opStatus[cur[r]] = "in_flight"
               /\ attempt[r] - 1 \in {retryCount[cur[r]], retryCount[cur[r]] + 1}
               /\ attempt[r] - 1 < MaxAttempts
    BY <1>0 DEF RunnerInv, Counted
  <1>2. ASSUME NEW r \in Runners, RecordSuccess(r)
        PROVE  Lifecycle!Finish(cur[r])
    <2>1. /\ opStatus' = [opStatus EXCEPT ![cur[r]] = "success"]
          /\ retryCount' = [retryCount EXCEPT ![cur[r]] = attempt[r] - 1]
          /\ pc[r] \in InFunc
      BY <1>2 DEF RecordSuccess, Answered, RetriesSoFar
    <2>2. QED
      BY <2>1, <1>0 DEF Lifecycle!Finish, Lifecycle!Terminal
  <1>3. ASSUME NEW r \in Runners, NEW c \in Causes, Escalate(r, c) \/ FailFast(r, c)
        PROVE  Lifecycle!Finish(cur[r])
    <2>1. PICK s \in {"escalated", "failed"} :
             /\ opStatus' = [opStatus EXCEPT ![cur[r]] = s]
             /\ s = "escalated" => attempt[r] = MaxAttempts
      BY <1>3 DEF Escalate, FailFast, Exhausted, EscalatedStatus
    <2>2. /\ retryCount' = [retryCount EXCEPT ![cur[r]] = attempt[r] - 1]
          /\ pc[r] \in InFunc
      BY <1>3 DEF Escalate, FailFast, Raised, RetriesSoFar
    <2>3. QED
      BY <2>1, <2>2, <1>0 DEF Lifecycle!Finish, Lifecycle!Terminal
  <1>4. ASSUME NEW r \in Runners, NEW c \in Causes, BackOff(r, c)
        PROVE  Lifecycle!Retry(cur[r]) \/ UNCHANGED <<opStatus, retryCount>>
    <2>1. /\ retryCount' = [retryCount EXCEPT ![cur[r]] = attempt[r] - 1]
          /\ pc[r] \in InFunc
          /\ attempt[r] < MaxAttempts
          /\ UNCHANGED opStatus
      BY <1>4 DEF BackOff, Raised, RetriesSoFar, Exhausted
    <2>2. CASE attempt[r] - 1 = retryCount[cur[r]]
      BY <2>1, <2>2, <1>0
    <2>3. CASE attempt[r] - 1 = retryCount[cur[r]] + 1
      <3>1. retryCount' = [retryCount EXCEPT ![cur[r]] = @ + 1]
        BY <2>1, <2>3
      <3>2. /\ opStatus[cur[r]] = "in_flight"
            /\ retryCount[cur[r]] + 2 < MaxAttempts
        BY <2>1, <2>3, <1>0
      <3>3. QED
        BY <2>1, <3>1, <3>2 DEF Lifecycle!Retry
    <2>4. QED
      BY <2>1, <2>2, <2>3, <1>0
  <1>5. ASSUME NEW r \in Runners, NEW m \in Moves,
               CreateMove(r, m) \/ PostMove(r) \/ Wake(r) \/ Leave(r) \/ Crash(r)
        PROVE  UNCHANGED <<opStatus, retryCount>>
    BY <1>5 DEF CreateMove, PostMove, Wake, Leave, Crash
  <1>6. ASSUME NEW r \in Runners, PostMove(r) \/ Wake(r) \/ Leave(r) \/ Crash(r)
        PROVE  UNCHANGED <<opStatus, retryCount>>
    BY <1>6 DEF PostMove, Wake, Leave, Crash
  <1>7. CASE UNCHANGED sagaVars
    BY <1>7 DEF sagaVars
  <1>8. ASSUME NEW r \in Runners, pc[r] # "idle"
        PROVE  cur[r] \in Ops
    BY <1>8 DEF RunnerInv
  <1>9. ASSUME NEW r \in Runners, SagaStep(r)
        PROVE  [Lifecycle!Next]_(Lifecycle!opVars)
    BY <1>9, <1>2, <1>3, <1>4, <1>5, <1>6, <1>8
       DEF SagaStep, Lifecycle!Next, RecordSuccess, Answered, Escalate, FailFast,
           BackOff, Raised
  <1>10. QED
    BY <1>1, <1>6, <1>7, <1>9 DEF SagaNext, Lifecycle!Next

(* Every behaviour of the saga is a behaviour of the row lifecycle: a      *)
(* terminal row is never reopened and escalation spends every attempt.     *)
THEOREM SagaImplementsLifecycle == SagaSpec => ImplementsLifecycle
  <1>1. SagaInit => Lifecycle!Init
    BY DEF SagaInit, Lifecycle!Init
  <1>2. SagaInv /\ [SagaNext]_sagaVars => [Lifecycle!Next]_(Lifecycle!opVars)
    BY StepImplementsLifecycle
  <1>3. QED
    BY <1>1, <1>2, SagaInvariant, PTL DEF SagaSpec, ImplementsLifecycle, Lifecycle!Spec

-----------------------------------------------------------------------------
(* Duplicates: the moves an operation leaves are bounded by its attempts.  *)

BudgetInv ==
    /\ \A m \in Moves : moveState[m] = "absent" => madeBy[m] = NoOp
    /\ \A o \in Ops : /\ IsFiniteSet(MovesOf(o))
                      /\ opStatus[o] = "absent" => MovesOf(o) = {}
                      /\ opStatus[o] \in Terminal =>
                             Cardinality(MovesOf(o)) <= retryCount[o] + 1
    /\ \A r \in Runners : pc[r] \in Busy =>
           Cardinality(MovesOf(cur[r])) <=
               IF pc[r] = "calling" THEN attempt[r] - 1 ELSE attempt[r]

LEMMA InitBudgetInv == SagaInit => BudgetInv
  BY SagaAssumption, FS_EmptySet
  DEF SagaInit, BudgetInv, MovesOf, Terminal, Busy

(* client.create adds one move to its own operation and no other. *)
LEMMA CreateMoveBudget ==
  ASSUME SagaInv, BudgetInv, NEW r \in Runners, NEW m \in Moves, CreateMove(r, m)
  PROVE  BudgetInv'
  <1> USE SagaAssumption DEF SagaInv, SagaTypeOK, rowVars, Busy, InFunc
  <1>1. PICK p \in Ops : p = cur[r]
    BY DEF CreateMove, RunnerInv
  <1>2. /\ opStatus[p] = "in_flight"
        /\ madeBy' = [madeBy EXCEPT ![m] = p]
        /\ madeBy[m] = NoOp
        /\ UNCHANGED <<opStatus, retryCount, cur, attempt>>
    BY <1>1 DEF CreateMove, RunnerInv, BudgetInv
  <1>3. MovesOf(p)' = MovesOf(p) \cup {m}
    BY <1>2 DEF MovesOf
  <1>4. \A o \in Ops \ {p} : MovesOf(o)' = MovesOf(o)
    BY <1>2 DEF MovesOf
  <1>5. /\ IsFiniteSet(MovesOf(p)')
        /\ Cardinality(MovesOf(p)') <= Cardinality(MovesOf(p)) + 1
        /\ Cardinality(MovesOf(p)) \in Nat
    <2>1. IsFiniteSet(MovesOf(p))
      BY DEF BudgetInv
    <2>2. Cardinality(MovesOf(p)) \in Nat
      BY <2>1, FS_CardinalityType
    <2>3. /\ IsFiniteSet(MovesOf(p) \cup {m})
          /\ Cardinality(MovesOf(p) \cup {m}) =
                 IF m \in MovesOf(p) THEN Cardinality(MovesOf(p))
                                     ELSE Cardinality(MovesOf(p)) + 1
      BY <2>1, FS_AddElement
    <2>4. QED
      BY <2>2, <2>3, <1>3
  <1>6. \A n \in Moves : moveState'[n] = "absent" => madeBy'[n] = NoOp
    BY <1>2 DEF CreateMove, BudgetInv
  <1>7. ASSUME NEW o \in Ops
        PROVE  /\ IsFiniteSet(MovesOf(o)')
               /\ opStatus'[o] = "absent" => MovesOf(o)' = {}
               /\ opStatus'[o] \in Terminal =>
                      Cardinality(MovesOf(o)') <= retryCount'[o] + 1
    BY <1>2, <1>4, <1>5 DEF BudgetInv, Terminal
  <1>8. ASSUME NEW q \in Runners, pc'[q] \in Busy
        PROVE  Cardinality(MovesOf(cur[q]))' <=
                   IF pc'[q] = "calling" THEN attempt'[q] - 1 ELSE attempt'[q]
    <2>1. CASE q = r
      <3>1. /\ cur'[q] = p
            /\ Cardinality(MovesOf(p)) <= attempt[q] - 1
            /\ pc'[q] = "created"
            /\ attempt' = attempt
        BY <2>1, <1>1, <1>2 DEF CreateMove, BudgetInv
      <3>2. Cardinality(MovesOf(p)') <= attempt[q]
        <4>1. attempt[q] \in Nat /\ Cardinality(MovesOf(p)') \in Nat
          BY <1>5, FS_CardinalityType
        <4>2. QED
          BY <4>1, <3>1, <1>5
      <3>3. QED
        BY <3>1, <3>2 DEF MovesOf
    <2>2. CASE q # r
      <3>1. /\ pc'[q] = pc[q]
            /\ cur'[q] = cur[q]
            /\ cur[q] \in Ops \ {p}
        BY <2>2, <1>1, <1>2, <1>8 DEF CreateMove, NotShared, RunnerInv
      <3>2. MovesOf(cur[q])' = MovesOf(cur[q])
        BY <3>1, <1>4 DEF MovesOf
      <3>3. QED
        BY <3>1, <3>2, <1>2, <1>8 DEF BudgetInv
    <2>3. QED
      BY <2>1, <2>2
  <1>9. QED
    BY <1>6, <1>7, <1>8 DEF BudgetInv

(* Every other step creates no move and only moves a bound it keeps. *)
LEMMA OtherStepsBudget ==
  ASSUME SagaInv, SagaInv', BudgetInv,
         NEW r \in Runners, NEW o \in Ops, NEW c \in Causes,
         \/ Begin(r, o) \/ PostMove(r) \/ RecordSuccess(r) \/ BackOff(r, c)
         \/ Escalate(r, c) \/ FailFast(r, c) \/ Wake(r) \/ Leave(r) \/ Crash(r)
  PROVE  BudgetInv'
  <1> USE SagaAssumption DEF SagaInv, SagaTypeOK, Busy, InFunc, Terminal
  <1>1. UNCHANGED madeBy /\ \A p \in Ops : MovesOf(p)' = MovesOf(p)
    BY DEF Begin, PostMove, RecordSuccess, BackOff, Escalate, FailFast, Wake,
           Leave, Crash, erpVars, MovesOf
  <1>2. \A p \in Ops : Cardinality(MovesOf(p)) \in Nat
    BY FS_CardinalityType DEF BudgetInv
  <1>3. \A m \in Moves : moveState'[m] = "absent" => madeBy'[m] = NoOp
    BY <1>1 DEF Begin, PostMove, RecordSuccess, BackOff, Escalate, FailFast, Wake,
                Leave, Crash, erpVars, BudgetInv, MadeInv
  <1>4. ASSUME NEW p \in Ops
        PROVE  /\ IsFiniteSet(MovesOf(p)')
               /\ opStatus'[p] = "absent" => MovesOf(p)' = {}
               /\ opStatus'[p] \in Terminal =>
                      Cardinality(MovesOf(p)') <= retryCount'[p] + 1
    BY <1>1, <1>2 DEF Begin, PostMove, RecordSuccess, BackOff, Escalate, FailFast,
           Wake, Leave, Crash, rowVars, BudgetInv, RunnerInv, Raised, Answered,
           RetriesSoFar, EscalatedStatus, OpStatuses
  <1>5. ASSUME NEW q \in Runners, pc'[q] \in Busy
        PROVE  Cardinality(MovesOf(cur'[q])) <=
                   IF pc'[q] = "calling" THEN attempt'[q] - 1 ELSE attempt'[q]
    BY <1>1, <1>2, <1>5, FS_EmptySet DEF Begin, PostMove, RecordSuccess, BackOff,
           Escalate, FailFast, Wake, Leave, Crash, BudgetInv, RunnerInv, Raised,
           Answered
  <1>6. ASSUME NEW q \in Runners, pc'[q] \in Busy
        PROVE  Cardinality(MovesOf(cur[q]))' <=
                   IF pc'[q] = "calling" THEN attempt'[q] - 1 ELSE attempt'[q]
    <2>1. cur'[q] \in Ops
      BY <1>6 DEF RunnerInv
    <2>2. MovesOf(cur[q])' = MovesOf(cur'[q])
      BY <1>1 DEF MovesOf
    <2>3. QED
      BY <2>1, <2>2, <1>5, <1>6
  <1>7. QED
    BY <1>3, <1>4, <1>6 DEF BudgetInv

(* retry_count bounds the moves a settled operation left in the ERP.       *)
THEOREM SagaOneMovePerAttempt == SagaSpec => []OneMovePerAttempt
  <1>1. SagaInit => BudgetInv
    BY InitBudgetInv
  <1>2. SagaInv /\ BudgetInv /\ [SagaNext]_sagaVars => BudgetInv'
    <2> SUFFICES ASSUME SagaInv, BudgetInv, [SagaNext]_sagaVars
                 PROVE  BudgetInv'
      OBVIOUS
    <2>1. CASE SagaNext
      <3>1. SagaInv'
        BY SagaNextInv
      <3>2. PICK r \in Runners :
               \/ \E o \in Ops : Begin(r, o)
               \/ \E m \in Moves : CreateMove(r, m)
               \/ \E c \in Causes : BackOff(r, c) \/ Escalate(r, c) \/ FailFast(r, c)
               \/ PostMove(r) \/ RecordSuccess(r) \/ Wake(r) \/ Leave(r) \/ Crash(r)
        BY <2>1 DEF SagaNext, SagaStep
      <3>3. CASE \E m \in Moves : CreateMove(r, m)
        BY <3>3, CreateMoveBudget
      <3>4. CASE \E o \in Ops : Begin(r, o)
        BY <3>4, <3>1, OtherStepsBudget DEF Causes
      <3>5. CASE pc[r] # "idle"
        <4>1. cur[r] \in Ops
          BY <3>5 DEF SagaInv, RunnerInv
        <4>2. QED
          BY <4>1, <3>1, <3>2, <3>3, <3>4, OtherStepsBudget DEF Causes
      <3>6. QED
        BY <3>2, <3>3, <3>4, <3>5 DEF PostMove, RecordSuccess, Answered, BackOff,
           Escalate, FailFast, Raised, InFunc, Wake, Leave, Crash
    <2>2. CASE UNCHANGED sagaVars
      BY <2>2 DEF sagaVars, rowVars, erpVars, localVars, BudgetInv, MovesOf
    <2>3. QED
      BY <2>1, <2>2
  <1>3. BudgetInv => OneMovePerAttempt
    BY DEF BudgetInv, OneMovePerAttempt
  <1>4. QED
    BY <1>1, <1>2, <1>3, SagaInvariant, PTL DEF SagaSpec
=============================================================================
