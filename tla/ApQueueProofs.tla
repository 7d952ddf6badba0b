--------------------------- MODULE ApQueueProofs ----------------------------
(***************************************************************************)
(* Proofs about ApQueue for every set of requests, items, operations and   *)
(* moves, whatever tenants are connected and whoever races or dies.        *)
(*                                                                         *)
(* Every step of the queue is a step of the saga or leaves it alone, so    *)
(* SagaInv carries over; QueueInv adds what ties a request to its item and *)
(* its operation.                                                          *)
(***************************************************************************)
EXTENDS ApQueue, ErpSagaProofs

(* The part of TypeOK that is not the saga's. *)
QueueTypeOK ==
    /\ item \in [Items -> Statuses]
    /\ execution \in [Items -> Ops \cup {NoOp}]
    /\ localEntries \in [Items -> 0 .. MaxLocal]
    /\ billPosted \in [Items -> Nat]
    /\ phase \in [Runners -> {"idle", "loaded", "executing", "posted",
                              "announced", "recorded"}]
    /\ act \in [Runners -> {"approve", "reject", "post", "edit"}]
    /\ copyExecution \in [Runners -> Ops \cup {NoOp}]
    /\ todo \in [Runners -> SUBSET Items]
    /\ opItem \in [Ops -> Items \cup {NoItem}]
    /\ wasApproved \in SUBSET Items
    /\ raced \in SUBSET Items
    /\ edited \in SUBSET Items
    /\ interrupted \in SUBSET Items

PastExecute == {"announced", "recorded"}

(* A request is inside the saga exactly while it posts an ERP item and is  *)
(* past "loaded"; it has announced only what succeeded.                    *)
RequestInv ==
    \A r \in Runners :
        /\ phase[r] \in {"idle", "loaded", "posted"} => pc[r] = "idle"
        /\ phase[r] = "executing" => pc[r] # "idle"
        /\ phase[r] \in PastExecute /\ pc[r] # "idle" =>
               pc[r] = "returned" /\ opStatus[cur[r]] = "success"
        /\ pc[r] # "idle" => opItem[cur[r]] \in todo[r] \cap ErpItems
        /\ pc[r] = "idle" => cur[r] = NoOp

(* What a posting request knows of its item. *)
PostingInv ==
    \A r \in Runners, i \in Items :
        i \in todo[r] /\ phase[r] # "idle" /\ act[r] = "post" =>
            /\ i \in wasApproved
            /\ todo[r] = {i}
            /\ phase[r] = "posted" => i \notin ErpItems
            /\ phase[r] \in PastExecute => (i \in ErpItems <=> pc[r] # "idle")
            /\ phase[r] \in PastExecute \cup {"posted"} /\ i \notin ErpItems =>
                   localEntries[i] > 0
            /\ phase[r] = "recorded" /\ i \in ErpItems /\ i \notin edited =>
                   execution[i] # NoOp

PosterInv == \A r \in Runners : pc[r] # "idle" => act[r] = "post"

ApprovedInv ==
    /\ \A i \in Items : item[i] \in Postable => i \in wasApproved
    /\ \A o \in Ops : opStatus[o] # "absent" => opItem[o] \in wasApproved
    /\ \A i \in Items : localEntries[i] > 0 => i \in wasApproved
    /\ \A m \in Moves : madeBy[m] # NoOp => opStatus[madeBy[m]] # "absent"

(* The operation an item's metadata names succeeded, for that item. *)
ExecutionInv ==
    \A i \in Items :
        /\ execution[i] # NoOp => opStatus[execution[i]] = "success"
                                  /\ opItem[execution[i]] = i
        /\ item[i] = "executed" /\ i \notin edited =>
               IF i \in ErpItems THEN execution[i] # NoOp ELSE localEntries[i] > 0

(* What a form would write back of the metadata was true once, and is.     *)
FormInv ==
    \A r \in Runners : copyExecution[r] # NoOp =>
        /\ phase[r] = "loaded" /\ act[r] = "edit"
        /\ opStatus[copyExecution[r]] = "success"
        /\ todo[r] = {opItem[copyExecution[r]]}

QueueInv == /\ QueueTypeOK /\ RequestInv /\ PostingInv /\ PosterInv
            /\ ApprovedInv /\ ExecutionInv /\ FormInv

-----------------------------------------------------------------------------
(* Every step of the queue is one of the saga, or none. *)

LEMMA StepIsSagaStep == [Next]_vars => [SagaNext]_sagaVars
  <1> SUFFICES ASSUME [Next]_vars PROVE [SagaNext]_sagaVars
    OBVIOUS
  <1>1. ASSUME NEW r \in Runners, RequestStep(r)
        PROVE  [SagaNext]_sagaVars
    <2>1. CASE SagaRuns(r)
      BY <2>1 DEF SagaRuns, SagaNext
    <2>2. ASSUME NEW i \in Items, NEW o \in Ops, StartSaga(r, i, o)
          PROVE  SagaNext
      BY <2>2 DEF StartSaga, SagaNext
    <2>3. ASSUME NEW i \in Items, SagaFailed(r, i) \/ MarkExecuted(r, i)
          PROVE  [SagaNext]_sagaVars
      BY <2>3 DEF SagaFailed, MarkExecuted, SagaNext
    <2>4. ASSUME NEW i \in Items,
                 \/ Approve(r, i) \/ Reject(r, i) \/ Refuse(r, i)
                 \/ PostLocally(r, i)
                 \/ Announce(r, i) \/ RecordExecution(r, i)
          PROVE  UNCHANGED sagaVars
      BY <2>4 DEF Approve, Reject, Review, Refuse, PostLocally,
                  Announce, RecordExecution
    <2>5. QED
      BY <1>1, <2>1, <2>2, <2>3, <2>4 DEF RequestStep
  <1>2. ASSUME NEW r \in Runners, CrashRequest(r)
        PROVE  [SagaNext]_sagaVars
    BY <1>2 DEF CrashRequest, SagaNext
  <1>3. ASSUME NEW r \in Runners, NEW S \in SUBSET Items,
               NEW a \in {"approve", "reject", "post"},
               Load(r, S, a) \/ Rerender(r)
        PROVE  UNCHANGED sagaVars
    BY <1>3 DEF Load, Rerender
  <1>4. ASSUME NEW r \in Runners, NEW i \in Items,
               OpenForm(r, i) \/ \E s \in Statuses : SaveForm(r, i, s)
        PROVE  UNCHANGED sagaVars
    BY <1>4 DEF OpenForm, SaveForm
  <1>5. CASE UNCHANGED vars
    BY <1>5 DEF vars
  <1>6. QED
    BY <1>1, <1>2, <1>3, <1>5, <1>4 DEF Next

(* Rows of the saga that a step may not undo. *)
LEMMA SuccessStays ==
  ASSUME SagaInv, [SagaNext]_sagaVars, NEW o \in Ops
  PROVE  /\ opStatus[o] = "success" => opStatus'[o] = "success"
         /\ opStatus[o] # "absent" => opStatus'[o] # "absent"
  <1>1. [Lifecycle!Next]_(Lifecycle!opVars)
    BY StepImplementsLifecycle
  <1>2. opStatus \in [Ops -> OpStatuses]
    BY DEF SagaInv, SagaTypeOK
  <1>3. ASSUME NEW p \in Ops, Lifecycle!Create(p) \/ Lifecycle!Retry(p)
                                                  \/ Lifecycle!Finish(p)
        PROVE  /\ opStatus[o] = "success" => opStatus'[o] = "success"
               /\ opStatus[o] # "absent" => opStatus'[o] # "absent"
    BY <1>2, <1>3 DEF Lifecycle!Create, Lifecycle!Retry, Lifecycle!Finish,
                      Lifecycle!Terminal, OpStatuses
  <1>4. CASE UNCHANGED Lifecycle!opVars
    BY <1>4 DEF Lifecycle!opVars
  <1>5. QED
    BY <1>1, <1>3, <1>4 DEF Lifecycle!Next

(* What a step inside the saga leaves to its caller. *)
LEMMA SagaStepFrame ==
  ASSUME SagaInv, NEW r \in Runners, SagaStep(r)
  PROVE  /\ cur' = cur
         /\ pc[r] \notin {"idle", "returned"}
         /\ pc'[r] # "idle"
         /\ \A q \in Runners : q # r => pc'[q] = pc[q]
         /\ \A m \in Moves : madeBy'[m] \in {madeBy[m], cur[r]}
         /\ cur[r] \in Ops /\ opStatus[cur[r]] # "absent"
  <1> USE DEF SagaInv, SagaTypeOK, RunnerInv, Busy, InFunc, Terminal, rowVars, erpVars
  <1>1. CASE \E m \in Moves : CreateMove(r, m)
    BY <1>1 DEF CreateMove
  <1>2. CASE PostMove(r) \/ RecordSuccess(r) \/ Wake(r)
    BY <1>2 DEF PostMove, RecordSuccess, Answered, Wake
  <1>3. CASE \E c \in Causes : BackOff(r, c) \/ Escalate(r, c) \/ FailFast(r, c)
    BY <1>3 DEF BackOff, Escalate, FailFast, Raised
  <1>4. QED
    BY <1>1, <1>2, <1>3 DEF SagaStep

-----------------------------------------------------------------------------
(* QueueInv holds initially and each action preserves it. *)

LEMMA InitQueueInv == Init => QueueInv
  BY QueueAssumption
  DEF Init, SagaInit, QueueInv, QueueTypeOK, RequestInv, PostingInv, PosterInv,
      ApprovedInv, ExecutionInv, FormInv, Statuses, Postable, PastExecute

LEMMA LoadInv ==
  ASSUME SagaInv, QueueInv, NEW r \in Runners, NEW S \in SUBSET Items,
         NEW a \in {"approve", "reject", "post"}, Load(r, S, a)
  PROVE  QueueInv'
  <1> USE QueueAssumption, SagaAssumption
      DEF QueueInv, QueueTypeOK, SagaInv, SagaTypeOK, rowVars, erpVars, localVars,
          sagaVars, Load, Idle, Eligible, Reviewable
  <1>1. QueueTypeOK'
    BY DEF Statuses
  <1>2. RequestInv'
    BY DEF RequestInv, RunnerInv, PastExecute, Busy, InFunc, Terminal
  <1>3. PostingInv'
    BY DEF PostingInv, RequestInv, ApprovedInv, PastExecute, Postable
  <1>4. PosterInv'
    BY DEF PosterInv, RequestInv
  <1>5. ApprovedInv'
    BY DEF ApprovedInv, PostingInv, Postable
  <1>6. ExecutionInv'
    BY DEF ExecutionInv, RequestInv, PostingInv, RunnerInv, PastExecute
  <1>7. FormInv'
    BY DEF FormInv, RequestInv, RunnerInv
  <1>8. QED
    BY <1>1, <1>2, <1>3, <1>4, <1>5, <1>6, <1>7

LEMMA ApproveInv ==
  ASSUME SagaInv, QueueInv, NEW r \in Runners, NEW i \in Items, Approve(r, i)
  PROVE  QueueInv'
  <1> USE QueueAssumption, SagaAssumption
      DEF QueueInv, QueueTypeOK, SagaInv, SagaTypeOK, rowVars, erpVars, localVars,
          sagaVars, Approve, Review, Done
  <1>1. QueueTypeOK'
    BY DEF Statuses
  <1>2. RequestInv'
    BY DEF RequestInv, RunnerInv, PastExecute, Busy, InFunc, Terminal
  <1>3. PostingInv'
    <2>1. /\ act' = act /\ act[r] # "post"
          /\ \A q \in Runners : q # r => todo'[q] = todo[q] /\ phase'[q] = phase[q]
      OBVIOUS
    <2>2. UNCHANGED <<pc, localEntries, execution>> /\ wasApproved \subseteq wasApproved'
      OBVIOUS
    <2>3. QED
      BY <2>1, <2>2 DEF PostingInv
  <1>4. PosterInv'
    BY DEF PosterInv, RequestInv
  <1>5. ApprovedInv'
    BY DEF ApprovedInv, PostingInv, Postable
  <1>6. ExecutionInv'
    BY DEF ExecutionInv, RequestInv, PostingInv, RunnerInv, PastExecute
  <1>7. FormInv'
    BY DEF FormInv, RequestInv, RunnerInv
  <1>8. QED
    BY <1>1, <1>2, <1>3, <1>4, <1>5, <1>6, <1>7

LEMMA RejectInv ==
  ASSUME SagaInv, QueueInv, NEW r \in Runners, NEW i \in Items, Reject(r, i)
  PROVE  QueueInv'
  <1> USE QueueAssumption, SagaAssumption
      DEF QueueInv, QueueTypeOK, SagaInv, SagaTypeOK, rowVars, erpVars, localVars,
          sagaVars, Reject, Review, Done
  <1>1. QueueTypeOK'
    BY DEF Statuses
  <1>2. RequestInv'
    BY DEF RequestInv, RunnerInv, PastExecute, Busy, InFunc, Terminal
  <1>3. PostingInv'
    <2>1. /\ act' = act /\ act[r] # "post"
          /\ \A q \in Runners : q # r => todo'[q] = todo[q] /\ phase'[q] = phase[q]
      OBVIOUS
    <2>2. UNCHANGED <<pc, localEntries, execution, wasApproved>>
      OBVIOUS
    <2>3. QED
      BY <2>1, <2>2 DEF PostingInv
  <1>4. PosterInv'
    BY DEF PosterInv, RequestInv
  <1>5. ApprovedInv'
    BY DEF ApprovedInv, PostingInv, Postable
  <1>6. ExecutionInv'
    BY DEF ExecutionInv, RequestInv, PostingInv, RunnerInv, PastExecute
  <1>7. FormInv'
    BY DEF FormInv, RequestInv, RunnerInv
  <1>8. QED
    BY <1>1, <1>2, <1>3, <1>4, <1>5, <1>6, <1>7

LEMMA RerenderInv ==
  ASSUME SagaInv, QueueInv, NEW r \in Runners, Rerender(r)
  PROVE  QueueInv'
  <1> USE QueueAssumption, SagaAssumption
      DEF QueueInv, QueueTypeOK, SagaInv, SagaTypeOK, rowVars, erpVars, localVars,
          sagaVars, Rerender, Done
  <1>1. QueueTypeOK'
    BY DEF Statuses
  <1>2. RequestInv'
    BY DEF RequestInv, RunnerInv, PastExecute, Busy, InFunc, Terminal
  <1>3. PostingInv'
    BY DEF PostingInv, RequestInv, ApprovedInv, PastExecute, Postable
  <1>4. PosterInv'
    BY DEF PosterInv, RequestInv
  <1>5. ApprovedInv'
    BY DEF ApprovedInv, PostingInv, Postable
  <1>6. ExecutionInv'
    BY DEF ExecutionInv, RequestInv, PostingInv, RunnerInv, PastExecute
  <1>7. FormInv'
    BY DEF FormInv, RequestInv, RunnerInv
  <1>8. QED
    BY <1>1, <1>2, <1>3, <1>4, <1>5, <1>6, <1>7

LEMMA OpenFormInv ==
  ASSUME SagaInv, QueueInv, NEW r \in Runners, NEW i \in Items, OpenForm(r, i)
  PROVE  QueueInv'
  <1> USE QueueAssumption, SagaAssumption
      DEF QueueInv, QueueTypeOK, SagaInv, SagaTypeOK, rowVars, erpVars, localVars,
          sagaVars, OpenForm, Idle
  <1>1. QueueTypeOK'
    BY DEF Statuses
  <1>2. RequestInv'
    BY DEF RequestInv, RunnerInv, PastExecute, Busy, InFunc, Terminal
  <1>3. PostingInv'
    BY DEF PostingInv, RequestInv, PastExecute
  <1>4. PosterInv'
    BY DEF PosterInv, RequestInv
  <1>5. ApprovedInv'
    BY DEF ApprovedInv, Postable
  <1>6. ExecutionInv'
    BY DEF ExecutionInv
  <1>7. FormInv'
    BY DEF FormInv, ExecutionInv
  <1>8. QED
    BY <1>1, <1>2, <1>3, <1>4, <1>5, <1>6, <1>7

LEMMA SaveFormInv ==
  ASSUME SagaInv, QueueInv, NEW r \in Runners, NEW i \in Items, NEW s \in Statuses,
         SaveForm(r, i, s)
  PROVE  QueueInv'
  <1> USE QueueAssumption, SagaAssumption
      DEF QueueInv, QueueTypeOK, SagaInv, SagaTypeOK, rowVars, erpVars, localVars,
          sagaVars, SaveForm, Done
  <1>1. QueueTypeOK'
    OBVIOUS
  <1>2. RequestInv'
    BY DEF RequestInv, RunnerInv, PastExecute, Busy, InFunc, Terminal
  <1>3. PostingInv'
    <2>1. /\ act' = act /\ act[r] # "post" /\ wasApproved \subseteq wasApproved'
          /\ \A q \in Runners : q # r => todo'[q] = todo[q] /\ phase'[q] = phase[q]
      OBVIOUS
    <2>2. /\ UNCHANGED <<pc, localEntries>> /\ edited' = edited \cup {i}
          /\ \A j \in Items : j # i => execution'[j] = execution[j]
      OBVIOUS
    <2>3. QED
      BY <2>1, <2>2 DEF PostingInv
  <1>4. PosterInv'
    BY DEF PosterInv, RequestInv
  <1>5. ApprovedInv'
    BY DEF ApprovedInv, Postable
  <1>6. ExecutionInv'
    BY DEF ExecutionInv, FormInv
  <1>7. FormInv'
    BY DEF FormInv
  <1>8. QED
    BY <1>1, <1>2, <1>3, <1>4, <1>5, <1>6, <1>7

LEMMA RefuseInv ==
  ASSUME SagaInv, QueueInv, NEW r \in Runners, NEW i \in Items, Refuse(r, i)
  PROVE  QueueInv'
  <1> USE QueueAssumption, SagaAssumption
      DEF QueueInv, QueueTypeOK, SagaInv, SagaTypeOK, rowVars, erpVars, localVars,
          sagaVars, Refuse, Posting, MarkFailed, FailedStatus, Done
  <1>1. QueueTypeOK'
    BY DEF Statuses
  <1>2. RequestInv'
    BY DEF RequestInv, RunnerInv, PastExecute, Busy, InFunc, Terminal
  <1>3. PostingInv'
    BY DEF PostingInv, RequestInv, ApprovedInv, PastExecute, Postable
  <1>4. PosterInv'
    BY DEF PosterInv, RequestInv
  <1>5. ApprovedInv'
    BY DEF ApprovedInv, PostingInv, Postable
  <1>6. ExecutionInv'
    BY DEF ExecutionInv, RequestInv, PostingInv, RunnerInv, PastExecute
  <1>7. FormInv'
    BY DEF FormInv, RequestInv, RunnerInv
  <1>8. QED
    BY <1>1, <1>2, <1>3, <1>4, <1>5, <1>6, <1>7

LEMMA StartSagaInv ==
  ASSUME SagaInv, QueueInv, NEW r \in Runners, NEW i \in Items, NEW o \in Ops, StartSaga(r, i, o)
  PROVE  QueueInv'
  <1> USE QueueAssumption, SagaAssumption
      DEF QueueInv, QueueTypeOK, SagaInv, SagaTypeOK, rowVars, erpVars, localVars,
          sagaVars, StartSaga, Begin, Posting
  <1>1. QueueTypeOK'
    BY DEF Statuses
  <1>2. RequestInv'
    BY DEF RequestInv, RunnerInv, PastExecute, Busy, InFunc, Terminal
  <1>3. PostingInv'
    BY DEF PostingInv, RequestInv, ApprovedInv, PastExecute, Postable
  <1>4. PosterInv'
    BY DEF PosterInv, RequestInv
  <1>5. ApprovedInv'
    BY DEF ApprovedInv, PostingInv, Postable
  <1>6. ExecutionInv'
    BY DEF ExecutionInv, RequestInv, PostingInv, RunnerInv, PastExecute
  <1>7. FormInv'
    BY DEF FormInv, RequestInv, RunnerInv
  <1>8. QED
    BY <1>1, <1>2, <1>3, <1>4, <1>5, <1>6, <1>7

LEMMA PostLocallyInv ==
  ASSUME SagaInv, QueueInv, NEW r \in Runners, NEW i \in Items, PostLocally(r, i)
  PROVE  QueueInv'
  <1> USE QueueAssumption, SagaAssumption
      DEF QueueInv, QueueTypeOK, SagaInv, SagaTypeOK, rowVars, erpVars, localVars,
          sagaVars, PostLocally, Posting
  <1>1. QueueTypeOK'
    BY DEF Statuses
  <1>2. RequestInv'
    BY DEF RequestInv, RunnerInv, PastExecute, Busy, InFunc, Terminal
  <1>3. PostingInv'
    BY DEF PostingInv, RequestInv, ApprovedInv, PastExecute, Postable
  <1>4. PosterInv'
    BY DEF PosterInv, RequestInv
  <1>5. ApprovedInv'
    BY DEF ApprovedInv, PostingInv, Postable
  <1>6. ExecutionInv'
    BY DEF ExecutionInv, RequestInv, PostingInv, RunnerInv, PastExecute
  <1>7. FormInv'
    BY DEF FormInv, RequestInv, RunnerInv
  <1>8. QED
    BY <1>1, <1>2, <1>3, <1>4, <1>5, <1>6, <1>7

LEMMA SagaFailedInv ==
  ASSUME SagaInv, QueueInv, NEW r \in Runners, NEW i \in Items, SagaFailed(r, i)
  PROVE  QueueInv'
  <1> USE QueueAssumption, SagaAssumption
      DEF QueueInv, QueueTypeOK, SagaInv, SagaTypeOK, rowVars, erpVars, localVars,
          sagaVars, SagaFailed, Posting, MarkFailed, FailedStatus, Done, Leave
  <1>1. QueueTypeOK'
    BY DEF Statuses
  <1>2. RequestInv'
    BY DEF RequestInv, RunnerInv, PastExecute, Busy, InFunc, Terminal
  <1>3. PostingInv'
    BY DEF PostingInv, RequestInv, ApprovedInv, PastExecute, Postable
  <1>4. PosterInv'
    BY DEF PosterInv, RequestInv
  <1>5. ApprovedInv'
    BY DEF ApprovedInv, PostingInv, Postable
  <1>6. ExecutionInv'
    BY DEF ExecutionInv, RequestInv, PostingInv, RunnerInv, PastExecute
  <1>7. FormInv'
    BY DEF FormInv, RequestInv, RunnerInv
  <1>8. QED
    BY <1>1, <1>2, <1>3, <1>4, <1>5, <1>6, <1>7

LEMMA AnnounceInv ==
  ASSUME SagaInv, QueueInv, NEW r \in Runners, NEW i \in Items, Announce(r, i)
  PROVE  QueueInv'
  <1> USE QueueAssumption, SagaAssumption
      DEF QueueInv, QueueTypeOK, SagaInv, SagaTypeOK, rowVars, erpVars, localVars,
          sagaVars, Announce, Posting, OutcomeOk
  <1>1. QueueTypeOK'
    BY DEF Statuses
  <1>2. RequestInv'
    BY DEF RequestInv, RunnerInv, PastExecute, Busy, InFunc, Terminal
  <1>3. PostingInv'
    BY DEF PostingInv, RequestInv, ApprovedInv, PastExecute, Postable
  <1>4. PosterInv'
    BY DEF PosterInv, RequestInv
  <1>5. ApprovedInv'
    BY DEF ApprovedInv, PostingInv, Postable
  <1>6. ExecutionInv'
    BY DEF ExecutionInv, RequestInv, PostingInv, RunnerInv, PastExecute
  <1>7. FormInv'
    BY DEF FormInv, RequestInv, RunnerInv
  <1>8. QED
    BY <1>1, <1>2, <1>3, <1>4, <1>5, <1>6, <1>7

LEMMA RecordExecutionInv ==
  ASSUME SagaInv, QueueInv, NEW r \in Runners, NEW i \in Items, RecordExecution(r, i)
  PROVE  QueueInv'
  <1> USE QueueAssumption, SagaAssumption
      DEF QueueInv, QueueTypeOK, SagaInv, SagaTypeOK, rowVars, erpVars, localVars,
          sagaVars, RecordExecution, Posting
  <1>1. QueueTypeOK'
    BY DEF Statuses
  <1>2. RequestInv'
    BY DEF RequestInv, RunnerInv, PastExecute, Busy, InFunc, Terminal
  <1>3. PostingInv'
    BY DEF PostingInv, RequestInv, RunnerInv, PastExecute
  <1>4. PosterInv'
    BY DEF PosterInv, RequestInv
  <1>5. ApprovedInv'
    BY DEF ApprovedInv, PostingInv, Postable
  <1>6. ExecutionInv'
    <2>1. CASE i \in ErpItems
      <3>1. cur[r] \in Ops /\ opStatus[cur[r]] = "success" /\ opItem[cur[r]] = i
        BY <2>1 DEF RequestInv, RunnerInv, PostingInv, PastExecute
      <3>2. QED
        BY <2>1, <3>1 DEF ExecutionInv
    <2>2. CASE i \notin ErpItems
      BY <2>2 DEF ExecutionInv, RequestInv, PastExecute
    <2>3. QED
      BY <2>1, <2>2
  <1>7. FormInv'
    BY DEF FormInv, RequestInv, RunnerInv
  <1>8. QED
    BY <1>1, <1>2, <1>3, <1>4, <1>5, <1>6, <1>7

LEMMA MarkExecutedInv ==
  ASSUME SagaInv, QueueInv, NEW r \in Runners, NEW i \in Items, MarkExecuted(r, i)
  PROVE  QueueInv'
  <1> USE QueueAssumption, SagaAssumption
      DEF QueueInv, QueueTypeOK, SagaInv, SagaTypeOK, rowVars, erpVars, localVars,
          sagaVars, MarkExecuted, Posting, Done, Leave
  <1>1. QueueTypeOK'
    BY DEF Statuses
  <1>2. RequestInv'
    BY DEF RequestInv, RunnerInv, PastExecute, Busy, InFunc, Terminal
  <1>3. PostingInv'
    BY DEF PostingInv, RequestInv, ApprovedInv, PastExecute, Postable
  <1>4. PosterInv'
    BY DEF PosterInv, RequestInv
  <1>5. ApprovedInv'
    BY DEF ApprovedInv, PostingInv, Postable
  <1>6. ExecutionInv'
    BY DEF ExecutionInv, RequestInv, PostingInv, RunnerInv, PastExecute
  <1>7. FormInv'
    BY DEF FormInv, RequestInv, RunnerInv
  <1>8. QED
    BY <1>1, <1>2, <1>3, <1>4, <1>5, <1>6, <1>7

LEMMA CrashRequestInv ==
  ASSUME SagaInv, QueueInv, NEW r \in Runners, CrashRequest(r)
  PROVE  QueueInv'
  <1> USE QueueAssumption, SagaAssumption
      DEF QueueInv, QueueTypeOK, SagaInv, SagaTypeOK, rowVars, erpVars, localVars,
          sagaVars, CrashRequest, Done, Crash, Idle
  <1>1. QueueTypeOK'
    BY DEF Statuses
  <1>2. RequestInv'
    BY DEF RequestInv, RunnerInv, PastExecute, Busy, InFunc, Terminal
  <1>3. PostingInv'
    BY DEF PostingInv, RequestInv, ApprovedInv, PastExecute, Postable
  <1>4. PosterInv'
    BY DEF PosterInv, RequestInv
  <1>5. ApprovedInv'
    BY DEF ApprovedInv, PostingInv, Postable
  <1>6. ExecutionInv'
    BY DEF ExecutionInv, RequestInv, PostingInv, RunnerInv, PastExecute
  <1>7. FormInv'
    BY DEF FormInv, RequestInv, RunnerInv
  <1>8. QED
    BY <1>1, <1>2, <1>3, <1>4, <1>5, <1>6, <1>7

LEMMA SagaRunsInv ==
  ASSUME SagaInv, QueueInv, NEW r \in Runners, SagaRuns(r)
  PROVE  QueueInv'
  <1> USE DEF QueueInv, queueVars
  <1>0. SagaStep(r) /\ UNCHANGED queueVars
    BY DEF SagaRuns
  <1>1. [SagaNext]_sagaVars
    BY <1>0 DEF SagaNext
  <1>2. /\ cur' = cur
        /\ pc[r] \notin {"idle", "returned"}
        /\ pc'[r] # "idle"
        /\ \A q \in Runners : q # r => pc'[q] = pc[q]
        /\ \A m \in Moves : madeBy'[m] \in {madeBy[m], cur[r]}
        /\ cur[r] \in Ops /\ opStatus[cur[r]] # "absent"
    BY <1>0, SagaStepFrame
  <1>3. \A o \in Ops : /\ opStatus[o] = "success" => opStatus'[o] = "success"
                       /\ opStatus[o] # "absent" <=> opStatus'[o] # "absent"
    <2>1. \A o \in Ops : /\ opStatus[o] = "success" => opStatus'[o] = "success"
                         /\ opStatus[o] # "absent" => opStatus'[o] # "absent"
      BY <1>1, SuccessStays
    <2>2. \A o \in Ops : o # cur[r] => opStatus'[o] = opStatus[o]
      BY <1>0 DEF SagaStep, CreateMove, PostMove, RecordSuccess, BackOff, Escalate,
                  FailFast, Wake, rowVars, SagaInv, SagaTypeOK
    <2>3. QED
      BY <1>2, <2>1, <2>2
  <1>4. QueueTypeOK'
    BY <1>0 DEF QueueTypeOK
  <1>5. RequestInv'
    BY <1>0, <1>2, <1>3 DEF RequestInv, SagaInv, RunnerInv, PastExecute
  <1>6. PostingInv' /\ PosterInv'
    BY <1>0, <1>2 DEF PostingInv, PosterInv
  <1>7. ApprovedInv'
    BY <1>0, <1>2, <1>3 DEF ApprovedInv, SagaInv, SagaTypeOK
  <1>8. ExecutionInv'
    BY <1>0, <1>3 DEF ExecutionInv, QueueTypeOK
  <1>9. FormInv'
    BY <1>0, <1>3 DEF FormInv, QueueTypeOK
  <1>10. QED
    BY <1>4, <1>5, <1>6, <1>7, <1>8, <1>9

LEMMA NextQueueInv == SagaInv /\ QueueInv /\ [Next]_vars => QueueInv'
  <1> SUFFICES ASSUME SagaInv, QueueInv, [Next]_vars
               PROVE  QueueInv'
    OBVIOUS
  <1>1. ASSUME NEW r \in Runners, RequestStep(r)
        PROVE  QueueInv'
    BY <1>1, ApproveInv, RejectInv, RefuseInv, StartSagaInv, PostLocallyInv,
       SagaFailedInv, AnnounceInv, RecordExecutionInv,
       MarkExecutedInv, SagaRunsInv
    DEF RequestStep
  <1>2. ASSUME NEW r \in Runners,
               NEW S \in SUBSET Items, NEW a \in {"approve", "reject", "post"},
               Load(r, S, a)
        PROVE  QueueInv'
    BY <1>2, LoadInv
  <1>3. ASSUME NEW r \in Runners, Rerender(r) \/ CrashRequest(r)
        PROVE  QueueInv'
    BY <1>3, RerenderInv, CrashRequestInv
  <1>4. ASSUME NEW r \in Runners, NEW i \in Items,
               OpenForm(r, i) \/ \E s \in Statuses : SaveForm(r, i, s)
        PROVE  QueueInv'
    BY <1>4, OpenFormInv, SaveFormInv
  <1>5. CASE UNCHANGED vars
    BY <1>5
    DEF vars, sagaVars, queueVars, rowVars, erpVars, localVars, QueueInv,
        QueueTypeOK, RequestInv, PostingInv, PosterInv, ApprovedInv, ExecutionInv, FormInv
  <1>6. QED
    BY <1>1, <1>2, <1>3, <1>5, <1>4 DEF Next

(* The requests of the queue, with all they do around it, run the saga as  *)
(* ErpSaga has it: what the saga promises of an audit row holds of the     *)
(* rows that posting approved items writes.                                *)
THEOREM QueueImplementsSaga == Spec => SagaSpec
  <1>1. Init => SagaInit
    BY DEF Init
  <1>2. QED
    BY <1>1, StepIsSagaStep, PTL DEF Spec, SagaSpec

(* So a row follows its lifecycle, and max_attempts bounds the moves made  *)
(* for one operation, also when requests that review, post or edit items   *)
(* interleave and die.                                                     *)
THEOREM QueueKeepsSagaPromises == Spec => ImplementsLifecycle /\ []OneMovePerAttempt
  BY QueueImplementsSaga, SagaImplementsLifecycle, SagaOneMovePerAttempt, PTL

(* The inductive invariant of the queue and the saga under it. *)
THEOREM QueueInvariant == Spec => [](SagaInv /\ QueueInv)
  <1>1. Init => SagaInv /\ QueueInv
    BY InitSagaInv, InitQueueInv DEF Init
  <1>2. SagaInv /\ QueueInv /\ [Next]_vars => (SagaInv /\ QueueInv)'
    BY StepIsSagaStep, SagaNextInv, NextQueueInv
  <1>3. QED
    BY <1>1, <1>2, PTL DEF Spec

(* The queue, its requests and its saga keep every variable in its type.   *)
THEOREM QueueTypeCorrect == Spec => []TypeOK
  <1>1. SagaInv /\ QueueInv => TypeOK
    BY DEF SagaInv, QueueInv, QueueTypeOK, TypeOK
  <1>2. QED
    BY <1>1, QueueInvariant, PTL

(* execute_queue_item marks an item executed only when its operation put a *)
(* posted move in the ERP for it, or the ledger holds its entry, and what  *)
(* the metadata names is such an operation even after a form: for any      *)
(* number of concurrent requests, failures and deaths.                     *)
THEOREM QueueExecutedWasPosted == Spec => []ExecutedWasPosted
  <1>1. SagaInv /\ QueueInv => ExecutedWasPosted
    BY DEF SagaInv, SuccessIsPosted, QueueInv, QueueTypeOK, ExecutionInv,
           ExecutedWasPosted, SuccessesOf
  <1>2. QED
    BY <1>1, QueueInvariant, PTL

(* Nothing is written to an ERP or to the ledger for an unapproved item.   *)
THEOREM QueueNothingWithoutApproval == Spec => []NothingWithoutApproval
  <1>1. SagaInv /\ QueueInv => NothingWithoutApproval
    BY DEF SagaInv, SagaTypeOK, QueueInv, ApprovedInv, NothingWithoutApproval
  <1>2. QED
    BY <1>1, QueueInvariant, PTL
-----------------------------------------------------------------------------
(* A request that alone holds its item decided on what the row still says. *)
CopyInv ==
    /\ \A r \in Runners : phase[r] = "idle" => todo[r] = {}
    /\ \A r, q \in Runners : r # q => todo[r] \cap todo[q] \subseteq raced
    /\ \A r \in Runners : \A i \in todo[r] \ raced :
           /\ act[r] = "post" => item[i] \in Postable
           /\ act[r] \in {"approve", "reject"} => item[i] = "pending"

LEMMA InitCopyInv == Init => CopyInv
  BY DEF Init, CopyInv

LEMMA LifecycleStep ==
  ASSUME QueueTypeOK, CopyInv, [Next]_vars
  PROVE  CopyInv' /\ [Queue!Next]_(Queue!itemVars)
  <1> USE DEF QueueTypeOK, Queue!itemVars, Queue!Next, Queue!Statuses
  <1>1. ASSUME NEW r \in Runners, NEW S \in SUBSET Items,
               NEW a \in {"approve", "reject", "post"}, Load(r, S, a)
        PROVE  CopyInv' /\ Queue!Next
    <2>1. CopyInv'
      <3>1. \A q \in Runners : q # r => todo'[q] = todo[q] /\ S \cap todo[q] \subseteq raced'
        BY <1>1 DEF Load, HeldByOthers
      <3>2. raced \subseteq raced' /\ item' = item /\ todo'[r] = S
        BY <1>1 DEF Load
      <3>3. \A i \in S : IF a = "post" THEN item[i] \in Postable ELSE item[i] = "pending"
        BY <1>1 DEF Load, Eligible, Reviewable
      <3>4. QED
        BY <1>1, <3>1, <3>2, <3>3 DEF Load, CopyInv
    <2>2. Queue!Race(S \cap HeldByOthers(r))
      BY <1>1 DEF Load, Queue!Race
    <2>3. QED
      BY <2>1, <2>2
  <1>2. ASSUME NEW r \in Runners, NEW i \in Items, Approve(r, i) \/ Reject(r, i)
        PROVE  CopyInv' /\ Queue!Next
    <2>1. PICK s \in {"approved", "rejected"}, a \in {"approve", "reject"} :
              Review(r, i, a, s)
      BY <1>2 DEF Approve, Reject
    <2>2. /\ i \in todo[r] /\ item' = [item EXCEPT ![i] = s] /\ act' = act
          /\ UNCHANGED <<raced, edited>>
      BY <2>1 DEF Review
    <2>3. i \notin raced => item[i] = "pending"
      BY <2>1, <2>2 DEF Review, CopyInv
    <2>4. /\ \A q \in Runners : todo'[q] \subseteq todo[q]
          /\ i \notin todo'[r]
      BY <2>1 DEF Review, Done
    <2>5. \A q \in Runners : phase'[q] = "idle" => todo'[q] = {}
      BY <2>1 DEF Review, Done, CopyInv
    <2>6. CopyInv'
      <3>1. ASSUME NEW q \in Runners, NEW j \in todo'[q] \ raced
            PROVE  j \in todo[q] /\ item'[j] = item[j]
        <4>1. j \in todo[q] /\ (q = r => j # i)
          BY <2>4
        <4>2. q # r => j # i
          BY <2>2, <4>1 DEF CopyInv
        <4>3. QED
          BY <2>2, <4>1, <4>2
      <3>3. \A p, q \in Runners : p # q => todo'[p] \cap todo'[q] \subseteq raced
        BY <2>4 DEF CopyInv
      <3>4. QED
        BY <2>2, <2>5, <3>1, <3>3 DEF CopyInv
    <2>7. Queue!Review(i, s) \/ Queue!Overwrite(i, s)
      BY <2>2, <2>3 DEF Queue!Review, Queue!Overwrite
    <2>8. QED
      BY <2>6, <2>7
  <1>3. ASSUME NEW r \in Runners, NEW i \in Items,
               Refuse(r, i) \/ SagaFailed(r, i) \/ MarkExecuted(r, i)
        PROVE  CopyInv' /\ Queue!Next
    <2>1. PICK s \in {"executed", "execution_failed"} :
              /\ item' = [item EXCEPT ![i] = s]
              /\ Posting(r, i) /\ Done(r) /\ UNCHANGED <<act, raced, edited>>
      BY <1>3 DEF Refuse, SagaFailed, MarkExecuted, MarkFailed, FailedStatus
    <2>2. i \in todo[r] /\ (i \notin raced => item[i] \in Postable)
      BY <2>1 DEF Posting, CopyInv
    <2>3. \A q \in Runners : todo'[q] = IF q = r THEN {} ELSE todo[q]
      BY <2>1 DEF Done
    <2>4. CopyInv'
      BY <2>1, <2>2, <2>3 DEF Done, CopyInv
    <2>5. Queue!Execute(i, s) \/ Queue!Overwrite(i, s)
      BY <2>1, <2>2 DEF Queue!Execute, Queue!Overwrite, Postable
    <2>6. QED
      BY <2>4, <2>5
  <1>4. ASSUME NEW r \in Runners, Rerender(r) \/ CrashRequest(r)
        PROVE  CopyInv' /\ UNCHANGED Queue!itemVars
    BY <1>4 DEF Rerender, CrashRequest, Done, CopyInv
  <1>5. ASSUME NEW r \in Runners, NEW i \in Items, OpenForm(r, i)
        PROVE  CopyInv' /\ Queue!Next
    <2>1. CopyInv'
      <3>1. \A q \in Runners : q # r => todo'[q] = todo[q] /\ {i} \cap todo[q] \subseteq raced'
        BY <1>5 DEF OpenForm, HeldByOthers
      <3>2. raced \subseteq raced' /\ item' = item /\ todo'[r] = {i} /\ act'[r] = "edit"
        BY <1>5 DEF OpenForm
      <3>3. QED
        BY <1>5, <3>1, <3>2 DEF OpenForm, CopyInv
    <2>2. Queue!Race({i} \cap HeldByOthers(r))
      BY <1>5 DEF OpenForm, Queue!Race
    <2>3. QED
      BY <2>1, <2>2
  <1>6. ASSUME NEW r \in Runners, NEW i \in Items, NEW s \in Statuses, SaveForm(r, i, s)
         PROVE  CopyInv' /\ Queue!Next
    <2>1. /\ i \in todo[r] /\ item' = [item EXCEPT ![i] = s] /\ Done(r)
          /\ edited' = edited \cup {i} /\ UNCHANGED <<act, raced>>
      BY <1>6 DEF SaveForm
    <2>2. \A q \in Runners : todo'[q] = IF q = r THEN {} ELSE todo[q]
      BY <2>1 DEF Done
    <2>3. CopyInv'
      BY <2>1, <2>2 DEF Done, CopyInv
    <2>4. Queue!Correct(i, s)
      BY <2>1 DEF Queue!Correct
    <2>5. QED
      BY <2>3, <2>4 DEF Statuses
  <1>7. ASSUME NEW r \in Runners, NEW i \in Items, phase[r] # "idle",
               \/ \E o \in Ops : StartSaga(r, i, o)
               \/ PostLocally(r, i) \/ Announce(r, i) \/ RecordExecution(r, i)
        PROVE  CopyInv' /\ UNCHANGED Queue!itemVars
    BY <1>7 DEF StartSaga, PostLocally, Announce, RecordExecution, CopyInv
  <1>8. ASSUME NEW r \in Runners, SagaRuns(r) \/ UNCHANGED vars
        PROVE  CopyInv' /\ UNCHANGED Queue!itemVars
    BY <1>8 DEF SagaRuns, vars, queueVars, CopyInv
  <1>9. CASE UNCHANGED vars
    BY <1>9 DEF vars, queueVars, CopyInv
  <1>10. QED
    <2>1. ASSUME NEW r \in Runners, RequestStep(r)
          PROVE  CopyInv' /\ [Queue!Next]_(Queue!itemVars)
      <3>1. ASSUME NEW i \in Items,
                   \/ \E o \in Ops : StartSaga(r, i, o)
                   \/ PostLocally(r, i) \/ Announce(r, i) \/ RecordExecution(r, i)
            PROVE  CopyInv' /\ UNCHANGED Queue!itemVars
        BY <1>7, <3>1 DEF StartSaga, PostLocally, Announce, RecordExecution
      <3>2. QED
        BY <1>2, <1>3, <1>8, <2>1, <3>1 DEF RequestStep
    <2>2. QED
      BY <1>1, <1>4, <1>9, <1>5, <1>6, <2>1 DEF Next

(* The queue implements ItemLifecycle: an item no two requests held at     *)
(* once is reviewed once, its rejection is final unless a form says        *)
(* otherwise, and only if approved is it executed, once, however the saga  *)
(* fails and wherever requests die.                                        *)
THEOREM QueueImplementsItemLifecycle == Spec => ImplementsItemLifecycle
  <1>1. Init => Queue!Init /\ CopyInv
    BY InitCopyInv DEF Init, Queue!Init
  <1>2. QueueInv /\ CopyInv /\ [Next]_vars => CopyInv' /\ [Queue!Next]_(Queue!itemVars)
    BY LifecycleStep DEF QueueInv
  <1>3. QED
    BY <1>1, <1>2, QueueInvariant, PTL DEF Spec, ImplementsItemLifecycle, Queue!Spec

(* What ap_queue_detail's docstring promises of every item, restricted to  *)
(* the items no two requests held at once and no form was saved over.      *)
ReviewedOnceUnlessRaced ==
    [][\A i \in Items \ (raced \cup edited') :
          item[i] # "pending" /\ item'[i] # item[i] =>
              item'[i] \notin {"approved", "rejected"}]_item

(* Such an item is never reviewed again: a second review needs a race.     *)
THEOREM QueueReviewedOnceUnlessRaced == Spec => ReviewedOnceUnlessRaced
  <1>1. QueueInv /\ [Queue!Next]_(Queue!itemVars) =>
            [\A i \in Items \ (raced \cup edited') :
                item[i] # "pending" /\ item'[i] # item[i] =>
                    item'[i] \notin {"approved", "rejected"}]_item
    BY DEF QueueInv, QueueTypeOK, Queue!Next, Queue!itemVars, Queue!Review, Queue!Execute,
           Queue!Race, Queue!Overwrite, Queue!Correct
  <1>2. QED
    BY <1>1, QueueInvariant, QueueImplementsItemLifecycle, PTL
       DEF ReviewedOnceUnlessRaced, ImplementsItemLifecycle, Queue!Spec

-----------------------------------------------------------------------------
(* A post leaves its item marked with its outcome. *)

(* What was posted for an item is marked on it, or its request, still      *)
(* holding it, is about to.                                                *)
StillPosting(r, i) == /\ i \in todo[r] /\ act[r] = "post"
                      /\ phase[r] \in {"posted", "announced", "recorded"}

Marked(i) ==
    /\ localEntries[i] > 0 =>
           item[i] = "executed" \/ \E r \in Runners : StillPosting(r, i)
    /\ \A o \in Ops : opItem[o] = i =>
           \/ item[i] = IF opStatus[o] = "success" THEN "executed"
                                                   ELSE "execution_failed"
           \/ \E r \in Runners : cur[r] = o /\ i \in todo[r]

MarkedInv == \A i \in Items \ (raced \cup edited \cup interrupted) : Marked(i)

LEMMA InitMarkedInv == Init => MarkedInv
  BY QueueAssumption DEF Init, MarkedInv, Marked

(* Two requests that hold an item nobody raced for are one.                *)
LEMMA SoleHolder ==
  ASSUME CopyInv, NEW i \in Items \ raced, NEW r \in Runners, NEW q \in Runners,
         i \in todo[r], i \in todo[q]
  PROVE  q = r
  BY DEF CopyInv

(* A step that leaves item i to whoever is about to mark it. *)
LEMMA UntouchedMarked ==
  ASSUME NEW i \in Items, Marked(i),
         item'[i] = item[i], localEntries'[i] = localEntries[i],
         \A o \in Ops : opItem'[o] = i => opItem[o] = i /\ opStatus'[o] = opStatus[o],
         \A q \in Runners : StillPosting(q, i) => StillPosting(q, i)',
         \A q \in Runners : i \in todo[q] /\ cur[q] # NoOp =>
                                cur'[q] = cur[q] /\ i \in todo'[q]
  PROVE  Marked(i)'
  <1>1. localEntries'[i] > 0 =>
            item'[i] = "executed" \/ \E q \in Runners : StillPosting(q, i)'
    BY DEF Marked
  <1>2. ASSUME NEW o \in Ops, opItem'[o] = i
        PROVE  \/ item'[i] = IF opStatus'[o] = "success" THEN "executed"
                                                         ELSE "execution_failed"
               \/ \E q \in Runners : cur'[q] = o /\ i \in todo'[q]
    <2>1. opItem[o] = i /\ opStatus'[o] = opStatus[o]
      BY <1>2
    <2>2. ASSUME NEW q \in Runners, cur[q] = o, i \in todo[q]
          PROVE  cur'[q] = o /\ i \in todo'[q]
      BY <2>2, SagaAssumption
    <2>3. QED
      BY <2>1, <2>2 DEF Marked
  <1>3. QED
    BY <1>1, <1>2 DEF Marked

(* What an unraced item still shows while a request that wrote nothing yet *)
(* holds it: nothing was ever posted for it.                               *)
LEMMA NothingPostedYet ==
  ASSUME SagaInv, QueueInv, CopyInv, NEW i \in Items \ raced, Marked(i),
         NEW r \in Runners, i \in todo[r], phase[r] = "loaded", act[r] # "edit"
  PROVE  /\ ~(localEntries[i] > 0)
         /\ \A o \in Ops : opItem[o] # i
  <1>1. item[i] \in Postable \cup {"pending"}
    BY DEF CopyInv, QueueInv, QueueTypeOK
  <1>2. \A q \in Runners : i \in todo[q] => q = r
    BY SoleHolder
  <1>3. ~StillPosting(r, i) /\ cur[r] = NoOp
    BY DEF StillPosting, QueueInv, RequestInv
  <1>4. \A o \in Ops : ~\E q \in Runners : cur[q] = o /\ i \in todo[q]
    BY <1>2, <1>3, SagaAssumption
  <1>5. ~\E q \in Runners : StillPosting(q, i)
    BY <1>2, <1>3 DEF StillPosting
  <1>6. item[i] \notin {"executed", "execution_failed"}
    BY <1>1 DEF Postable
  <1>7. \A o \in Ops : item[i] # IF opStatus[o] = "success" THEN "executed"
                                                          ELSE "execution_failed"
    BY <1>6
  <1>8. QED
    BY <1>4, <1>5, <1>6, <1>7 DEF Marked

(* Races, forms and deaths are never forgotten. *)
LEMMA RaceAndCrashStay ==
  ASSUME [Next]_vars
  PROVE  /\ raced \subseteq raced' /\ edited \subseteq edited'
         /\ interrupted \subseteq interrupted'
  <1>1. ASSUME NEW r \in Runners, RequestStep(r)
        PROVE  UNCHANGED <<raced, edited, interrupted>>
    BY <1>1
    DEF RequestStep, Approve, Reject, Review, Refuse, StartSaga, PostLocally,
        SagaFailed, Announce, RecordExecution, MarkExecuted, MarkFailed, SagaRuns,
        queueVars
  <1>2. ASSUME NEW r \in Runners, Rerender(r) \/ CrashRequest(r)
        PROVE  UNCHANGED <<raced, edited>> /\ interrupted \subseteq interrupted'
    BY <1>2 DEF Rerender, CrashRequest
  <1>3. ASSUME NEW r \in Runners, NEW S \in SUBSET Items,
               NEW a \in {"approve", "reject", "post"}, Load(r, S, a)
        PROVE  raced \subseteq raced' /\ UNCHANGED <<edited, interrupted>>
    BY <1>3 DEF Load
  <1>4. ASSUME NEW r \in Runners, NEW i \in Items,
               OpenForm(r, i) \/ \E s \in Statuses : SaveForm(r, i, s)
        PROVE  /\ raced \subseteq raced' /\ edited \subseteq edited'
               /\ interrupted' = interrupted
    BY <1>4 DEF OpenForm, SaveForm
  <1>5. QED
    BY <1>1, <1>2, <1>3, <1>4 DEF Next, vars, queueVars

LEMMA NextMarkedInv ==
  ASSUME SagaInv, QueueInv, CopyInv, MarkedInv, [Next]_vars
  PROVE  MarkedInv'
  <1> SUFFICES ASSUME NEW i \in Items, i \notin raced' \cup edited' \cup interrupted'
               PROVE  Marked(i)'
    BY DEF MarkedInv
  <1> USE DEF QueueInv, QueueTypeOK
  <1>a. i \in Items \ raced /\ i \notin edited \cup interrupted /\ Marked(i)
    BY RaceAndCrashStay DEF MarkedInv
  <1>1. ASSUME NEW r \in Runners, NEW S \in SUBSET Items,
               NEW a \in {"approve", "reject", "post"}, Load(r, S, a)
        PROVE  Marked(i)'
    <2>1. todo[r] = {}
      BY <1>1 DEF Load, Idle, CopyInv
    <2>2. QED
      BY <1>1, <1>a, <2>1, UntouchedMarked
      DEF Load, StillPosting, sagaVars, localVars, rowVars
  <1>2. ASSUME NEW r \in Runners, NEW j \in Items, Approve(r, j) \/ Reject(r, j)
        PROVE  Marked(i)'
    <2>1. PICK s \in {"approved", "rejected"}, a \in {"approve", "reject"} :
              Review(r, j, a, s)
      BY <1>2 DEF Approve, Reject
    <2>2. /\ cur[r] = NoOp /\ act[r] \notin {"post", "edit"}
          /\ j \in todo[r] /\ phase[r] = "loaded"
      BY <2>1 DEF Review, RequestInv
    <2>3. UNCHANGED <<cur, act, localEntries, opItem, opStatus>>
      BY <2>1 DEF Review, sagaVars, localVars, rowVars
    <2>4. \A q \in Runners : q # r => phase'[q] = phase[q] /\ todo'[q] = todo[q]
      BY <2>1 DEF Review, Done
    <2>5. CASE i = j
      BY <1>a, <2>2, <2>3, <2>5, NothingPostedYet DEF Marked
    <2>6. CASE i # j
      <3>1. item'[i] = item[i]
        BY <2>1, <2>6 DEF Review
      <3>2. \A q \in Runners : StillPosting(q, i) => StillPosting(q, i)'
        BY <2>2, <2>3, <2>4 DEF StillPosting
      <3>3. QED
        BY <1>a, <2>2, <2>3, <2>4, <3>1, <3>2, UntouchedMarked
    <2>7. QED
      BY <2>5, <2>6
  <1>3. ASSUME NEW r \in Runners, NEW j \in Items, Refuse(r, j)
        PROVE  Marked(i)'
    <2>1. /\ phase[r] = "loaded" /\ act[r] = "post" /\ todo[r] = {j} /\ cur[r] = NoOp
          /\ item' = [item EXCEPT ![j] = FailedStatus] /\ Done(r)
          /\ UNCHANGED <<cur, act, localEntries, opItem, opStatus>>
      BY <1>3 DEF Refuse, Posting, MarkFailed, RequestInv, sagaVars, localVars, rowVars
    <2>2. CASE i = j
      BY <1>a, <2>1, <2>2, NothingPostedYet DEF Marked
    <2>3. CASE i # j
      BY <1>a, <2>1, <2>3, UntouchedMarked DEF Done, StillPosting
    <2>4. QED
      BY <2>2, <2>3
  <1>4. ASSUME NEW r \in Runners, NEW j \in Items, NEW o \in Ops, StartSaga(r, j, o)
        PROVE  Marked(i)'
    <2>1. /\ phase[r] = "loaded" /\ act[r] = "post" /\ todo[r] = {j} /\ cur[r] = NoOp
          /\ UNCHANGED <<act, localEntries, item, todo>>
          /\ phase' = [phase EXCEPT ![r] = "executing"]
          /\ cur' = [cur EXCEPT ![r] = o]
          /\ opItem' = [opItem EXCEPT ![o] = j]
          /\ \A p \in Ops : p # o => opStatus'[p] = opStatus[p]
      BY <1>4 DEF StartSaga, Begin, Posting, RequestInv, SagaInv, SagaTypeOK
    <2>2. \A q \in Runners : q # r => cur'[q] = cur[q] /\ phase'[q] = phase[q]
      BY <2>1
    <2>3. cur'[r] = o
      BY <2>1 DEF SagaInv, SagaTypeOK
    <2>4. CASE i = j
      BY <1>a, <2>1, <2>3, <2>4, NothingPostedYet DEF Marked
    <2>5. CASE i # j
      <3>1. \A p \in Ops : opItem'[p] = i => opItem[p] = i /\ opStatus'[p] = opStatus[p]
        BY <2>1, <2>5
      <3>2. \A q \in Runners : StillPosting(q, i) => StillPosting(q, i)'
        BY <2>1, <2>2 DEF StillPosting
      <3>3. QED
        BY <1>a, <2>1, <2>2, <3>1, <3>2, UntouchedMarked
    <2>6. QED
      BY <2>4, <2>5
  <1>5. ASSUME NEW r \in Runners, NEW j \in Items, PostLocally(r, j)
        PROVE  Marked(i)'
    <2>1. /\ phase[r] = "loaded" /\ act[r] = "post" /\ todo[r] = {j} /\ cur[r] = NoOp
          /\ UNCHANGED <<act, item, todo, cur, opItem, opStatus>>
          /\ phase' = [phase EXCEPT ![r] = "posted"]
          /\ localEntries' = [localEntries EXCEPT ![j] = @ + 1]
      BY <1>5 DEF PostLocally, Posting, RequestInv, sagaVars, localVars, rowVars
    <2>2. CASE i = j
      <3>1. StillPosting(r, i)'
        BY <2>1, <2>2 DEF StillPosting
      <3>2. QED
        BY <1>a, <2>1, <2>2, <3>1, NothingPostedYet DEF Marked
    <2>3. CASE i # j
      <3>1. \A q \in Runners : StillPosting(q, i) => StillPosting(q, i)'
        BY <2>1 DEF StillPosting
      <3>2. QED
        BY <1>a, <2>1, <2>3, <3>1, UntouchedMarked
    <2>4. QED
      BY <2>2, <2>3
  <1>6. ASSUME NEW r \in Runners, NEW j \in Items, SagaFailed(r, j) \/ MarkExecuted(r, j)
        PROVE  Marked(i)'
    <2>1. /\ todo[r] = {j} /\ act[r] = "post" /\ Done(r)
          /\ UNCHANGED <<act, localEntries, opItem, opStatus>>
          /\ \A q \in Runners : q # r => cur'[q] = cur[q]
      BY <1>6 DEF SagaFailed, MarkExecuted, MarkFailed, Posting, Leave,
                  sagaVars, localVars, rowVars, SagaInv, SagaTypeOK
    <2>2. CASE i = j
      <3>1. \A q \in Runners : i \in todo[q] => q = r
        BY <1>a, <2>1, <2>2, SoleHolder
      <3>2. CASE SagaFailed(r, j)
        <4>1. /\ phase[r] = "executing" /\ opStatus[cur[r]] # "success"
              /\ item' = [item EXCEPT ![i] = "execution_failed"]
              /\ item[i] \notin {"executed", "execution_failed"}
          BY <1>a, <2>1, <2>2, <3>2
          DEF SagaFailed, OutcomeOk, MarkFailed, FailedStatus, CopyInv, Postable
        <4>2. ~(localEntries[i] > 0)
          BY <1>a, <3>1, <4>1 DEF Marked, StillPosting
        <4>3. \A o \in Ops : opItem[o] = i => o = cur[r]
          BY <1>a, <3>1, <4>1 DEF Marked
        <4>4. QED
          BY <2>1, <4>1, <4>2, <4>3 DEF Marked
      <3>3. CASE MarkExecuted(r, j)
        <4>1. /\ phase[r] = "recorded" /\ item' = [item EXCEPT ![i] = "executed"]
              /\ item[i] \notin {"executed", "execution_failed"}
          BY <1>a, <2>1, <2>2, <3>3 DEF MarkExecuted, CopyInv, Postable
        <4>2. cur[r] = NoOp \/ opStatus[cur[r]] = "success"
          BY <4>1 DEF RequestInv, PastExecute
        <4>3. \A o \in Ops : opItem[o] = i => o = cur[r]
          BY <1>a, <3>1, <4>1 DEF Marked
        <4>4. QED
          BY <2>1, <4>1, <4>2, <4>3, SagaAssumption DEF Marked
      <3>4. QED
        BY <1>6, <3>2, <3>3
    <2>3. CASE i # j
      <3>1. item'[i] = item[i]
        BY <1>6, <2>3 DEF SagaFailed, MarkExecuted, MarkFailed
      <3>2. \A q \in Runners : i \in todo[q] => q # r
        BY <2>1, <2>3
      <3>3. \A q \in Runners : q # r => phase'[q] = phase[q] /\ todo'[q] = todo[q]
        BY <2>1 DEF Done
      <3>4. \A q \in Runners : StillPosting(q, i) => StillPosting(q, i)'
        BY <2>1, <3>2, <3>3 DEF StillPosting
      <3>5. QED
        BY <1>a, <2>1, <3>1, <3>2, <3>3, <3>4, UntouchedMarked
    <2>4. QED
      BY <2>2, <2>3
  <1>7. ASSUME NEW r \in Runners, NEW j \in Items, Announce(r, j) \/ RecordExecution(r, j)
        PROVE  Marked(i)'
    <2>1. /\ todo[r] = {j}
          /\ UNCHANGED <<item, act, todo, cur, localEntries, opItem, opStatus>>
          /\ phase' = [phase EXCEPT ![r] = phase'[r]]
          /\ phase'[r] \in {"announced", "recorded"}
      BY <1>7 DEF Announce, RecordExecution, Posting, sagaVars, localVars, rowVars
    <2>2. \A q \in Runners : StillPosting(q, i) => StillPosting(q, i)'
      BY <2>1 DEF StillPosting
    <2>3. QED
      BY <1>a, <2>1, <2>2, UntouchedMarked
  <1>8. ASSUME NEW r \in Runners, Rerender(r)
        PROVE  Marked(i)'
    <2>1. /\ act[r] # "post" /\ cur[r] = NoOp /\ Done(r)
          /\ UNCHANGED <<item, act, cur, localEntries, opItem, opStatus>>
      BY <1>8 DEF Rerender, RequestInv, sagaVars, localVars, rowVars
    <2>2. \A q \in Runners : q # r => phase'[q] = phase[q] /\ todo'[q] = todo[q]
      BY <2>1 DEF Done
    <2>3. \A q \in Runners : StillPosting(q, i) => StillPosting(q, i)'
      BY <2>1, <2>2 DEF StillPosting
    <2>4. QED
      BY <1>a, <2>1, <2>2, <2>3, UntouchedMarked
  <1>9. ASSUME NEW r \in Runners, CrashRequest(r)
        PROVE  Marked(i)'
    <2>1. /\ Done(r) /\ (act[r] = "post" => i \notin todo[r])
          /\ UNCHANGED <<item, act, localEntries, opItem, opStatus>>
          /\ \A q \in Runners : q # r => cur'[q] = cur[q]
      BY <1>9, <1>a DEF CrashRequest, Crash, sagaVars, localVars, rowVars, SagaInv, SagaTypeOK
    <2>2. \A q \in Runners : q # r => phase'[q] = phase[q] /\ todo'[q] = todo[q]
      BY <2>1 DEF Done
    <2>3. cur[r] = NoOp \/ act[r] = "post"
      BY DEF RequestInv, PosterInv
    <2>4. \A q \in Runners : StillPosting(q, i) => StillPosting(q, i)'
      BY <2>1, <2>2 DEF StillPosting
    <2>5. QED
      BY <1>a, <2>1, <2>2, <2>3, <2>4, UntouchedMarked
  <1>10. ASSUME NEW r \in Runners, SagaRuns(r)
         PROVE  Marked(i)'
    <2>1. SagaStep(r) /\ UNCHANGED queueVars
      BY <1>10 DEF SagaRuns
    <2>2. cur' = cur /\ cur[r] \in Ops /\ pc[r] # "idle"
      BY <2>1, SagaStepFrame
    <2>3. \A o \in Ops : o # cur[r] => opStatus'[o] = opStatus[o]
      BY <2>1 DEF SagaStep, CreateMove, PostMove, RecordSuccess, BackOff, Escalate,
                  FailFast, Wake, rowVars, SagaInv, SagaTypeOK
    <2>4. opItem[cur[r]] \in todo[r]
      BY <2>2 DEF RequestInv
    <2>5. QED
      BY <1>a, <2>1, <2>2, <2>3, <2>4 DEF Marked, StillPosting, queueVars
  <1>11. ASSUME NEW r \in Runners, NEW j \in Items, OpenForm(r, j)
         PROVE  Marked(i)'
    <2>1. todo[r] = {}
      BY <1>11 DEF OpenForm, Idle, CopyInv
    <2>2. QED
      BY <1>11, <1>a, <2>1, UntouchedMarked
      DEF OpenForm, StillPosting, sagaVars, localVars, rowVars
  <1>12. ASSUME NEW r \in Runners, NEW j \in Items, NEW s \in Statuses, SaveForm(r, j, s)
         PROVE  Marked(i)'
    <2>1. /\ act[r] = "edit" /\ cur[r] = NoOp /\ Done(r)
          /\ UNCHANGED <<act, cur, localEntries, opItem, opStatus>>
      BY <1>12 DEF SaveForm, RequestInv, sagaVars, localVars, rowVars
    <2>2. \A q \in Runners : q # r => phase'[q] = phase[q] /\ todo'[q] = todo[q]
      BY <2>1 DEF Done
    <2>3. \A q \in Runners : StillPosting(q, i) => StillPosting(q, i)'
      BY <2>1, <2>2 DEF StillPosting
    <2>4. item'[i] = item[i]
      BY <1>12 DEF SaveForm
    <2>5. QED
      BY <1>a, <2>1, <2>2, <2>3, <2>4, UntouchedMarked
  <1>13. CASE UNCHANGED vars
    BY <1>a, <1>13 DEF vars, sagaVars, localVars, rowVars, queueVars, Marked, StillPosting
  <1>14. QED
    BY <1>1, <1>2, <1>3, <1>4, <1>5, <1>6, <1>7, <1>8, <1>9, <1>10, <1>13, <1>11, <1>12
    DEF Next, RequestStep

(* A bill that was posted is never left behind an item that does not say   *)
(* so, and no failed post goes unnoticed, unless two requests raced for    *)
(* the item, a form was saved over it or the posting process died.         *)
THEOREM QueueOutcomeIsMarked == Spec => []OutcomeIsMarked
  <1>1. Init => CopyInv /\ MarkedInv
    BY InitCopyInv, InitMarkedInv
  <1>2. SagaInv /\ QueueInv /\ CopyInv /\ MarkedInv /\ [Next]_vars =>
            CopyInv' /\ MarkedInv'
    BY LifecycleStep, NextMarkedInv DEF QueueInv
  <1>3. MarkedInv => OutcomeIsMarked
    BY DEF MarkedInv, Marked, StillPosting, OutcomeIsMarked
  <1>4. QED
    BY <1>1, <1>2, <1>3, QueueInvariant, PTL DEF Spec

-----------------------------------------------------------------------------
(* A bill is posted twice only after a race, a form or a crash. *)

PostedOnce(i) ==
    /\ localEntries[i] \in {0, 1}
    /\ localEntries[i] > 0 => \A o \in Ops : opItem[o] # i
    /\ \A o, p \in Ops : opItem[o] = i /\ opItem[p] = i => o = p

PostedOnceInv == \A i \in Items \ (raced \cup edited \cup interrupted) : PostedOnce(i)

LEMMA InitPostedOnceInv == Init => PostedOnceInv
  BY QueueAssumption DEF Init, PostedOnceInv, PostedOnce

(* Only the start of a saga and a local post add to what an item has; both *)
(* find nothing posted yet.                                                *)
LEMMA NextPostedOnceInv ==
  ASSUME SagaInv, QueueInv, CopyInv, MarkedInv, PostedOnceInv, [Next]_vars
  PROVE  PostedOnceInv'
  <1> SUFFICES ASSUME NEW i \in Items, i \notin raced' \cup edited' \cup interrupted'
               PROVE  PostedOnce(i)'
    BY DEF PostedOnceInv
  <1> USE DEF QueueInv, QueueTypeOK
  <1>1. i \in Items \ raced /\ i \notin edited \cup interrupted
    BY RaceAndCrashStay
  <1>2. PostedOnce(i) /\ Marked(i)
    BY <1>1 DEF PostedOnceInv, MarkedInv
  <1>3. ASSUME NEW r \in Runners, NEW j \in Items, NEW o \in Ops, StartSaga(r, j, o)
        PROVE  PostedOnce(i)'
    <2>1. /\ phase[r] = "loaded" /\ act[r] = "post" /\ todo[r] = {j}
          /\ localEntries' = localEntries /\ opItem' = [opItem EXCEPT ![o] = j]
      BY <1>3 DEF StartSaga, Posting
    <2>2. CASE i = j
      BY <1>1, <1>2, <2>1, <2>2, NothingPostedYet DEF PostedOnce
    <2>3. CASE i # j
      BY <1>2, <2>1, <2>3 DEF PostedOnce
    <2>4. QED
      BY <2>2, <2>3
  <1>4. ASSUME NEW r \in Runners, NEW j \in Items, PostLocally(r, j)
        PROVE  PostedOnce(i)'
    <2>1. /\ phase[r] = "loaded" /\ act[r] = "post" /\ todo[r] = {j} /\ opItem' = opItem
          /\ localEntries' = [localEntries EXCEPT ![j] = @ + 1]
      BY <1>4 DEF PostLocally, Posting
    <2>2. CASE i = j
      BY <1>1, <1>2, <2>1, <2>2, NothingPostedYet DEF PostedOnce
    <2>3. CASE i # j
      BY <1>2, <2>1, <2>3 DEF PostedOnce
    <2>4. QED
      BY <2>2, <2>3
  <1>5. CASE UNCHANGED <<localEntries, opItem>>
    BY <1>2, <1>5 DEF PostedOnce
  <1>6. \/ \E r \in Runners, j \in Items : \/ \E o \in Ops : StartSaga(r, j, o)
                                           \/ PostLocally(r, j)
        \/ UNCHANGED <<localEntries, opItem>>
    <2>1. ASSUME NEW r \in Runners, RequestStep(r)
          PROVE  \/ \E j \in Items : \/ \E o \in Ops : StartSaga(r, j, o)
                                    \/ PostLocally(r, j)
                 \/ UNCHANGED <<localEntries, opItem>>
      BY <2>1
      DEF RequestStep, Approve, Reject, Review, Refuse, SagaFailed, Announce,
          RecordExecution, MarkExecuted, MarkFailed, SagaRuns, queueVars
    <2>2. QED
      BY <2>1 DEF Next, Load, Rerender, OpenForm, SaveForm, CrashRequest, vars, queueVars
  <1>7. QED
    BY <1>3, <1>4, <1>5, <1>6

(* At most one posting per item: what run_erp_operation is to be called    *)
(* for once is, unless two requests held the item, a form was saved over   *)
(* it or a post died.                                                      *)
THEOREM QueueDuplicateNeedsRaceOrCrash == Spec => []DuplicateNeedsRaceOrCrash
  <1>1. Init => CopyInv /\ MarkedInv /\ PostedOnceInv
    BY InitCopyInv, InitMarkedInv, InitPostedOnceInv
  <1>2. SagaInv /\ QueueInv /\ CopyInv /\ MarkedInv /\ PostedOnceInv /\ [Next]_vars =>
            CopyInv' /\ MarkedInv' /\ PostedOnceInv'
    BY LifecycleStep, NextMarkedInv, NextPostedOnceInv DEF QueueInv
  <1>3. PostedOnceInv => DuplicateNeedsRaceOrCrash
    <2> SUFFICES ASSUME NEW i \in Items, PostedOnce(i)
                 PROVE  ~(Cardinality(SuccessesOf(i)) + localEntries[i] > 1)
      BY DEF PostedOnceInv, DuplicateNeedsRaceOrCrash
    <2>1. CASE SuccessesOf(i) = {}
      BY <2>1, FS_EmptySet DEF PostedOnce
    <2>2. ASSUME NEW o \in SuccessesOf(i)
          PROVE  ~(Cardinality(SuccessesOf(i)) + localEntries[i] > 1)
      <3>1. SuccessesOf(i) = {o} /\ localEntries[i] = 0
        BY <2>2 DEF PostedOnce, SuccessesOf
      <3>2. QED
        BY <3>1, FS_Singleton
    <2>3. QED
      BY <2>1, <2>2
  <1>4. QED
    BY <1>1, <1>2, <1>3, QueueInvariant, PTL DEF Spec

-----------------------------------------------------------------------------
(* bill.posted never announces more postings than there are.               *)

(* The postings of an item that are, or were, past their announcement; and *)
(* the requests that have posted locally and not announced it.             *)
AnnouncedOps(i) ==
    {o \in SuccessesOf(i) : \A r \in Runners : cur[r] = o => phase[r] # "executing"}
Unannounced(i) == {r \in Runners : phase[r] = "posted" /\ todo[r] = {i}}

AnnouncedItem(i) ==
    /\ IsFiniteSet(SuccessesOf(i))
    /\ i \in ErpItems => billPosted[i] <= Cardinality(AnnouncedOps(i))
    /\ i \notin ErpItems => /\ IsFiniteSet(Unannounced(i))
                            /\ billPosted[i] + Cardinality(Unannounced(i)) <= localEntries[i]

AnnouncedInv == \A i \in Items : AnnouncedItem(i)

(* A step that announces nothing, posts nothing locally, begins no saga.   *)
Quiet ==
    /\ UNCHANGED <<billPosted, localEntries, opItem>>
    /\ \A r \in Runners :
          /\ phase'[r] = "posted" => phase[r] = "posted" /\ todo'[r] = todo[r]
          /\ phase'[r] = "executing" => phase[r] = "executing" /\ cur'[r] = cur[r]

LEMMA QueueCases ==
  ASSUME SagaInv, QueueInv, [Next]_vars
  PROVE  \/ \E r \in Runners, i \in Items : \/ Announce(r, i) \/ PostLocally(r, i)
                                          \/ \E o \in Ops : StartSaga(r, i, o)
         \/ Quiet
  <1> USE DEF QueueInv, QueueTypeOK, SagaInv, SagaTypeOK, queueVars
  <1>1. ASSUME NEW r \in Runners, NEW i \in Items, Approve(r, i) \/ Reject(r, i) PROVE Quiet
    BY <1>1 DEF Quiet, Approve, Reject, Review, Done, sagaVars, localVars
  <1>2. ASSUME NEW r \in Runners, NEW i \in Items, Refuse(r, i) PROVE Quiet
    BY <1>2 DEF Quiet, Refuse, MarkFailed, Done, sagaVars, localVars
  <1>3. ASSUME NEW r \in Runners, NEW i \in Items, SagaFailed(r, i) PROVE Quiet
    BY <1>3 DEF Quiet, SagaFailed, MarkFailed, Done, Leave
  <1>4. ASSUME NEW r \in Runners, NEW i \in Items, RecordExecution(r, i) PROVE Quiet
    BY <1>4 DEF Quiet, RecordExecution, sagaVars, localVars
  <1>5. ASSUME NEW r \in Runners, NEW i \in Items, MarkExecuted(r, i) PROVE Quiet
    BY <1>5 DEF Quiet, MarkExecuted, Done, Leave, sagaVars, localVars
  <1>6. ASSUME NEW r \in Runners, SagaRuns(r) PROVE Quiet
    BY <1>6, SagaStepFrame DEF Quiet, SagaRuns
  <1>7. ASSUME NEW r \in Runners, Rerender(r) PROVE Quiet
    BY <1>7 DEF Quiet, Rerender, Done, sagaVars, localVars
  <1>8. ASSUME NEW r \in Runners, CrashRequest(r) PROVE Quiet
    BY <1>8 DEF Quiet, CrashRequest, Done, Crash, sagaVars, localVars
  <1>9. ASSUME NEW r \in Runners, NEW S \in SUBSET Items,
               NEW a \in {"approve", "reject", "post"}, Load(r, S, a)
        PROVE  Quiet
    BY <1>9 DEF Quiet, Load, Idle, sagaVars, localVars
  <1>10. ASSUME NEW r \in Runners, NEW i \in Items, OpenForm(r, i) PROVE Quiet
    BY <1>10 DEF Quiet, OpenForm, Idle, sagaVars, localVars
  <1>11. ASSUME NEW r \in Runners, NEW i \in Items, NEW s \in Statuses, SaveForm(r, i, s)
         PROVE  Quiet
    BY <1>11 DEF Quiet, SaveForm, Done, sagaVars, localVars
  <1>12. CASE UNCHANGED vars
    BY <1>12 DEF Quiet, vars, sagaVars, localVars
  <1>13. QED
    BY <1>1, <1>2, <1>3, <1>4, <1>5, <1>6, <1>7, <1>8, <1>9, <1>12, <1>10, <1>11
    DEF Next, RequestStep

(* One step adds one success at most, and an operation keeps its item.     *)
LEMMA SuccessesGrow ==
  ASSUME SagaInv, QueueInv, [Next]_vars, NEW i \in Items
  PROVE  \E x : /\ SuccessesOf(i) \subseteq SuccessesOf(i)'
                /\ SuccessesOf(i)' \subseteq SuccessesOf(i) \cup {x}
  <1>1. \E x : \A o \in Ops : opStatus'[o] = "success" => opStatus[o] = "success" \/ o = x
    <2>1. ASSUME NEW r \in Runners,
                 \/ \E o \in Ops : Begin(r, o)
                 \/ SagaStep(r) \/ Leave(r) \/ Crash(r)
          PROVE  \A o \in Ops : opStatus'[o] = "success" => opStatus[o] = "success" \/ o = cur[r]
      BY <2>1 DEF SagaInv, SagaTypeOK, Begin, SagaStep, CreateMove, PostMove, RecordSuccess,
                  BackOff, Escalate, FailFast, Wake, Leave, Crash, rowVars, EscalatedStatus
    <2>2. CASE UNCHANGED sagaVars
      BY <2>2 DEF sagaVars, rowVars
    <2>3. QED
      BY <2>1, <2>2, StepIsSagaStep DEF SagaNext
  <1>2. \A o \in Ops : opStatus[o] = "success" => opStatus'[o] = "success" /\ opItem'[o] = opItem[o]
    <2>1. \A o \in Ops : opStatus[o] = "success" => opStatus'[o] = "success"
      BY SuccessStays, StepIsSagaStep
    <2>2. ASSUME NEW r \in Runners, NEW j \in Items, NEW p \in Ops, StartSaga(r, j, p)
          PROVE  \A o \in Ops : opStatus[o] = "success" => opItem'[o] = opItem[o]
      BY <2>2 DEF StartSaga, Begin, QueueInv, QueueTypeOK
    <2>3. QED
      BY <2>1, <2>2, QueueCases DEF Announce, PostLocally, Quiet
  <1>3. \A o \in Ops : opStatus'[o] = "success" /\ opItem'[o] = i =>
                           opItem[o] = i \/ opStatus[o] # "success"
    BY <1>2
  <1>4. QED
    BY <1>1, <1>2, <1>3 DEF SuccessesOf

(* What was announced stays so: nobody begins an operation that succeeded. *)
LEMMA AnnouncedOpsStay ==
  ASSUME SagaInv, QueueInv, [Next]_vars, NEW i \in Items
  PROVE  AnnouncedOps(i) \subseteq AnnouncedOps(i)'
  <1>1. ASSUME NEW r \in Runners, phase'[r] = "executing",
               ~(phase[r] = "executing" /\ cur'[r] = cur[r])
        PROVE  opStatus[cur'[r]] = "absent"
    <2>1. ASSUME NEW q \in Runners, NEW j \in Items, NEW o \in Ops, StartSaga(q, j, o)
          PROVE  opStatus[cur'[r]] = "absent"
      BY <1>1, <2>1 DEF StartSaga, Begin, QueueInv, QueueTypeOK, SagaInv, SagaTypeOK
    <2>2. ASSUME NEW q \in Runners, NEW j \in Items, Announce(q, j) \/ PostLocally(q, j)
          PROVE  FALSE
      BY <1>1, <2>2 DEF Announce, PostLocally, QueueInv, QueueTypeOK, sagaVars, localVars
    <2>3. QED
      BY <1>1, <2>1, <2>2, QueueCases DEF Quiet
  <1>2. SuccessesOf(i) \subseteq SuccessesOf(i)'
    BY SuccessesGrow
  <1>3. QED
    BY <1>1, <1>2 DEF AnnouncedOps, SuccessesOf

(* The announcement of an ERP posting is that of its own operation.        *)
LEMMA AnnounceErp ==
  ASSUME SagaInv, QueueInv, NEW r \in Runners, NEW i \in ErpItems, Announce(r, i)
  PROVE  cur[r] \in AnnouncedOps(i)' /\ cur[r] \notin AnnouncedOps(i)
  <1>1. i \in Items /\ i \in todo[r] /\ todo[r] = {i} /\ act[r] = "post"
    BY QueueAssumption DEF Announce, Posting
  <1>2. phase[r] = "executing" /\ OutcomeOk(r)
    BY <1>1 DEF Announce, QueueInv, PostingInv
  <1>3. cur[r] \in SuccessesOf(i) /\ pc[r] # "idle"
    BY <1>1, <1>2 DEF OutcomeOk, SuccessesOf, QueueInv, RequestInv, SagaInv, RunnerInv
  <1>4. phase'[r] = "announced" /\ UNCHANGED <<pc, cur, opStatus, opItem>>
    BY DEF Announce, QueueInv, QueueTypeOK, sagaVars, rowVars, localVars
  <1>5. \A q \in Runners : cur'[q] = cur[r] => q = r
    BY <1>3, <1>4, SagaAssumption DEF QueueInv, RequestInv, SagaInv, NotShared, SuccessesOf
  <1>6. QED
    BY <1>2, <1>3, <1>4, <1>5 DEF AnnouncedOps, SuccessesOf

LEMMA NextAnnouncedInv ==
  ASSUME SagaInv, QueueInv, QueueInv', AnnouncedInv, [Next]_vars
  PROVE  AnnouncedInv'
  <1> SUFFICES ASSUME NEW i \in Items PROVE AnnouncedItem(i)'
    BY DEF AnnouncedInv
  <1>0. /\ AnnouncedItem(i) /\ billPosted[i] \in Nat /\ billPosted'[i] \in Nat
        /\ localEntries[i] \in Nat /\ localEntries'[i] \in Nat
    BY QueueAssumption DEF AnnouncedInv, QueueInv, QueueTypeOK
  <1>1. IsFiniteSet(SuccessesOf(i)')
    <2>1. PICK x : SuccessesOf(i)' \subseteq SuccessesOf(i) \cup {x}
      BY SuccessesGrow
    <2>2. IsFiniteSet(SuccessesOf(i) \cup {x})
      BY <1>0, FS_AddElement DEF AnnouncedItem
    <2>3. QED
      BY <2>1, <2>2, FS_Subset
  <1>2. CASE i \in ErpItems
    <2>1. /\ AnnouncedOps(i) \subseteq AnnouncedOps(i)' /\ IsFiniteSet(AnnouncedOps(i)')
          /\ IsFiniteSet(AnnouncedOps(i))
      <3>1. AnnouncedOps(i) \subseteq AnnouncedOps(i)'
        BY AnnouncedOpsStay
      <3>2. AnnouncedOps(i)' \subseteq SuccessesOf(i)'
        BY DEF AnnouncedOps
      <3>3. QED
        BY <1>1, <3>1, <3>2, FS_Subset
    <2>2. /\ Cardinality(AnnouncedOps(i)) <= Cardinality(AnnouncedOps(i)')
          /\ Cardinality(AnnouncedOps(i)) \in Nat /\ Cardinality(AnnouncedOps(i)') \in Nat
      BY <2>1, FS_Subset, FS_CardinalityType
    <2>3. billPosted[i] <= Cardinality(AnnouncedOps(i))
      BY <1>0, <1>2 DEF AnnouncedItem
    <2>4. CASE billPosted'[i] = billPosted[i]
      BY <1>0, <1>1, <1>2, <2>2, <2>3, <2>4 DEF AnnouncedItem
    <2>5. ASSUME NEW r \in Runners, Announce(r, i) PROVE AnnouncedItem(i)'
      <3>1. cur[r] \in AnnouncedOps(i)' /\ cur[r] \notin AnnouncedOps(i)
        BY <1>2, <2>5, AnnounceErp
      <3>2. AnnouncedOps(i) # AnnouncedOps(i)'
        BY <3>1
      <3>3. Cardinality(AnnouncedOps(i)) # Cardinality(AnnouncedOps(i)')
        BY <2>1, <3>2, FS_Subset
      <3>4. billPosted'[i] <= billPosted[i] + 1
        BY <1>0, <2>5 DEF Announce, QueueInv, QueueTypeOK
      <3>5. billPosted'[i] <= Cardinality(AnnouncedOps(i)')
        BY <1>0, <2>2, <2>3, <3>3, <3>4
      <3>6. QED
        BY <1>1, <1>2, <3>5 DEF AnnouncedItem
    <2>6. billPosted'[i] = billPosted[i] \/ \E r \in Runners : Announce(r, i)
      BY QueueCases DEF Quiet, Announce, PostLocally, StartSaga, QueueInv, QueueTypeOK
    <2>7. QED
      BY <2>4, <2>5, <2>6
  <1>3. CASE i \notin ErpItems
    <2>0. /\ IsFiniteSet(Unannounced(i)) /\ Cardinality(Unannounced(i)) \in Nat
          /\ billPosted[i] + Cardinality(Unannounced(i)) <= localEntries[i]
      BY <1>0, <1>3, FS_CardinalityType DEF AnnouncedItem
    <2>1. ASSUME NEW r \in Runners, PostLocally(r, i) PROVE AnnouncedItem(i)'
      <3>1. /\ Unannounced(i)' = Unannounced(i) \cup {r} /\ r \notin Unannounced(i)
            /\ localEntries'[i] = localEntries[i] + 1 /\ billPosted'[i] = billPosted[i]
        BY <2>1 DEF PostLocally, Posting, Unannounced, QueueInv, QueueTypeOK
      <3>2. /\ IsFiniteSet(Unannounced(i)')
            /\ Cardinality(Unannounced(i)') = Cardinality(Unannounced(i)) + 1
        BY <2>0, <3>1, FS_AddElement
      <3>3. QED
        BY <1>0, <1>1, <1>3, <2>0, <3>1, <3>2 DEF AnnouncedItem
    <2>2. ASSUME NEW r \in Runners, Announce(r, i) PROVE AnnouncedItem(i)'
      <3>1. phase[r] = "posted"
        BY <1>3, <2>2 DEF Announce, Posting, OutcomeOk, QueueInv, RequestInv
      <3>2. /\ Unannounced(i)' = Unannounced(i) \ {r} /\ r \in Unannounced(i)
            /\ localEntries'[i] = localEntries[i]
            /\ billPosted'[i] = billPosted[i] \/ billPosted'[i] = billPosted[i] + 1
        BY <1>0, <2>2, <3>1 DEF Announce, Posting, Unannounced, QueueInv, QueueTypeOK
      <3>3. /\ IsFiniteSet(Unannounced(i)')
            /\ Cardinality(Unannounced(i)') = Cardinality(Unannounced(i)) - 1
        BY <2>0, <3>2, FS_RemoveElement
      <3>4. QED
        BY <1>0, <1>1, <1>3, <2>0, <3>2, <3>3 DEF AnnouncedItem
    <2>3. ASSUME billPosted'[i] = billPosted[i], localEntries'[i] = localEntries[i],
                 Unannounced(i)' \subseteq Unannounced(i)
          PROVE  AnnouncedItem(i)'
      <3>1. /\ IsFiniteSet(Unannounced(i)') /\ Cardinality(Unannounced(i)') \in Nat
            /\ Cardinality(Unannounced(i)') <= Cardinality(Unannounced(i))
        BY <2>0, <2>3, FS_Subset, FS_CardinalityType
      <3>2. QED
        BY <1>0, <1>1, <1>3, <2>0, <2>3, <3>1 DEF AnnouncedItem
    <2>4. ASSUME NEW r \in Runners, NEW j \in Items, i # j,
                 \/ Announce(r, j) \/ PostLocally(r, j)
          PROVE  AnnouncedItem(i)'
      <3>1. /\ billPosted'[i] = billPosted[i] /\ localEntries'[i] = localEntries[i]
            /\ todo' = todo /\ todo[r] = {j}
            /\ \A q \in Runners \ {r} : phase'[q] = phase[q]
        BY <2>4 DEF Announce, PostLocally, Posting, QueueInv, QueueTypeOK
      <3>2. Unannounced(i)' \subseteq Unannounced(i)
        BY <2>4, <3>1 DEF Unannounced
      <3>3. QED
        BY <2>3, <3>1, <3>2
    <2>5. ASSUME NEW r \in Runners, NEW j \in Items, NEW o \in Ops, StartSaga(r, j, o)
          PROVE  AnnouncedItem(i)'
      <3>1. /\ billPosted'[i] = billPosted[i] /\ localEntries'[i] = localEntries[i]
            /\ todo' = todo /\ phase' = [phase EXCEPT ![r] = "executing"]
        BY <2>5 DEF StartSaga
      <3>2. Unannounced(i)' \subseteq Unannounced(i)
        BY <3>1 DEF Unannounced, QueueInv, QueueTypeOK
      <3>3. QED
        BY <2>3, <3>1, <3>2
    <2>6. ASSUME Quiet PROVE AnnouncedItem(i)'
      BY <2>3, <2>6 DEF Quiet, Unannounced
    <2>7. QED
      BY <2>1, <2>2, <2>4, <2>5, <2>6, QueueCases
  <1>4. QED
    BY <1>2, <1>3

(* As many bill.posted events as postings at most, whoever races or dies.  *)
THEOREM QueueAnnouncedBillsExist == Spec => []AnnouncedBillsExist
  <1>1. Init => AnnouncedInv
    <2> SUFFICES ASSUME Init, NEW i \in Items PROVE AnnouncedItem(i)
      BY DEF AnnouncedInv
    <2>1. SuccessesOf(i) = {} /\ AnnouncedOps(i) = {} /\ Unannounced(i) = {}
      BY DEF Init, SagaInit, SuccessesOf, AnnouncedOps, Unannounced
    <2>2. billPosted[i] = 0 /\ localEntries[i] = 0
      BY DEF Init
    <2>3. QED
      BY <2>1, <2>2, FS_EmptySet DEF AnnouncedItem
  <1>2. SagaInv /\ QueueInv /\ QueueInv' /\ AnnouncedInv /\ [Next]_vars => AnnouncedInv'
    BY NextAnnouncedInv
  <1>3. QueueInv /\ AnnouncedInv => AnnouncedBillsExist
    <2> SUFFICES ASSUME QueueInv, NEW i \in Items, AnnouncedItem(i)
                 PROVE  billPosted[i] <= Cardinality(SuccessesOf(i)) + localEntries[i]
      BY DEF AnnouncedInv, AnnouncedBillsExist
    <2>1. /\ billPosted[i] \in Nat /\ localEntries[i] \in Nat
          /\ Cardinality(SuccessesOf(i)) \in Nat
      BY QueueAssumption, FS_CardinalityType DEF QueueInv, QueueTypeOK, AnnouncedItem
    <2>2. CASE i \in ErpItems
      <3>1. AnnouncedOps(i) \subseteq SuccessesOf(i)
        BY DEF AnnouncedOps
      <3>2. /\ Cardinality(AnnouncedOps(i)) <= Cardinality(SuccessesOf(i))
            /\ Cardinality(AnnouncedOps(i)) \in Nat
        BY <3>1, FS_Subset, FS_CardinalityType DEF AnnouncedItem
      <3>3. QED
        BY <2>1, <2>2, <3>2 DEF AnnouncedItem
    <2>3. CASE i \notin ErpItems
      <3>1. Cardinality(Unannounced(i)) \in Nat
        BY <2>3, FS_CardinalityType DEF AnnouncedItem
      <3>2. QED
        BY <2>1, <2>3, <3>1 DEF AnnouncedItem
    <2>4. QED
      BY <2>2, <2>3
  <1>4. QED
    BY <1>1, <1>2, <1>3, QueueInvariant, PTL DEF Spec
=============================================================================
