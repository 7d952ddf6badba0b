------------------------------ MODULE ErpSaga -------------------------------
(***************************************************************************)
(* accounting/saga.py: run_erp_operation wraps one journal-entry write to  *)
(* the tenant's ERP in an ERPOperation row.  The write itself is the Odoo  *)
(* connector's post_journal_entry(post=True): two remote calls, "create"   *)
(* a draft account.move and "action_post" it.  Any remote call can raise   *)
(* before or after it took effect, and the process that runs the saga can  *)
(* die between any two steps.                                              *)
(*                                                                         *)
(* A runner is one thread inside run_erp_operation.  pc[r] says where it   *)
(* stands:                                                                 *)
(*   "idle"      not in the saga                                           *)
(*   "calling"   op saved in_flight, func() entered, nothing written yet   *)
(*   "created"   account.move.create took effect (draft)                   *)
(*   "posted"    action_post took effect                                   *)
(*   "sleeping"  a retryable failure was saved; backing off                *)
(*   "returned"  the SagaOutcome is with the caller                        *)
(***************************************************************************)
EXTENDS Naturals, FiniteSets

CONSTANTS Runners,          \* threads that may run the saga
          Ops,              \* ERPOperation primary keys
          Moves,            \* account.move ids Odoo can hand out
          NoOp, NoMove,     \* no row / no move
          MaxAttempts,      \* max_attempts of the call
          RetryableCauses,  \* failures the connector raises as RetryableError
          Mortal            \* runners whose process may die

Causes == {"network", "refused"}

ASSUME SagaAssumption == /\ MaxAttempts \in Nat \ {0}
                         /\ RetryableCauses \subseteq Causes
                         /\ Mortal \subseteq Runners
                         /\ NoOp \notin Ops
                         /\ NoMove \notin Moves

VARIABLES opStatus,    \* op -> ERPOperation.status ("absent" before INSERT)
          retryCount,  \* op -> ERPOperation.retry_count
          externalId,  \* op -> ERPOperation.external_ids["external_id"]
          error,       \* op -> cause saved in ERPOperation.error
          moveState,   \* move -> state in Odoo ("absent" before create)
          madeBy,      \* move -> op whose func() created it (history)
          pc, cur, attempt, made   \* locals of each runner

rowVars == <<opStatus, retryCount, externalId, error>>
erpVars == <<moveState, madeBy>>
localVars == <<pc, cur, attempt, made>>
sagaVars == <<rowVars, erpVars, localVars>>

OpStatuses == {"absent", "in_flight", "success", "failed", "escalated"}
Terminal == {"success", "failed", "escalated"}
InFunc == {"calling", "created", "posted"}

SagaInit == /\ opStatus = [o \in Ops |-> "absent"]
            /\ retryCount = [o \in Ops |-> 0]
            /\ externalId = [o \in Ops |-> NoMove]
            /\ error = [o \in Ops |-> "none"]
            /\ moveState = [m \in Moves |-> "absent"]
            /\ madeBy = [m \in Moves |-> NoOp]
            /\ pc = [r \in Runners |-> "idle"]
            /\ cur = [r \in Runners |-> NoOp]
            /\ attempt = [r \in Runners |-> 0]
            /\ made = [r \in Runners |-> NoMove]

-----------------------------------------------------------------------------
(* The loop of run_erp_operation. *)

(* ERPOperation.objects.create(..., status="in_flight"); attempt 1. *)
Begin(r, o) == /\ pc[r] = "idle"
               /\ opStatus[o] = "absent"
               /\ opStatus' = [opStatus EXCEPT ![o] = "in_flight"]
               /\ pc' = [pc EXCEPT ![r] = "calling"]
               /\ cur' = [cur EXCEPT ![r] = o]
               /\ attempt' = [attempt EXCEPT ![r] = 1]
               /\ made' = [made EXCEPT ![r] = NoMove]
               /\ UNCHANGED <<retryCount, externalId, error, erpVars>>

(* client.create("account.move"): a fresh id, never one used before. *)
CreateMove(r, m) == /\ pc[r] = "calling"
                    /\ moveState[m] = "absent"
                    /\ moveState' = [moveState EXCEPT ![m] = "draft"]
                    /\ madeBy' = [madeBy EXCEPT ![m] = cur[r]]
                    /\ made' = [made EXCEPT ![r] = m]
                    /\ pc' = [pc EXCEPT ![r] = "created"]
                    /\ UNCHANGED <<rowVars, cur, attempt>>

(* client.execute_kw("account.move", "action_post", [[move_id]]). *)
PostMove(r) == /\ pc[r] = "created"
               /\ moveState[made[r]] = "draft"
               /\ moveState' = [moveState EXCEPT ![made[r]] = "posted"]
               /\ pc' = [pc EXCEPT ![r] = "posted"]
               /\ UNCHANGED <<rowVars, madeBy, cur, attempt, made>>

AnsweredAfterCreate(r) == pc[r] \in {"created", "posted"}
Answered(r) == pc[r] = "posted"

RetriesForgotten(r) == 0
RetriesSoFar(r) == attempt[r] - 1

ExhaustedOneLate(r) == attempt[r] > MaxAttempts
Exhausted(r) == attempt[r] >= MaxAttempts

EscalatedStatusUnset == "in_flight"
EscalatedStatus == "escalated"

(* func() returned: one save of status, external_ids and retry_count. *)
RecordSuccess(r) ==
    /\ Answered(r)
    /\ opStatus' = [opStatus EXCEPT ![cur[r]] = "success"]
    /\ externalId' = [externalId EXCEPT ![cur[r]] = made[r]]
    /\ retryCount' = [retryCount EXCEPT ![cur[r]] = RetriesSoFar(r)]
    /\ pc' = [pc EXCEPT ![r] = "returned"]
    /\ UNCHANGED <<error, erpVars, cur, attempt, made>>

(* func() raised cause c at its current point: before a remote call took   *)
(* effect, or after it did and only the answer was lost.                   *)
Raised(r, c) == /\ pc[r] \in InFunc
                /\ c = "refused" => pc[r] # "posted"
                /\ error' = [error EXCEPT ![cur[r]] = c]
                /\ retryCount' = [retryCount EXCEPT ![cur[r]] = RetriesSoFar(r)]

(* except retryable, attempts left: save error and count, sleep. *)
BackOff(r, c) == /\ Raised(r, c)
                 /\ c \in RetryableCauses
                 /\ ~Exhausted(r)
                 /\ pc' = [pc EXCEPT ![r] = "sleeping"]
                 /\ UNCHANGED <<opStatus, externalId, erpVars, cur, attempt, made>>

(* except retryable, no attempt left: terminal, flagged for a human. *)
Escalate(r, c) == /\ Raised(r, c)
                  /\ c \in RetryableCauses
                  /\ Exhausted(r)
                  /\ opStatus' = [opStatus EXCEPT ![cur[r]] = EscalatedStatus]
                  /\ pc' = [pc EXCEPT ![r] = "returned"]
                  /\ UNCHANGED <<externalId, erpVars, cur, attempt, made>>

(* except Exception: permanent, no retry. *)
FailFast(r, c) == /\ Raised(r, c)
                  /\ c \notin RetryableCauses
                  /\ opStatus' = [opStatus EXCEPT ![cur[r]] = "failed"]
                  /\ pc' = [pc EXCEPT ![r] = "returned"]
                  /\ UNCHANGED <<externalId, erpVars, cur, attempt, made>>

(* sleep() is over: continue, attempt += 1, func() from its start. *)
Wake(r) == /\ pc[r] = "sleeping"
           /\ attempt' = [attempt EXCEPT ![r] = @ + 1]
           /\ made' = [made EXCEPT ![r] = NoMove]
           /\ pc' = [pc EXCEPT ![r] = "calling"]
           /\ UNCHANGED <<rowVars, erpVars, cur>>

(* The caller has taken the outcome. *)
Leave(r) == /\ pc[r] = "returned"
            /\ pc' = [pc EXCEPT ![r] = "idle"]
            /\ cur' = [cur EXCEPT ![r] = NoOp]
            /\ UNCHANGED <<rowVars, erpVars, attempt, made>>

(* The process dies: its locals are gone, every row stays as saved. *)
Crash(r) == /\ r \in Mortal
            /\ pc[r] # "idle"
            /\ pc' = [pc EXCEPT ![r] = "idle"]
            /\ cur' = [cur EXCEPT ![r] = NoOp]
            /\ UNCHANGED <<rowVars, erpVars, attempt, made>>

(* What a thread inside run_erp_operation does without its caller. *)
SagaStep(r) == \/ \E m \in Moves : CreateMove(r, m)
               \/ PostMove(r)
               \/ RecordSuccess(r)
               \/ \E c \in Causes : BackOff(r, c) \/ Escalate(r, c) \/ FailFast(r, c)
               \/ Wake(r)

SagaNext == \E r \in Runners : \/ \E o \in Ops : Begin(r, o)
                               \/ SagaStep(r)
                               \/ Leave(r)
                               \/ Crash(r)

SagaSpec == SagaInit /\ [][SagaNext]_sagaVars

(* A live thread runs on: a remote call returns or raises, sleep ends. *)
SagaFairSpec == SagaSpec /\ \A r \in Runners : WF_sagaVars(SagaStep(r))

-----------------------------------------------------------------------------
(* Properties. *)

SagaTypeOK ==
    /\ opStatus \in [Ops -> OpStatuses]
    /\ retryCount \in [Ops -> 0 .. MaxAttempts - 1]
    /\ externalId \in [Ops -> Moves \cup {NoMove}]
    /\ error \in [Ops -> Causes \cup {"none"}]
    /\ moveState \in [Moves -> {"absent", "draft", "posted"}]
    /\ madeBy \in [Moves -> Ops \cup {NoOp}]
    /\ pc \in [Runners -> InFunc \cup {"idle", "sleeping", "returned"}]
    /\ cur \in [Runners -> Ops \cup {NoOp}]
    /\ attempt \in [Runners -> 0 .. MaxAttempts]
    /\ made \in [Runners -> Moves \cup {NoMove}]

(* An operation the audit trail calls a success names a move that this     *)
(* very operation created and that action_post has posted, although the    *)
(* row and the ERP are two systems written one after the other.            *)
SuccessIsPosted ==
    \A o \in Ops : opStatus[o] = "success" =>
        /\ externalId[o] \in Moves
        /\ moveState[externalId[o]] = "posted"
        /\ madeBy[externalId[o]] = o

MovesOf(o) == {m \in Moves : madeBy[m] = o}

(* A settled operation left at most one move in the ERP per attempt it     *)
(* records: retry_count bounds the duplicates a retry can have made, and   *)
(* an operation that was never retried made at most one.                   *)
OneMovePerAttempt ==
    \A o \in Ops : opStatus[o] \in Terminal =>
        Cardinality(MovesOf(o)) <= retryCount[o] + 1

(* The saga as the audit trail sees it implements the row's lifecycle:     *)
(* terminal rows are never reopened, escalation only after every attempt.  *)
Lifecycle == INSTANCE OperationLifecycle
                 WITH status <- opStatus, retries <- retryCount
ImplementsLifecycle == Lifecycle!Spec

(* An operation run by a process that does not die reaches a terminal row, *)
(* whatever mixture of failures it meets and whoever else dies.            *)
InFlightSettles ==
    \A r \in Runners \ Mortal, o \in Ops :
        cur[r] = o /\ opStatus[o] = "in_flight" ~> opStatus[o] \in Terminal
=============================================================================
