------------------------------ MODULE ApQueue -------------------------------
(***************************************************************************)
(* The AP approval queue: ApprovalQueueItem rows, the web and admin        *)
(* requests that review them (accounting/views.py ap_queue_detail,         *)
(* accounting/admin.py bulk actions) and the posting of an approved item   *)
(* (agents/ap/department.py execute_queue_item and execute), which runs    *)
(* the saga of ErpSaga when the tenant has an ERP connection and posts to  *)
(* the local ledger otherwise.                                             *)
(*                                                                         *)
(* A request is a thread.  It reads its item once, checks the status on    *)
(* that copy, and writes later, without a lock: between the read and the   *)
(* write other requests run.  todo[r] holds the items whose copy passed    *)
(* the check; a request whose copy did not pass is redirected and changes  *)
(* nothing, so it has no step.  phase[r]:                                  *)
(*   "idle"       no request                                               *)
(*   "loaded"     item read, status check passed on the copy               *)
(*   "executing"  inside execute(): the saga runs                          *)
(*   "posted"     a local-ledger post succeeded                            *)
(*   "announced"  the bill.posted emission was tried                       *)
(*   "recorded"   metadata.execution saved, status not yet                 *)
(***************************************************************************)
EXTENDS ErpSaga

CONSTANTS Items,       \* ApprovalQueueItem primary keys (dept D01)
          NoItem,
          ErpItems,    \* items of tenants with an active non-manual ERP connection
          MaxLocal     \* bound on local-ledger posts of one item

ASSUME QueueAssumption == /\ ErpItems \subseteq Items
                          /\ NoItem \notin Items
                          /\ MaxLocal \in Nat

VARIABLES item,          \* item -> ApprovalQueueItem.status
          execution,     \* item -> metadata["execution"]["operation_id"]
          localEntries,  \* item -> posted JournalEntry rows made for it
          billPosted,    \* item -> bill.posted events emitted for it
          phase, act, todo,   \* locals of each request
          copyExecution, \* what the copy of a change form says of execution
          opItem,        \* op -> item it was run for (history)
          wasApproved,   \* items ever approved, by a review or in a form (history)
          raced,         \* items two requests held at once (history)
          edited,        \* items a change form was saved over (history)
          interrupted    \* items whose post died (history)

queueVars == <<item, execution, localEntries, billPosted,
               phase, act, todo, copyExecution, opItem, wasApproved, raced,
               edited, interrupted>>
vars == <<sagaVars, queueVars>>

Statuses == {"pending", "approved", "auto_approved", "rejected", "escalated",
             "executed", "execution_failed"}

(* from_proposal: an item enters the queue pending. *)
Init == /\ SagaInit
        /\ item = [i \in Items |-> "pending"]
        /\ execution = [i \in Items |-> NoOp]
        /\ localEntries = [i \in Items |-> 0]
        /\ billPosted = [i \in Items |-> 0]
        /\ phase = [r \in Runners |-> "idle"]
        /\ act = [r \in Runners |-> "approve"]
        /\ todo = [r \in Runners |-> {}]
        /\ copyExecution = [r \in Runners |-> NoOp]
        /\ opItem = [o \in Ops |-> NoItem]
        /\ wasApproved = {}
        /\ raced = {}
        /\ edited = {}
        /\ interrupted = {}

-----------------------------------------------------------------------------
(* The status checks of ap_queue_detail, made on the copy just read. *)

PostableUnchecked == Statuses
Postable == {"approved", "auto_approved"}

ReviewableApproved == {"pending", "approved"}
Reviewable == {"pending"}

Eligible(a, s) == s \in IF a = "post" THEN Postable ELSE Reviewable

Idle(r) == phase[r] = "idle"
HeldByOthers(r) == UNION {todo[q] : q \in Runners \ {r}}

(* get_object_or_404 and the status check; the admin actions select all    *)
(* their pending items in one query.                                       *)
Load(r, S, a) ==
    /\ Idle(r)
    /\ pc[r] = "idle"
    /\ S # {}
    /\ a = "post" => \E i \in Items : S = {i}
    /\ \A i \in S : Eligible(a, item[i])
    /\ phase' = [phase EXCEPT ![r] = "loaded"]
    /\ act' = [act EXCEPT ![r] = a]
    /\ todo' = [todo EXCEPT ![r] = S]
    /\ raced' = raced \cup (S \cap HeldByOthers(r))
    /\ UNCHANGED <<sagaVars, item, execution, localEntries, billPosted,
                   copyExecution, opItem, wasApproved, edited, interrupted>>

(* The request is over. *)
Done(r) == /\ phase' = [phase EXCEPT ![r] = "idle"]
           /\ todo' = [todo EXCEPT ![r] = {}]
           /\ copyExecution' = [copyExecution EXCEPT ![r] = NoOp]

(* item.approve() / item.reject(): an unconditional save of the copy.  A   *)
(* bulk action does it for each item of its query in turn.                 *)
Review(r, i, a, s) ==
    /\ phase[r] = "loaded"
    /\ act[r] = a
    /\ i \in todo[r]
    /\ item' = [item EXCEPT ![i] = s]
    /\ IF todo[r] = {i}
       THEN Done(r)
       ELSE /\ todo' = [todo EXCEPT ![r] = @ \ {i}]
            /\ UNCHANGED <<phase, copyExecution>>
    /\ UNCHANGED <<sagaVars, execution, localEntries, billPosted, act, opItem,
                   raced, edited, interrupted>>

Approve(r, i) == /\ Review(r, i, "approve", "approved")
                 /\ wasApproved' = wasApproved \cup {i}

Reject(r, i) == /\ Review(r, i, "reject", "rejected")
                /\ UNCHANGED wasApproved

(* A rejection without a reason, or an invalid form, re-renders the page.  *)
Rerender(r) ==
    /\ phase[r] = "loaded"
    /\ act[r] \in {"reject", "edit"}
    /\ Done(r)
    /\ UNCHANGED <<sagaVars, item, execution, localEntries, billPosted, act,
                   opItem, wasApproved, raced, edited, interrupted>>

-----------------------------------------------------------------------------
(* The admin's change form offers every status, whatever the item's is.    *)

OpenForm(r, i) ==
    /\ Idle(r)
    /\ pc[r] = "idle"
    /\ phase' = [phase EXCEPT ![r] = "loaded"]
    /\ act' = [act EXCEPT ![r] = "edit"]
    /\ todo' = [todo EXCEPT ![r] = {i}]
    /\ copyExecution' = [copyExecution EXCEPT ![r] = execution[i]]
    /\ raced' = raced \cup ({i} \cap HeldByOthers(r))
    /\ UNCHANGED <<sagaVars, item, execution, localEntries, billPosted,
                   opItem, wasApproved, edited, interrupted>>

(* obj.save(): every column, metadata as the copy has it.                  *)
SaveForm(r, i, s) ==
    /\ phase[r] = "loaded"
    /\ act[r] = "edit"
    /\ i \in todo[r]
    /\ item' = [item EXCEPT ![i] = s]
    /\ execution' = [execution EXCEPT ![i] = copyExecution[r]]
    /\ Done(r)
    /\ edited' = edited \cup {i}
    /\ wasApproved' = IF s \in {"approved", "auto_approved"}
                      THEN wasApproved \cup {i} ELSE wasApproved
    /\ UNCHANGED <<sagaVars, localEntries, billPosted, act, opItem, raced, interrupted>>

-----------------------------------------------------------------------------
(* execute_queue_item: post, announce, record. *)

Posting(r, i) == act[r] = "post" /\ todo[r] = {i}

FailedStatusKept == "approved"
FailedStatus == "execution_failed"

(* except: mark_execution_failed, re-raise. *)
MarkFailed(r, i) == /\ item' = [item EXCEPT ![i] = FailedStatus]
                    /\ Done(r)
                    /\ UNCHANGED <<execution, localEntries, billPosted, act,
                                   opItem, wasApproved, raced, edited,
                                   interrupted>>

(* execute() raises before it wrote anything: no journal-entry lines, an    *)
(* unknown account or journal, a connector that cannot be built.           *)
Refuse(r, i) == /\ phase[r] = "loaded" /\ Posting(r, i)
                /\ MarkFailed(r, i)
                /\ UNCHANGED sagaVars

(* execute() with a connection: the saga starts in this thread. *)
StartSaga(r, i, o) == /\ phase[r] = "loaded" /\ Posting(r, i)
                      /\ i \in ErpItems
                      /\ Begin(r, o)
                      /\ phase' = [phase EXCEPT ![r] = "executing"]
                      /\ opItem' = [opItem EXCEPT ![o] = i]
                      /\ UNCHANGED <<item, execution, localEntries, billPosted,
                                     act, todo, copyExecution, wasApproved, raced,
                                     edited, interrupted>>

SagaRuns(r) == SagaStep(r) /\ UNCHANGED queueVars

(* Standalone: LocalGLConnector creates and posts in one transaction. *)
PostLocally(r, i) ==
    /\ phase[r] = "loaded" /\ Posting(r, i)
    /\ i \notin ErpItems
    /\ localEntries[i] < MaxLocal
    /\ localEntries' = [localEntries EXCEPT ![i] = @ + 1]
    /\ phase' = [phase EXCEPT ![r] = "posted"]
    /\ UNCHANGED <<sagaVars, item, execution, billPosted, act, todo, copyExecution,
                   opItem, wasApproved, raced, edited, interrupted>>

OutcomeUnchecked(r) == pc[r] = "returned"
OutcomeOk(r) == pc[r] = "returned" /\ opStatus[cur[r]] = "success"

(* outcome not ok: ConnectorExecutionError, caught by execute_queue_item. *)
SagaFailed(r, i) == /\ phase[r] = "executing" /\ Posting(r, i)
                    /\ pc[r] = "returned"
                    /\ ~OutcomeOk(r)
                    /\ MarkFailed(r, i)
                    /\ Leave(r)

(* _emit_bill_posted, best effort: the event may fail to be created. *)
Announce(r, i) ==
    /\ Posting(r, i)
    /\ phase[r] = "posted" \/ (phase[r] = "executing" /\ OutcomeOk(r))
    /\ \E n \in {0, 1} : billPosted' = [billPosted EXCEPT ![i] = @ + n]
    /\ phase' = [phase EXCEPT ![r] = "announced"]
    /\ UNCHANGED <<sagaVars, item, execution, localEntries, act, todo, copyExecution,
                   opItem, wasApproved, raced, edited, interrupted>>

(* item.metadata = {..., "execution": ...}; save(update_fields). *)
RecordExecution(r, i) ==
    /\ phase[r] = "announced" /\ Posting(r, i)
    /\ execution' = [execution EXCEPT ![i] = cur[r]]
    /\ phase' = [phase EXCEPT ![r] = "recorded"]
    /\ UNCHANGED <<sagaVars, item, localEntries, billPosted, act, todo, copyExecution,
                   opItem, wasApproved, raced, edited, interrupted>>

MarkExecuted(r, i) == /\ phase[r] = "recorded" /\ Posting(r, i)
                      /\ item' = [item EXCEPT ![i] = "executed"]
                      /\ Done(r)
                      /\ IF i \in ErpItems THEN Leave(r) ELSE UNCHANGED sagaVars
                      /\ UNCHANGED <<execution, localEntries, billPosted, act,
                                     opItem, wasApproved, raced, edited,
                                   interrupted>>

(* The worker process is killed (deploy, timeout): rows stay as saved. *)
CrashRequest(r) == /\ r \in Mortal
                   /\ ~Idle(r)
                   /\ Done(r)
                   /\ interrupted' = IF act[r] = "post" THEN interrupted \cup todo[r]
                                                        ELSE interrupted
                   /\ IF pc[r] # "idle" THEN Crash(r) ELSE UNCHANGED sagaVars
                   /\ UNCHANGED <<item, execution, localEntries, billPosted,
                                  act, opItem, wasApproved, raced, edited>>

RequestStep(r) ==
    \/ \E i \in Items : \/ Approve(r, i) \/ Reject(r, i)
                        \/ Refuse(r, i)
                        \/ \E o \in Ops : StartSaga(r, i, o)
                        \/ PostLocally(r, i)
                        \/ SagaFailed(r, i)
                        \/ Announce(r, i)
                        \/ RecordExecution(r, i)
                        \/ MarkExecuted(r, i)
    \/ SagaRuns(r)

Next == \E r \in Runners :
            \/ \E S \in SUBSET Items, a \in {"approve", "reject", "post"} : Load(r, S, a)
            \/ RequestStep(r)
            \/ Rerender(r)
            \/ \E i \in Items : OpenForm(r, i) \/ \E s \in Statuses : SaveForm(r, i, s)
            \/ CrashRequest(r)

Spec == Init /\ [][Next]_vars

-----------------------------------------------------------------------------
(* Properties. *)

TypeOK ==
    /\ SagaTypeOK
    /\ item \in [Items -> Statuses]
    /\ execution \in [Items -> Ops \cup {NoOp}]
    /\ localEntries \in [Items -> 0 .. MaxLocal]
    /\ billPosted \in [Items -> Nat]
    /\ phase \in [Runners -> {"idle", "loaded", "executing", "posted",
                              "announced", "recorded"}]
    /\ act \in [Runners -> {"approve", "reject", "post", "edit"}]
    /\ copyExecution \in [Runners -> Ops \cup {NoOp}]
    /\ todo \in [Runners -> SUBSET Items]
    /\ opItem \in [Ops -> Items \cup {NoItem}]
    /\ wasApproved \subseteq Items
    /\ raced \subseteq Items
    /\ edited \subseteq Items
    /\ interrupted \subseteq Items

SuccessesOf(i) == {o \in Ops : opItem[o] = i /\ opStatus[o] = "success"}

(* An item marked executed was posted for it: its metadata names an        *)
(* operation that ran for this item and whose move is posted in the ERP,   *)
(* or the local ledger holds an entry for it, whatever other requests did  *)
(* to the row meanwhile, unless a form wrote it.  What the metadata names  *)
(* is never anything else, though a form may write an older value back.    *)
ExecutedWasPosted ==
    \A i \in Items :
        /\ item[i] = "executed" /\ i \notin edited =>
              IF i \in ErpItems THEN execution[i] # NoOp ELSE localEntries[i] > 0
        /\ execution[i] # NoOp =>
              /\ execution[i] \in SuccessesOf(i)
              /\ moveState[externalId[execution[i]]] = "posted"

(* Nothing reaches an ERP or the ledger for an item nobody approved: every *)
(* move ever created, draft orphans included, goes back to an approval.    *)
NothingWithoutApproval ==
    /\ \A m \in Moves : madeBy[m] # NoOp => opItem[madeBy[m]] \in wasApproved
    /\ \A i \in Items : localEntries[i] > 0 => i \in wasApproved

(* A bill is posted twice only after a race or a crash: two requests held  *)
(* the item at once, or a post died before it could mark the item; or a    *)
(* person wrote its status in the change form.                             *)
DuplicateNeedsRaceOrCrash ==
    \A i \in Items :
        Cardinality(SuccessesOf(i)) + localEntries[i] > 1 =>
            i \in raced \cup edited \cup interrupted

(* A post leaves its item marked with its outcome, unless the item was     *)
(* raced for, a form was saved over it or the post died: no bill is in the *)
(* ledger behind an item that still looks approved, and no failure goes    *)
(* unnoticed.                                                              *)
OutcomeIsMarked ==
    \A i \in Items \ (raced \cup edited \cup interrupted) :
        (\A r \in Runners : i \notin todo[r]) =>
            /\ localEntries[i] > 0 => item[i] = "executed"
            /\ \A o \in Ops : opItem[o] = i =>
                   item[i] = IF opStatus[o] = "success" THEN "executed"
                                                       ELSE "execution_failed"

(* bill.posted never announces more postings than there are. *)
AnnouncedBillsExist ==
    \A i \in Items :
        billPosted[i] <= Cardinality(SuccessesOf(i)) + localEntries[i]

(* The queue implements the item lifecycle: an item no two requests held   *)
(* at once is reviewed once and executed at most once between the forms    *)
(* saved over it, also when requests die halfway.                          *)
Queue == INSTANCE ItemLifecycle WITH status <- item
ImplementsItemLifecycle == Queue!Spec

(* ap_queue_detail docstring: acting on an already reviewed item is a safe *)
(* no-op, so a double submit or a stale tab cannot re-review.              *)
ReviewedOnce ==
    [][\A i \in Items :
          item[i] # "pending" /\ item'[i] # item[i] =>
              item'[i] \notin {"approved", "rejected"}]_item

=============================================================================
