------------------------- MODULE OperationLifecycle -------------------------
(***************************************************************************)
(* What the audit trail promises about one ERPOperation row, whoever runs  *)
(* it: a row appears in flight, may only gain retries while in flight,     *)
(* ends in exactly one terminal status and is never touched again.         *)
(* It is escalated only when every attempt has been used.                  *)
(***************************************************************************)
EXTENDS Naturals

CONSTANTS Ops,          \* the primary keys the table can hand out
          MaxAttempts   \* attempts run_erp_operation is allowed

VARIABLES status,       \* ERPOperation.status, "absent" before the INSERT
          retries       \* ERPOperation.retry_count

opVars == <<status, retries>>

Terminal == {"success", "failed", "escalated"}

Init == /\ status = [o \in Ops |-> "absent"]
        /\ retries = [o \in Ops |-> 0]

Create(o) == /\ status[o] = "absent"
             /\ status' = [status EXCEPT ![o] = "in_flight"]
             /\ UNCHANGED retries

(* A retry is counted only while another attempt is still to come. *)
Retry(o) == /\ status[o] = "in_flight"
            /\ retries[o] + 2 < MaxAttempts
            /\ retries' = [retries EXCEPT ![o] = @ + 1]
            /\ UNCHANGED status

(* The last save may also carry the count of the retry that ended it. *)
Finish(o) == /\ status[o] = "in_flight"
             /\ \E s \in Terminal, n \in {retries[o], retries[o] + 1} :
                  /\ n < MaxAttempts
                  /\ s = "escalated" => n = MaxAttempts - 1
                  /\ status' = [status EXCEPT ![o] = s]
                  /\ retries' = [retries EXCEPT ![o] = n]

Next == \E o \in Ops : Create(o) \/ Retry(o) \/ Finish(o)

Spec == Init /\ [][Next]_opVars
=============================================================================
