------------------------- MODULE DocumentLifecycle --------------------------
(***************************************************************************)
(* What an invoice or a bill promises about its ledger entries: posting    *)
(* books it once, paying a posted document settles it once, only a draft   *)
(* is cancelled, and entries never disappear.  A document that two         *)
(* requests held at the same time is beyond the promise.                   *)
(***************************************************************************)
CONSTANTS Documents, Entries
VARIABLES status,
          booked,    \* document -> entries that post it
          payments,  \* document -> entries that pay it
          raced      \* documents two requests have held at once

documentVars == <<status, booked, payments, raced>>

Init == /\ status = [d \in Documents |-> "draft"]
        /\ booked = [d \in Documents |-> {}]
        /\ payments = [d \in Documents |-> {}]
        /\ raced = {}

Post(d, e) == /\ status[d] = "draft"
              /\ booked[d] = {}
              /\ status' = [status EXCEPT ![d] = "posted"]
              /\ booked' = [booked EXCEPT ![d] = {e}]
              /\ UNCHANGED <<payments, raced>>

Pay(d, e) == /\ status[d] = "posted"
             /\ payments[d] = {}
             /\ status' = [status EXCEPT ![d] = "paid"]
             /\ payments' = [payments EXCEPT ![d] = {e}]
             /\ UNCHANGED <<booked, raced>>

Cancel(d) == /\ status[d] = "draft"
             /\ status' = [status EXCEPT ![d] = "cancelled"]
             /\ UNCHANGED <<booked, payments, raced>>

Race(d) == /\ raced' = raced \cup {d}
           /\ UNCHANGED <<status, booked, payments>>

Overwrite(d, s, B, P) == /\ d \in raced
                         /\ status' = [status EXCEPT ![d] = s]
                         /\ booked' = [booked EXCEPT ![d] = @ \cup B]
                         /\ payments' = [payments EXCEPT ![d] = @ \cup P]
                         /\ UNCHANGED raced

Next == \E d \in Documents :
            \/ \E e \in Entries : Post(d, e) \/ Pay(d, e)
            \/ Cancel(d)
            \/ Race(d)
            \/ \E s \in {"draft", "posted", "paid", "cancelled"},
                  B, P \in SUBSET Entries : Overwrite(d, s, B, P)

Spec == Init /\ [][Next]_documentVars
=============================================================================
