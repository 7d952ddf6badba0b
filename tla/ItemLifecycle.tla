--------------------------- MODULE ItemLifecycle ----------------------------
(***************************************************************************)
(* What the approval queue keeps of its promise about each item: it is     *)
(* reviewed once, a rejected item is final, and only an approved item is   *)
(* ever executed, once, successfully or not (ApprovalQueueItem docstring). *)
(* An item that two requests held at the same time is beyond the promise:  *)
(* either may overwrite the other, though never back to pending.  A person *)
(* may correct an item in the admin's form; it goes on from there.         *)
(***************************************************************************)
CONSTANT Items
VARIABLES status,
          raced,    \* items two requests have held at once
          edited    \* items a person has corrected

itemVars == <<status, raced, edited>>

Statuses == {"pending", "approved", "auto_approved", "rejected", "escalated",
             "executed", "execution_failed"}

Init == /\ status = [i \in Items |-> "pending"]
        /\ raced = {}
        /\ edited = {}

Review(i, s) == /\ status[i] = "pending"
                /\ s \in {"approved", "rejected"}
                /\ status' = [status EXCEPT ![i] = s]
                /\ UNCHANGED <<raced, edited>>

Execute(i, s) == /\ status[i] \in {"approved", "auto_approved"}
                 /\ s \in {"executed", "execution_failed"}
                 /\ status' = [status EXCEPT ![i] = s]
                 /\ UNCHANGED <<raced, edited>>

Race(S) == /\ raced' = raced \cup S
           /\ UNCHANGED <<status, edited>>

Overwrite(i, s) == /\ i \in raced
                   /\ status' = [status EXCEPT ![i] = s]
                   /\ UNCHANGED <<raced, edited>>

Correct(i, s) == /\ status' = [status EXCEPT ![i] = s]
                 /\ edited' = edited \cup {i}
                 /\ UNCHANGED raced

Next == \/ \E S \in SUBSET Items : Race(S)
        \/ \E i \in Items, s \in {"approved", "rejected", "executed", "execution_failed"} :
               Review(i, s) \/ Execute(i, s) \/ Overwrite(i, s)
        \/ \E i \in Items, s \in Statuses : Correct(i, s)

Spec == Init /\ [][Next]_itemVars
=============================================================================
