----------------------------- MODULE MCBilling ------------------------------
(* Model-checking instance of Billing.  A behaviour keeps to one side of   *)
(* what requests and people do together:                                   *)
(*   "requests"  every request                                             *)
(*   "lines"     posts and payments beside the page of the lines           *)
(*   "numbers"   posts and forms beside the journal's form; documents have *)
(*               one total                                                 *)
EXTENDS Billing, TLC

VARIABLE side

OnlyActs(acts) == \A t \in Threads : pc'[t] # "idle" => act'[t] \in acts
OneTotal == \A d \in Documents : lines'[d] <= 1

Requests == \E t \in Threads : Request(t)
LinePages == \E d \in Documents, n \in Totals \cup {0} : WriteLine(d, n)
JournalForms == \E j \in Journals, n \in Sequences : SaveJournalForm(j, n)

SideInit == Init /\ side \in {"requests", "lines", "numbers"}

SideNext ==
    /\ UNCHANGED side
    /\ \/ side = "requests" /\ Requests
       \/ side = "lines" /\ (Requests \/ LinePages) /\ OnlyActs({"post", "pay"})
       \/ side = "numbers" /\ (Requests \/ JournalForms) /\ OnlyActs({"post", "edit"})
                           /\ OneTotal

SideSpec == SideInit /\ [][SideNext]_<<vars, side>>
Symmetry == Permutations(Threads) \cup Permutations(Invoices) \cup Permutations(Entries)
=============================================================================
