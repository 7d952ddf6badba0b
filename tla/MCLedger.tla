------------------------------ MODULE MCLedger ------------------------------
(* Model-checking instance of Ledger.  A behaviour keeps to one side of    *)
(* what requests and people do together:                                   *)
(*   "requests"  every request, and deaths, in one journal                 *)
(*   "numbers"   posts and deaths beside the journal's form                *)
(*   "moves"     posts and forms that move entries between two journals,   *)
(*               which hand out one number each                            *)
(*   "pages"     every request beside line pages and deletions             *)
EXTENDS Ledger, TLC

CONSTANTS j1, j2

VARIABLE side
Sides == {"requests", "numbers", "moves", "pages"}

OneJournal == sequence'[j2] = 1 /\ \A e \in Entries : journal'[e] # j2
OnlyActs(acts) == \A t \in Threads : pc'[t] = "loaded" => act'[t] \in acts
NoDeaths == interrupted' = {}

SideInit == Init /\ side \in Sides

SideNext ==
    /\ UNCHANGED side
    /\ \/ side = "requests" /\ Work /\ OneJournal
       \/ side = "numbers" /\ (Work \/ JournalPage) /\ OneJournal /\ OnlyActs({"post"})
       \/ /\ side = "moves" /\ Work /\ NoDeaths /\ OnlyActs({"post", "edit"})
          /\ \A j \in Journals : sequence'[j] <= 2
       \/ side = "pages" /\ (Work \/ EntryPage) /\ OneJournal /\ NoDeaths

SideSpec == SideInit /\ [][SideNext]_<<vars, side>>
Symmetry == Permutations(Threads) \cup Permutations(Entries)
=============================================================================
