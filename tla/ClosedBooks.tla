------------------------------ MODULE ClosedBooks ------------------------------
(***************************************************************************)
(* Periods and the ledger together: entries dated in a period, posted by   *)
(* the requests of Ledger while the requests of Periods lock and unlock    *)
(* it.  No step of either reads the other's rows: Period.is_closed is      *)
(* consulted by no code that posts.                                        *)
(***************************************************************************)
EXTENDS Ledger, Periods

CONSTANT PeriodOf      \* entry -> the period its date is in

booksVars == <<vars, perVars>>

BooksInit == Init /\ PeriodInit

BooksNext == \/ Next /\ UNCHANGED perVars
             \/ PeriodNext /\ UNCHANGED vars

BooksSpec == BooksInit /\ [][BooksNext]_booksVars

(* Period: "A closed period is immutable - no further posting allowed",    *)
(* and lock(): "Lock the period - no further posting allowed".             *)
NoPostingWhenClosed ==
    [][\A e \in Entries :
          period[PeriodOf[e]] = "closed" /\ state[e] # "posted" =>
              state'[e] # "posted"]_booksVars
=============================================================================
