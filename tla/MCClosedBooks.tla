----------------------------- MODULE MCClosedBooks -----------------------------
(* Model-checking instance of ClosedBooks: one journal, one period.        *)
EXTENDS ClosedBooks

OnePeriod == [e \in Entries |-> CHOOSE p \in PeriodKeys : TRUE]
=============================================================================
