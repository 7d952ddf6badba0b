----------------------------- MODULE MCBackOffice ------------------------------
(* Model-checking instance of the back office: bank statements, fixed      *)
(* assets, periods, exchange rates and document amounts.  They share no    *)
(* row, so a behaviour works at one desk and leaves the others alone: the  *)
(* run explores each component on its own, not their product.              *)
EXTENDS BankReconciliation, Depreciation, Periods, FxRates, DocumentAmounts, TLC

CONSTANTS s1, e1, e2, bank, other

VARIABLE desk
Desks == {"bank", "forms", "ledger", "assets", "periods", "rates", "amounts"}

OneStatement == [l \in BankLines |-> s1]
Line(a, n) == [account |-> a, amount |-> n]
Movements == (e1 :> Line(bank, 100000)) @@ (e2 :> Line(bank, -100000))
LedgerEdits == {Line(bank, 100), Line(other, 100000)}

AssetAs(s, m, n) == [state |-> s, method |-> m, months |-> n, cost |-> 2, salvage |-> 1]
NewMachine == AssetAs("draft", "declining", 2)
FormChoices == {NewMachine, AssetAs("in_use", "declining", 2), AssetAs("draft", "declining", 0),
                AssetAs("draft", "straight_line", 0), AssetAs("in_use", "straight_line", -1)}

Cents == {-100, 1, 150}
Percents == {-500, 0, 1925}
Halves == {50, 100}
Withholdings == {-550, 0, 550, 10000}
RateChoices == {0, 1, 2}

allVars == <<desk, bankVars, depVars, perVars, fixing, amountVars>>

Init == /\ desk \in Desks
        /\ BankInit /\ DepInit /\ PeriodInit /\ FxInit /\ AmountsInit

(* The bank desk is worked at three times: by requests alone; with the     *)
(* forms of the bank's lines, on files the parser reads rightly; with the  *)
(* ledger's forms, around the lines no bank form writes.                   *)
Worked == CASE desk = "bank"   -> UNCHANGED <<ledgerRows, handEdited>>
            [] desk = "forms"  -> UNCHANGED <<ledgerRows, ambiguous>>
            [] desk = "ledger" -> \A l \in FormLines : lineState'[l] = lineState[l]

Next == \/ /\ desk \in {"bank", "forms", "ledger"} /\ BankNext /\ Worked
           /\ UNCHANGED <<desk, depVars, perVars, fixing, amountVars>>
        \/ /\ desk = "assets" /\ DepNext
           /\ UNCHANGED <<desk, bankVars, perVars, fixing, amountVars>>
        \/ /\ desk = "periods" /\ PeriodNext
           /\ UNCHANGED <<desk, bankVars, depVars, fixing, amountVars>>
        \/ /\ desk = "rates" /\ FxNext
           /\ UNCHANGED <<desk, bankVars, depVars, perVars, amountVars>>
        \/ /\ desk = "amounts" /\ AmountsNext
           /\ UNCHANGED <<desk, bankVars, depVars, perVars, fixing>>

Spec == Init /\ [][Next]_allVars

Symmetry == Permutations(BankThreads) \cup Permutations(DepThreads)
            \cup Permutations(PeriodThreads)
=============================================================================
