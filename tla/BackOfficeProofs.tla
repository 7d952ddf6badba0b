--------------------------- MODULE BackOfficeProofs ---------------------------
(***************************************************************************)
(* Proofs about the back office, each for every value of the constants: a  *)
(* match is of one movement and of the right one, a statement's state is   *)
(* what its lines say, the diary tells a period's state, a rate does not   *)
(* look ahead, and an asset's state is what its lines justify.             *)
(***************************************************************************)
EXTENDS BankReconciliation, Depreciation, Periods, FxRates, FiniteSetTheorems,
        WellFoundedInduction, TLAPS

-----------------------------------------------------------------------------
(* BankReconciliation. *)

BankPcs == {"idle", "loaded", "checked", "counted"}
StatementStates == {"draft", "in_progress", "reconciled"}

BankTypeOK ==
    /\ lineState \in [BankLines -> LineStates \cup {"absent"}]
    /\ matchedTo \in [BankLines -> EntryLines \cup {NoEntryLine}]
    /\ amount \in [BankLines -> Int]
    /\ statement \in [Statements -> StatementStates]
    /\ bankPc \in [BankThreads -> BankPcs]
    /\ bankLine \in [BankThreads -> BankLines \cup {NoLine}]
    /\ target \in [BankThreads -> EntryLines \cup {NoEntryLine}]
    /\ copyState \in [BankThreads -> LineStates]
    /\ copyMatched \in [BankThreads -> EntryLines \cup {NoEntryLine}]
    /\ copyAmount \in [BankThreads -> Int]
    /\ copyStatement \in [BankThreads -> StatementStates]
    /\ newState \in [BankThreads -> StatementStates]
    /\ entryRow \in [EntryLines -> EntryRows]
    /\ bankAccount \in [Statements -> Accounts]
    /\ seen \in [BankThreads -> [EntryLines -> EntryRows]]
    /\ amended \subseteq EntryLines
    /\ written \in [BankLines -> Int]
    /\ ambiguous \subseteq BankLines
    /\ contested \subseteq EntryLines
    /\ crowded \subseteq Statements
    /\ handEdited \subseteq BankLines
    /\ reshaped \subseteq Statements

(* A request at work holds a line, which only a form can have deleted; a   *)
(* line that is not there is matched to nothing.                           *)
HeldInv ==
    /\ \A t \in BankThreads :
          /\ bankPc[t] = "idle" => bankLine[t] = NoLine
          /\ bankPc[t] # "idle" => bankLine[t] \in BankLines
          /\ bankPc[t] \in {"idle", "loaded"} => target[t] = NoEntryLine
          /\ bankPc[t] # "idle" => \/ lineState[bankLine[t]] # "absent"
                                   \/ bankLine[t] \in handEdited
    /\ \A l \in BankLines : lineState[l] = "absent" => matchedTo[l] = NoEntryLine

(* The entry line a request is about to take is nobody else's.             *)
TargetInv ==
    \A t \in BankThreads : target[t] # NoEntryLine /\ target[t] \notin contested =>
        /\ \A m \in BankLines \ handEdited : m # bankLine[t] => matchedTo[m] # target[t]
        /\ \A u \in BankThreads : u # t => target[u] # target[t]

(* An amount no form has written and no parser misread is the file's, in   *)
(* the row and in its copies; a target was compared with such a copy.      *)
Explains(e, l, n) == /\ entryRow[e].account = bankAccount[StatementOf[l]]
                     /\ SideAgrees(n, entryRow[e].amount)
AsWritten(l, n) == l \notin handEdited \cup ambiguous => n = written[l]
AmountInv ==
    /\ \A l \in BankLines : lineState[l] # "absent" => AsWritten(l, amount[l])
    /\ \A t \in BankThreads :
          /\ bankPc[t] # "idle" => AsWritten(bankLine[t], copyAmount[t])
          /\ target[t] # NoEntryLine /\ target[t] \notin amended =>
                 Explains(target[t], bankLine[t], copyAmount[t])

(* An entry line no ledger form has changed under a request is as the      *)
(* request read it.                                                        *)
SeenInv == \A t \in BankThreads : bankPc[t] # "idle" =>
              \A e \in EntryLines : e \notin amended => seen[t][e] = entryRow[e]

MatchInv == BankTypeOK /\ HeldInv /\ TargetInv /\ AmountInv /\ SeenInv /\ MatchesAreTrue

-----------------------------------------------------------------------------
LEMMA InitMatchInv == BankInit => MatchInv
  <1> SUFFICES ASSUME BankInit PROVE MatchInv
    OBVIOUS
  <1>1. BankTypeOK
    BY BankAssumption DEF BankInit, BankTypeOK, BankPcs, StatementStates, LineStates
  <1>2. HeldInv /\ TargetInv /\ AmountInv /\ SeenInv
    BY DEF BankInit, HeldInv, TargetInv, AmountInv, SeenInv, AsWritten
  <1>3. MatchesAreTrue
    BY DEF BankInit, MatchesAreTrue, MatchedOnceUnlessRaced, MatchedIsTheMovement
  <1>4. QED
    BY <1>1, <1>2, <1>3 DEF MatchInv

LEMMA StateOfType ==
  ASSUME NEW total, NEW done PROVE StateOf(total, done) \in StatementStates
  BY DEF StateOf, StatementStates

LEMMA TypeStep ==
  ASSUME BankTypeOK, HeldInv, [BankNext]_bankVars PROVE BankTypeOK'
  <1> USE BankAssumption DEF BankTypeOK, bankRows, ledgerRows, bankLocals, bankHistory
  <1>1. ASSUME NEW l \in BankLines, NEW st \in Styles, NEW n \in BankAmounts,
               ImportLine(l, st, n)
        PROVE  BankTypeOK'
    <2>1. Parsed(st, n) \in Int
      BY DEF Parsed
    <2>2. QED
      BY <1>1, <2>1 DEF ImportLine, LineStates
  <1>2. ASSUME NEW l \in BankLines, DeleteInForm(l) PROVE BankTypeOK'
    BY <1>2 DEF DeleteInForm
  <1>3. ASSUME NEW l \in BankLines, NEW n \in BankAmounts, AddInForm(l, n) PROVE BankTypeOK'
    BY <1>3 DEF AddInForm, LineStates
  <1>4. ASSUME NEW t \in BankThreads, BankDone(t)
        PROVE  /\ bankPc' \in [BankThreads -> BankPcs]
               /\ bankLine' \in [BankThreads -> BankLines \cup {NoLine}]
               /\ target' \in [BankThreads -> EntryLines \cup {NoEntryLine}]
               /\ copyState' \in [BankThreads -> LineStates]
               /\ copyMatched' \in [BankThreads -> EntryLines \cup {NoEntryLine}]
               /\ copyAmount' \in [BankThreads -> Int]
               /\ copyStatement' \in [BankThreads -> StatementStates]
               /\ newState' \in [BankThreads -> StatementStates]
               /\ seen' \in [BankThreads -> [EntryLines -> EntryRows]]
    BY <1>4 DEF BankDone, BankPcs, LineStates, StatementStates
  <1>5. ASSUME NEW t \in BankThreads, BankRefuse(t) \/ BankAbort(t) PROVE BankTypeOK'
    BY <1>4, <1>5 DEF BankRefuse, BankAbort
  <1>6. ASSUME NEW t \in BankThreads, NEW l \in BankLines, BankLoad(t, l) PROVE BankTypeOK'
    BY <1>6 DEF BankLoad, BankPcs
  <1>7. ASSUME NEW t \in BankThreads, NEW e \in EntryLines, MatchTests(t, e) PROVE BankTypeOK'
    BY <1>7 DEF MatchTests, BankPcs
  <1>8. ASSUME NEW t \in BankThreads, UnmatchTests(t) PROVE BankTypeOK'
    BY <1>8 DEF UnmatchTests, BankPcs
  <1>9. ASSUME NEW t \in BankThreads, CountLines(t) PROVE BankTypeOK'
    BY <1>9, StateOfType DEF CountLines, BankPcs
  <1>10. ASSUME NEW t \in BankThreads, BankCommit(t) PROVE BankTypeOK'
    <2>1. bankLine[t] \in BankLines /\ StatementOf[bankLine[t]] \in Statements
      BY <1>10 DEF BankCommit, HeldInv
    <2>2. WrittenState(t) \in LineStates
      BY DEF WrittenState, LineStates
    <2>3. statement' \in [Statements -> StatementStates]
      BY <1>10, <2>1 DEF BankCommit, SavedStatement
    <2>4. QED
      BY <1>4, <1>10, <2>1, <2>2, <2>3 DEF BankCommit
  <1>11. ASSUME NEW t \in BankThreads, NEW n \in BankAmounts, SaveStatementForm(t, n)
         PROVE  BankTypeOK'
    BY <1>4, <1>11 DEF SaveStatementForm
  <1>12. ASSUME NEW t \in BankThreads, NEW s \in LineStates,
                NEW e \in EntryLines \cup {NoEntryLine}, SaveLineForm(t, s, e)
         PROVE  BankTypeOK'
    BY <1>4, <1>12 DEF SaveLineForm
  <1>13. ASSUME NEW e \in EntryLines, NEW row \in EntryForms, SaveEntryLine(e, row)
         PROVE  BankTypeOK'
    BY <1>13 DEF SaveEntryLine
  <1>14. ASSUME NEW s \in Statements, NEW a \in Accounts, SaveBankAccount(s, a)
         PROVE  BankTypeOK'
    BY <1>14 DEF SaveBankAccount
  <1>15. CASE UNCHANGED bankVars
    BY <1>15 DEF bankVars
  <1> HIDE DEF BankTypeOK
  <1>16. QED
    BY <1>1, <1>2, <1>3, <1>5, <1>6, <1>7, <1>8, <1>9, <1>10, <1>11, <1>12, <1>13, <1>14, <1>15
       DEF BankNext

(* What a step that ends a request leaves of its locals and of the others'.*)
LEMMA DoneFacts ==
  ASSUME BankTypeOK, NEW t \in BankThreads, BankDone(t)
  PROVE  /\ bankPc'[t] = "idle" /\ bankLine'[t] = NoLine /\ target'[t] = NoEntryLine
         /\ \A u \in BankThreads \ {t} :
               /\ bankPc'[u] = bankPc[u] /\ bankLine'[u] = bankLine[u]
               /\ target'[u] = target[u] /\ copyAmount'[u] = copyAmount[u]
               /\ newState'[u] = newState[u] /\ copyStatement'[u] = copyStatement[u]
               /\ seen'[u] = seen[u]
  BY DEF BankTypeOK, BankDone

(* Steps that write no row: a request proceeds or ends.                    *)
LEMMA LocalStep ==
  ASSUME MatchInv, NEW t \in BankThreads,
         UNCHANGED <<bankRows, ledgerRows, written, ambiguous, handEdited, amended>>,
         contested \subseteq contested',
         \A u \in BankThreads \ {t} :
            /\ bankPc'[u] = bankPc[u] /\ bankLine'[u] = bankLine[u]
            /\ target'[u] = target[u] /\ copyAmount'[u] = copyAmount[u]
            /\ seen'[u] = seen[u],
         bankPc'[t] = "idle" => bankLine'[t] = NoLine,
         bankPc'[t] \in {"idle", "loaded"} => target'[t] = NoEntryLine,
         bankPc'[t] # "idle" =>
            /\ bankLine'[t] \in BankLines
            /\ lineState[bankLine'[t]] # "absent" \/ bankLine'[t] \in handEdited
            /\ AsWritten(bankLine'[t], copyAmount'[t])
            /\ \A e \in EntryLines : e \notin amended => seen'[t][e] = entryRow[e],
         target'[t] # NoEntryLine =>
            \/ /\ target'[t] = target[t] /\ bankLine'[t] = bankLine[t]
               /\ copyAmount'[t] = copyAmount[t]
            \/ /\ target'[t] \notin amended => Explains(target'[t], bankLine'[t], copyAmount'[t])
               /\ target'[t] \notin contested' =>
                     /\ \A m \in BankLines \ handEdited :
                           m # bankLine'[t] => matchedTo[m] # target'[t]
                     /\ \A u \in BankThreads : u # t => target[u] # target'[t]
  PROVE  HeldInv' /\ TargetInv' /\ AmountInv' /\ SeenInv' /\ MatchesAreTrue'
  <1> USE DEF MatchInv, bankRows, ledgerRows
  <1>1. HeldInv'
    BY DEF HeldInv
  <1>2. TargetInv'
    BY DEF TargetInv
  <1>3. AmountInv'
    BY DEF AmountInv, AsWritten, Explains, SideAgrees
  <1>4. SeenInv'
    BY DEF SeenInv
  <1>5. MatchesAreTrue'
    BY DEF MatchesAreTrue, MatchedOnceUnlessRaced, MatchedIsTheMovement
  <1>6. QED
    BY <1>1, <1>2, <1>3, <1>4, <1>5

LEMMA LoadMatchInv ==
  ASSUME MatchInv, NEW t \in BankThreads, NEW l \in BankLines, BankLoad(t, l)
  PROVE  HeldInv' /\ TargetInv' /\ AmountInv' /\ SeenInv' /\ MatchesAreTrue'
  <1>1. /\ bankPc[t] = "idle" /\ target[t] = NoEntryLine /\ bankPc'[t] = "loaded"
        /\ bankLine'[t] = l /\ copyAmount'[t] = amount[l] /\ lineState[l] # "absent"
        /\ UNCHANGED <<bankRows, ledgerRows, target, written, ambiguous, contested, handEdited,
                       amended>>
        /\ seen'[t] = entryRow
        /\ \A u \in BankThreads \ {t} : /\ bankPc'[u] = bankPc[u] /\ bankLine'[u] = bankLine[u]
                                        /\ copyAmount'[u] = copyAmount[u] /\ seen'[u] = seen[u]
    BY DEF BankLoad, MatchInv, BankTypeOK, HeldInv
  <1>2. AsWritten(l, amount[l])
    BY <1>1 DEF MatchInv, AmountInv
  <1>3. AsWritten(bankLine'[t], copyAmount'[t])
    BY <1>1, <1>2
  <1>4. QED
    BY <1>1, <1>3, LocalStep

LEMMA MatchTestsMatchInv ==
  ASSUME MatchInv, NEW t \in BankThreads, NEW e \in EntryLines, MatchTests(t, e)
  PROVE  HeldInv' /\ TargetInv' /\ AmountInv' /\ SeenInv' /\ MatchesAreTrue'
  <1>1. /\ bankPc[t] = "loaded" /\ bankPc'[t] = "checked" /\ target'[t] = e
        /\ seen[t][e].account = bankAccount[StatementOf[bankLine[t]]]
        /\ SideAgrees(copyAmount[t], seen[t][e].amount)
        /\ UNCHANGED <<bankRows, ledgerRows, bankLine, copyAmount, seen, written, ambiguous,
                       handEdited, amended>>
        /\ \A u \in BankThreads \ {t} : /\ bankPc'[u] = bankPc[u]
                                        /\ target'[u] = target[u]
    BY DEF MatchTests, MatchInv, BankTypeOK
  <1>2. \A m \in BankLines : m # bankLine[t] => matchedTo[m] # e
    BY BankAssumption DEF MatchTests, Taken, MatchInv, HeldInv
  <1>3. /\ contested \subseteq contested'
        /\ e \notin contested' => \A u \in BankThreads : u # t => target[u] # e
    BY DEF MatchTests
  <1>4. /\ bankLine[t] \in BankLines /\ AsWritten(bankLine[t], copyAmount[t])
        /\ lineState[bankLine[t]] # "absent" \/ bankLine[t] \in handEdited
    BY <1>1 DEF MatchInv, HeldInv, AmountInv
  <1>5. \A x \in EntryLines : x \notin amended => seen[t][x] = entryRow[x]
    BY <1>1 DEF MatchInv, SeenInv
  <1>6. e \notin amended => Explains(e, bankLine[t], copyAmount[t])
    BY <1>1, <1>5 DEF Explains
  <1>7. /\ target'[t] \notin amended => Explains(target'[t], bankLine'[t], copyAmount'[t])
        /\ AsWritten(bankLine'[t], copyAmount'[t])
    BY <1>1, <1>4, <1>6
  <1>8. QED
    BY <1>1, <1>2, <1>3, <1>4, <1>5, <1>7, LocalStep

(* unmatch()'s test and the count move a request on with what it holds.    *)
LEMMA MovesOnMatchInv ==
  ASSUME MatchInv, NEW t \in BankThreads, UnmatchTests(t) \/ CountLines(t)
  PROVE  HeldInv' /\ TargetInv' /\ AmountInv' /\ SeenInv' /\ MatchesAreTrue'
  <1>1. /\ bankPc[t] # "idle" /\ bankPc'[t] \in {"checked", "counted"}
        /\ UNCHANGED <<bankRows, ledgerRows, bankLine, target, copyAmount, seen, written,
                       ambiguous, contested, handEdited, amended>>
        /\ \A u \in BankThreads \ {t} : bankPc'[u] = bankPc[u]
    BY DEF UnmatchTests, CountLines, bankHistory, MatchInv, BankTypeOK
  <1>2. /\ bankLine[t] \in BankLines /\ AsWritten(bankLine[t], copyAmount[t])
        /\ lineState[bankLine[t]] # "absent" \/ bankLine[t] \in handEdited
        /\ \A e \in EntryLines : e \notin amended => seen[t][e] = entryRow[e]
    BY <1>1 DEF MatchInv, HeldInv, AmountInv, SeenInv
  <1>3. AsWritten(bankLine'[t], copyAmount'[t])
    BY <1>1, <1>2
  <1>4. QED
    BY <1>1, <1>2, <1>3, LocalStep

LEMMA EndsMatchInv ==
  ASSUME MatchInv, NEW t \in BankThreads, BankRefuse(t) \/ BankAbort(t)
  PROVE  HeldInv' /\ TargetInv' /\ AmountInv' /\ SeenInv' /\ MatchesAreTrue'
  <1>1. BankDone(t) /\ UNCHANGED <<bankRows, ledgerRows, bankHistory>>
    BY DEF BankRefuse, BankAbort
  <1>2. QED
    BY <1>1, DoneFacts, LocalStep DEF MatchInv, bankHistory

(* A line is imported: nobody holds it, nothing is matched to it.          *)
LEMMA ImportMatchInv ==
  ASSUME MatchInv, NEW l \in BankLines, NEW st \in Styles, NEW n \in BankAmounts,
         ImportLine(l, st, n)
  PROVE  HeldInv' /\ TargetInv' /\ AmountInv' /\ SeenInv' /\ MatchesAreTrue'
  <1>1. /\ lineState[l] = "absent" /\ l \notin handEdited /\ matchedTo[l] = NoEntryLine
        /\ \A m \in BankLines \ {l} : /\ lineState'[m] = lineState[m] /\ amount'[m] = amount[m]
                                      /\ written'[m] = written[m]
        /\ amount'[l] = Parsed(st, n) /\ written'[l] = n
        /\ UNCHANGED <<matchedTo, ledgerRows, bankLocals, contested, handEdited, amended>>
        /\ lineState'[l] = "unmatched"
        /\ ambiguous \subseteq ambiguous' /\ ambiguous' \subseteq ambiguous \cup {l}
        /\ l \notin ambiguous' => amount'[l] = written'[l]
    BY DEF ImportLine, MatchInv, BankTypeOK, HeldInv, Parsed
  <1>2. \A t \in BankThreads : bankPc[t] # "idle" => bankLine[t] # l
    BY <1>1 DEF MatchInv, HeldInv
  <1>3. HeldInv'
    BY <1>1 DEF MatchInv, HeldInv, bankLocals
  <1>4. TargetInv'
    BY <1>1 DEF MatchInv, TargetInv, bankLocals
  <1>5. AmountInv'
    <2>1. ASSUME NEW m \in BankLines, lineState'[m] # "absent" PROVE AsWritten(m, amount[m])'
      <3>1. CASE m = l
        BY <1>1, <3>1 DEF AsWritten
      <3>2. CASE m # l
        BY <1>1, <2>1, <3>2 DEF MatchInv, AmountInv, AsWritten
      <3>3. QED
        BY <3>1, <3>2
    <2>2. ASSUME NEW t \in BankThreads, bankPc'[t] # "idle"
          PROVE  AsWritten(bankLine[t], copyAmount[t])'
      <3>1. bankPc[t] # "idle" /\ bankLine[t] # l /\ bankLine[t] \in BankLines
        BY <1>1, <1>2, <2>2 DEF bankLocals, MatchInv, HeldInv
      <3>2. QED
        BY <1>1, <3>1 DEF MatchInv, AmountInv, AsWritten, bankLocals
    <2>3. QED
      BY <1>1, <2>1, <2>2
         DEF MatchInv, AmountInv, AsWritten, bankLocals, ledgerRows, Explains, SideAgrees
  <1>6. SeenInv'
    BY <1>1 DEF MatchInv, SeenInv, bankLocals, ledgerRows
  <1>7. MatchesAreTrue'
    <2>1. MatchedOnceUnlessRaced'
      BY <1>1 DEF MatchInv, MatchesAreTrue, MatchedOnceUnlessRaced
    <2>2. MatchedIsTheMovement'
      BY <1>1 DEF MatchInv, MatchesAreTrue, MatchedIsTheMovement, ledgerRows
    <2>3. QED
      BY <2>1, <2>2 DEF MatchesAreTrue
  <1>8. QED
    BY <1>3, <1>4, <1>5, <1>6, <1>7

(* A form writes one line, which is out of what the invariant speaks of.   *)
LEMMA FormMatchInv ==
  ASSUME MatchInv, NEW l \in BankLines,
         \/ \E n \in BankAmounts : AddInForm(l, n)
         \/ DeleteInForm(l)
         \/ \E t \in BankThreads : /\ bankLine[t] = l
                                   /\ \/ \E n \in BankAmounts : SaveStatementForm(t, n)
                                      \/ \E s \in LineStates, e \in EntryLines \cup {NoEntryLine} :
                                            SaveLineForm(t, s, e)
  PROVE  HeldInv' /\ TargetInv' /\ AmountInv' /\ SeenInv' /\ MatchesAreTrue'
  <1> USE DEF MatchInv
  <1>1. /\ handEdited' = handEdited \cup {l}
        /\ UNCHANGED <<contested, ambiguous, written, ledgerRows, amended>>
        /\ \A m \in BankLines \ {l} : /\ lineState'[m] = lineState[m] /\ amount'[m] = amount[m]
                                      /\ matchedTo'[m] = matchedTo[m]
    BY DEF AddInForm, DeleteInForm, SaveStatementForm, SaveLineForm, BankTypeOK
  <1>2. lineState'[l] = "absent" => matchedTo'[l] = NoEntryLine
    BY DEF AddInForm, DeleteInForm, SaveStatementForm, SaveLineForm, BankTypeOK, LineStates
  <1>3. \A u \in BankThreads :
           \/ /\ bankPc'[u] = bankPc[u] /\ bankLine'[u] = bankLine[u]
              /\ target'[u] = target[u] /\ copyAmount'[u] = copyAmount[u]
              /\ seen'[u] = seen[u]
           \/ bankPc'[u] = "idle" /\ bankLine'[u] = NoLine /\ target'[u] = NoEntryLine
    <2>1. CASE \/ \E n \in BankAmounts : AddInForm(l, n)
               \/ DeleteInForm(l)
      BY <2>1 DEF AddInForm, DeleteInForm, bankLocals
    <2>2. CASE \E t \in BankThreads : BankDone(t)
      BY <2>2, DoneFacts
    <2>3. QED
      BY <2>1, <2>2 DEF SaveStatementForm, SaveLineForm
  <1>4. HeldInv'
    BY <1>1, <1>2, <1>3 DEF HeldInv
  <1>5. TargetInv'
    BY <1>1, <1>3, BankAssumption DEF TargetInv
  <1>6. AmountInv'
    BY <1>1, <1>3 DEF AmountInv, AsWritten, Explains, SideAgrees, HeldInv, ledgerRows
  <1>7. SeenInv'
    BY <1>1, <1>3 DEF SeenInv, ledgerRows
  <1>8. MatchesAreTrue'
    BY <1>1 DEF MatchesAreTrue, MatchedOnceUnlessRaced, MatchedIsTheMovement, ledgerRows
  <1>9. QED
    BY <1>4, <1>5, <1>6, <1>7, <1>8

(* A ledger form changes entry lines or the account that is the bank's:    *)
(* those a request may have read, or a line is matched to, are amended.    *)
LEMMA LedgerFormMatchInv ==
  ASSUME MatchInv,
         \/ \E e \in EntryLines, row \in EntryForms : SaveEntryLine(e, row)
         \/ \E s \in Statements, a \in Accounts : SaveBankAccount(s, a)
  PROVE  HeldInv' /\ TargetInv' /\ AmountInv' /\ SeenInv' /\ MatchesAreTrue'
  <1> USE DEF MatchInv
  <1>1. /\ UNCHANGED <<bankRows, bankLocals, written, ambiguous, contested, handEdited>>
        /\ amended \subseteq amended'
    BY DEF SaveEntryLine, SaveBankAccount
  <1>2. \A x \in EntryLines : x \notin amended' /\ Attended(x) =>
           /\ entryRow'[x] = entryRow[x]
           /\ \A s \in Statements : bankAccount'[s] = bankAccount[s]
    BY DEF SaveEntryLine, SaveBankAccount, BankTypeOK
  <1>3. \A x \in EntryLines, t \in BankThreads : bankPc[t] # "idle" => Attended(x)
    BY DEF Attended
  <1>4. \A l \in BankLines : matchedTo[l] # NoEntryLine =>
           matchedTo[l] \in EntryLines /\ Attended(matchedTo[l])
    BY DEF Attended, BankTypeOK
  <1>5. HeldInv' /\ TargetInv'
    BY <1>1 DEF HeldInv, TargetInv, bankRows, bankLocals
  <1>6. SeenInv'
    BY <1>1, <1>2, <1>3 DEF SeenInv, bankLocals
  <1>7. AmountInv'
    <2>1. ASSUME NEW t \in BankThreads, target'[t] # NoEntryLine, target'[t] \notin amended'
          PROVE  Explains(target[t], bankLine[t], copyAmount[t])'
      <3>1. /\ target[t] \in EntryLines \ amended /\ bankPc[t] # "idle"
            /\ bankLine[t] \in BankLines /\ StatementOf[bankLine[t]] \in Statements
            /\ Explains(target[t], bankLine[t], copyAmount[t])
        BY <1>1, <2>1, BankAssumption DEF AmountInv, HeldInv, BankTypeOK, bankLocals
      <3>2. /\ entryRow'[target[t]] = entryRow[target[t]]
            /\ \A s \in Statements : bankAccount'[s] = bankAccount[s]
        BY <1>1, <1>2, <1>3, <2>1, <3>1 DEF bankLocals
      <3>3. QED
        BY <1>1, <3>1, <3>2 DEF Explains, SideAgrees, bankLocals
    <2>2. QED
      BY <1>1, <2>1 DEF AmountInv, AsWritten, bankRows, bankLocals
  <1>8. MatchesAreTrue'
    <2>1. MatchedOnceUnlessRaced'
      BY <1>1 DEF MatchesAreTrue, MatchedOnceUnlessRaced, bankRows
    <2>2. MatchedIsTheMovement'
      BY <1>1, <1>2, <1>4, BankAssumption DEF MatchesAreTrue, MatchedIsTheMovement, bankRows
    <2>3. QED
      BY <2>1, <2>2 DEF MatchesAreTrue
  <1>9. QED
    BY <1>5, <1>6, <1>7, <1>8

(* The amount a request compared with its entry line is the movement's.    *)
LEMMA SideIsTheMovement ==
  ASSUME NEW m \in Int, NEW n \in Int, n # 0, SideAgrees(n, m)
  PROVE  m = n
  BY DEF SideAgrees, Debit, Credit, Abs

(* The commit gives the line what its request had tested for.              *)
LEMMA CommitMatchInv ==
  ASSUME MatchInv, NEW t \in BankThreads, BankCommit(t)
  PROVE  HeldInv' /\ TargetInv' /\ AmountInv' /\ SeenInv' /\ MatchesAreTrue'
  <1> DEFINE l == bankLine[t]
             e == target[t]
  <1> USE DEF MatchInv
  <1>1. /\ bankPc[t] = "counted" /\ l \in BankLines
        /\ lineState'[l] # "absent" /\ matchedTo'[l] = e /\ amount'[l] = copyAmount[t]
        /\ \A m \in BankLines \ {l} : /\ lineState'[m] = lineState[m] /\ amount'[m] = amount[m]
                                      /\ matchedTo'[m] = matchedTo[m]
        /\ UNCHANGED <<ledgerRows, written, ambiguous, contested, handEdited, amended>>
    BY DEF BankCommit, bankHistory, BankTypeOK, HeldInv, WrittenState
  <1>2. /\ bankPc'[t] = "idle" /\ bankLine'[t] = NoLine /\ target'[t] = NoEntryLine
        /\ \A u \in BankThreads \ {t} :
              /\ bankPc'[u] = bankPc[u] /\ bankLine'[u] = bankLine[u]
              /\ target'[u] = target[u] /\ copyAmount'[u] = copyAmount[u]
              /\ seen'[u] = seen[u]
    BY DoneFacts DEF BankCommit
  <1>3. AsWritten(l, copyAmount[t])
    BY <1>1 DEF AmountInv
  <1> HIDE DEF l, e
  <1>4. HeldInv'
    BY <1>1, <1>2 DEF HeldInv
  <1>5. TargetInv'
    <2> SUFFICES ASSUME NEW u \in BankThreads, target'[u] # NoEntryLine, target'[u] \notin contested'
                 PROVE  /\ \A m \in BankLines \ handEdited' :
                              m # bankLine'[u] => matchedTo'[m] # target'[u]
                        /\ \A v \in BankThreads : v # u => target'[v] # target'[u]
      BY DEF TargetInv
    <2>1. u # t
      BY <1>2
    <2>2. e # target[u]
      BY <1>1, <1>2, <2>1 DEF TargetInv, e
    <2>3. QED
      BY <1>1, <1>2, <2>1, <2>2 DEF TargetInv
  <1>6. AmountInv'
    BY <1>1, <1>2, <1>3 DEF AmountInv, AsWritten, Explains, SideAgrees, ledgerRows
  <1>7. MatchedOnceUnlessRaced'
    <2>1. ASSUME NEW m \in BankLines \ handEdited, m # l, matchedTo[m] = e, e # NoEntryLine
          PROVE  e \in contested
      BY <2>1 DEF TargetInv, l, e
    <2>2. QED
      BY <1>1, <2>1 DEF MatchesAreTrue, MatchedOnceUnlessRaced
  <1>8. MatchedIsTheMovement'
    <2>1. ASSUME e # NoEntryLine, e \notin amended, l \notin handEdited
          PROVE  /\ entryRow[e].account = bankAccount[StatementOf[l]]
                 /\ l \notin ambiguous /\ written[l] # 0 => entryRow[e].amount = written[l]
      <3>1. /\ entryRow[e].account = bankAccount[StatementOf[l]]
            /\ e \in EntryLines /\ SideAgrees(copyAmount[t], entryRow[e].amount)
        <4>1. Explains(e, l, copyAmount[t])
          BY <2>1 DEF AmountInv, e, l
        <4>2. e \in EntryLines
          BY <2>1 DEF BankTypeOK, e
        <4>3. QED
          BY <4>1, <4>2 DEF Explains
      <3>2. copyAmount[t] \in Int /\ entryRow[e].amount \in Int
        BY <3>1 DEF BankTypeOK, EntryRows
      <3>3. QED
        BY <1>3, <2>1, <3>1, <3>2, SideIsTheMovement DEF AsWritten
    <2>2. QED
      BY <1>1, <2>1 DEF MatchesAreTrue, MatchedIsTheMovement, ledgerRows
  <1>9. SeenInv'
    BY <1>1, <1>2 DEF SeenInv, ledgerRows
  <1>10. QED
    BY <1>4, <1>5, <1>6, <1>7, <1>8, <1>9 DEF MatchesAreTrue

LEMMA MatchInvHolds == BankSpec => []MatchInv
  <1>1. MatchInv /\ [BankNext]_bankVars => MatchInv'
    <2> SUFFICES ASSUME MatchInv, [BankNext]_bankVars PROVE MatchInv'
      OBVIOUS
    <2>1. BankTypeOK'
      BY TypeStep DEF MatchInv
    <2>2. HeldInv' /\ TargetInv' /\ AmountInv' /\ SeenInv' /\ MatchesAreTrue'
      <3>1. CASE UNCHANGED bankVars
        BY <3>1 DEF bankVars, bankRows, ledgerRows, bankLocals, bankHistory, MatchInv, HeldInv,
                    TargetInv, AmountInv, SeenInv, Explains, AsWritten, SideAgrees, MatchesAreTrue, MatchedOnceUnlessRaced,
                    MatchedIsTheMovement
      <3>2. ASSUME NEW t \in BankThreads, NEW n \in BankAmounts, SaveStatementForm(t, n)
            PROVE  bankLine[t] \in BankLines
        BY <3>2 DEF SaveStatementForm, MatchInv, HeldInv
      <3>3. ASSUME NEW t \in BankThreads, NEW s \in LineStates,
                   NEW e \in EntryLines \cup {NoEntryLine}, SaveLineForm(t, s, e)
            PROVE  bankLine[t] \in BankLines
        BY <3>3 DEF SaveLineForm, MatchInv, HeldInv
      <3>4. QED
        BY <3>1, <3>2, <3>3, LoadMatchInv, MatchTestsMatchInv, MovesOnMatchInv, EndsMatchInv,
           ImportMatchInv, FormMatchInv, LedgerFormMatchInv, CommitMatchInv DEF BankNext
    <2>3. QED
      BY <2>1, <2>2 DEF MatchInv
  <1>2. QED
    BY <1>1, InitMatchInv, PTL DEF BankSpec

(* Every row of a statement, and every copy of one, keeps its type.        *)
THEOREM BankTypeCorrect == BankSpec => []BankTypeOK
  <1>1. MatchInv => BankTypeOK
    BY DEF MatchInv
  <1>2. QED
    BY <1>1, MatchInvHolds, PTL

(* match_to: a matched line is explained by one entry line that explains   *)
(* no other, on the bank account, for the amount and in the direction of   *)
(* the bank's file, but for races, the forms of either row, and amounts    *)
(* written with separators of thousands the parser misreads.               *)
THEOREM BankMatchesAreTrue == BankSpec => []MatchesAreTrue
  <1>1. MatchInv => MatchesAreTrue
    BY DEF MatchInv
  <1>2. QED
    BY <1>1, MatchInvHolds, PTL

-----------------------------------------------------------------------------
(* A statement's state is what its lines say.                              *)

DoneLines(s) == {l \in LinesOf(s) : lineState[l] # "unmatched"}
AllLines == {l \in BankLines : lineState[l] # "absent"}

(* State st tells of lines S that those in D are done. *)
Tells(st, S, D) == /\ st = "reconciled" <=> S # {} /\ D = S
                   /\ st = "draft" <=> D = {}

(* The lines that will be done when the request has committed. *)
DoneBy(t, D) == IF WrittenState(t) = "matched" THEN D \cup {bankLine[t]}
                                               ELSE D \ {bankLine[t]}

(* The one request at work on a statement has a true copy of it, and its   *)
(* count is of the lines as its commit leaves them.                        *)
StatementOk(s) ==
    /\ Tells(statement[s], LinesOf(s), DoneLines(s))
    /\ \A t, u \in Busy(s) : t = u
    /\ \A t \in Busy(s) :
          /\ copyStatement[t] = statement[s]
          /\ bankPc[t] = "counted" => Tells(newState[t], LinesOf(s), DoneBy(t, DoneLines(s)))

StatementInv == /\ IsFiniteSet(AllLines)
                /\ \A l \in handEdited : StatementOf[l] \in reshaped
                /\ \A s \in Statements \ (crowded \cup reshaped) : StatementOk(s)

(* What the counts of update_state say of the sets counted. *)
LEMMA StateOfTells ==
  ASSUME NEW S, IsFiniteSet(S), NEW D \in SUBSET S, NEW l, l \notin S
  PROVE  /\ Tells(StateOf(Cardinality(S) + 1, Cardinality(D) + 1), S \cup {l}, D \cup {l})
         /\ Tells(StateOf(Cardinality(S) + 1, Cardinality(D) + 0), S \cup {l}, D)
  <1>1. /\ Cardinality(S) \in Nat /\ Cardinality(D) \in Nat
        /\ Cardinality(D) <= Cardinality(S)
        /\ Cardinality(S) = Cardinality(D) => S = D
    BY FS_Subset, FS_CardinalityType
  <1>2. Cardinality(D) = 0 <=> D = {}
    BY FS_EmptySet, FS_Subset
  <1>3. Tells(StateOf(Cardinality(S) + 1, Cardinality(D) + 1), S \cup {l}, D \cup {l})
    BY <1>1 DEF Tells, StateOf
  <1>4. Tells(StateOf(Cardinality(S) + 1, Cardinality(D) + 0), S \cup {l}, D)
    BY <1>1, <1>2 DEF Tells, StateOf
  <1>5. QED
    BY <1>3, <1>4

(* A statement nobody writes, with lines nobody writes. *)
LEMMA StatementStays ==
  ASSUME NEW s \in Statements, StatementOk(s), statement'[s] = statement[s],
         \A l \in BankLines : StatementOf[l] = s => lineState'[l] = lineState[l],
         \A t \in BankThreads : bankPc'[t] # "idle" /\ StatementOf[bankLine'[t]] = s =>
            /\ bankPc[t] # "idle" /\ bankLine'[t] = bankLine[t]
            /\ copyStatement'[t] = copyStatement[t]
            /\ bankPc'[t] = "counted" => /\ bankPc[t] = "counted" /\ newState'[t] = newState[t]
                                         /\ target'[t] = target[t]
  PROVE  StatementOk(s)'
  <1>1. LinesOf(s)' = LinesOf(s) /\ DoneLines(s)' = DoneLines(s)
    BY DEF LinesOf, DoneLines
  <1>2. Busy(s)' \subseteq Busy(s)
    BY DEF Busy
  <1>3. ASSUME NEW t \in Busy(s)'
        PROVE  /\ copyStatement'[t] = statement'[s]
               /\ bankPc'[t] = "counted" =>
                     Tells(newState[t], LinesOf(s), DoneBy(t, DoneLines(s)))'
    BY <1>1, <1>2, <1>3 DEF StatementOk, Busy, DoneBy, WrittenState, Tells
  <1>4. Tells(statement[s], LinesOf(s), DoneLines(s))'
    BY <1>1 DEF StatementOk, Tells
  <1>5. QED
    BY <1>2, <1>3, <1>4 DEF StatementOk

(* One line more at most is there after a step.                            *)
LEMMA LinesStayFinite ==
  ASSUME MatchInv, IsFiniteSet(AllLines), [BankNext]_bankVars
  PROVE  IsFiniteSet(AllLines')
  <1>1. \E l : AllLines' \subseteq AllLines \cup {l}
    <2> USE DEF AllLines, MatchInv, BankTypeOK
    <2>1. ASSUME NEW l \in BankLines, \A m \in BankLines \ {l} : lineState'[m] = lineState[m]
          PROVE  \E k : AllLines' \subseteq AllLines \cup {k}
      BY <2>1
    <2>2. CASE UNCHANGED lineState
      BY <2>2
    <2>3. ASSUME NEW t \in BankThreads, BankCommit(t)
          PROVE  \E k : AllLines' \subseteq AllLines \cup {k}
      BY <2>1, <2>3 DEF BankCommit, HeldInv
    <2>4. ASSUME NEW t \in BankThreads, NEW n \in BankAmounts, SaveStatementForm(t, n)
          PROVE  \E k : AllLines' \subseteq AllLines \cup {k}
      BY <2>1, <2>4 DEF SaveStatementForm, HeldInv
    <2>5. ASSUME NEW t \in BankThreads, NEW s \in LineStates,
                 NEW e \in EntryLines \cup {NoEntryLine}, SaveLineForm(t, s, e)
          PROVE  \E k : AllLines' \subseteq AllLines \cup {k}
      BY <2>1, <2>5 DEF SaveLineForm, HeldInv
    <2>6. ASSUME NEW l \in BankLines,
                 \/ \E st \in Styles, n \in BankAmounts : ImportLine(l, st, n)
                 \/ \E n \in BankAmounts : AddInForm(l, n)
                 \/ DeleteInForm(l)
          PROVE  \E k : AllLines' \subseteq AllLines \cup {k}
      BY <2>1, <2>6 DEF ImportLine, AddInForm, DeleteInForm
    <2>7. QED
      BY <2>2, <2>3, <2>4, <2>5, <2>6
         DEF BankNext, BankLoad, MatchTests, UnmatchTests, BankRefuse, CountLines, BankAbort,
             SaveEntryLine, SaveBankAccount, bankVars, bankRows
  <1>2. QED
    BY <1>1, FS_AddElement, FS_Subset

LEMMA FormsReshape ==
  ASSUME MatchInv, \A l \in handEdited : StatementOf[l] \in reshaped, [BankNext]_bankVars
  PROVE  /\ reshaped \subseteq reshaped' /\ crowded \subseteq crowded'
         /\ \A l \in handEdited' : StatementOf[l] \in reshaped'
  BY DEF BankNext, ImportLine, AddInForm, DeleteInForm, SaveStatementForm, SaveLineForm,
         BankLoad, MatchTests, UnmatchTests, BankRefuse, CountLines, BankCommit, BankAbort,
         SaveEntryLine, SaveBankAccount, bankVars, bankHistory

(* A line is imported into a statement nobody works on, still a draft.     *)
LEMMA ImportStatementOk ==
  ASSUME MatchInv, NEW s \in Statements, StatementOk(s), s \notin reshaped',
         NEW l \in BankLines, NEW st \in Styles, NEW n \in BankAmounts, ImportLine(l, st, n)
  PROVE  StatementOk(s)'
  <1>1. /\ UNCHANGED <<statement, bankLocals>> /\ lineState[l] = "absent"
        /\ lineState'[l] = "unmatched"
        /\ \A m \in BankLines \ {l} : lineState'[m] = lineState[m]
    BY DEF ImportLine, MatchInv, BankTypeOK
  <1>2. CASE StatementOf[l] # s
    BY <1>1, <1>2, StatementStays DEF bankLocals
  <1>3. CASE StatementOf[l] = s
    <2>1. statement[s] = "draft" /\ Busy(s) = {}
      BY <1>3 DEF ImportLine, Touched
    <2>2. DoneLines(s)' = DoneLines(s) /\ DoneLines(s) = {} /\ Busy(s)' = {}
      BY <1>1, <2>1 DEF DoneLines, LinesOf, Busy, bankLocals, StatementOk, Tells
    <2>3. l \in LinesOf(s)'
      BY <1>1, <1>3 DEF LinesOf
    <2>4. Tells(statement[s], LinesOf(s), DoneLines(s))'
      BY <1>1, <2>1, <2>2, <2>3 DEF Tells
    <2>5. QED
      BY <2>2, <2>4 DEF StatementOk
  <1>4. QED
    BY <1>2, <1>3

(* A request opens a statement nobody else works on, and copies it.        *)
LEMMA LoadStatementOk ==
  ASSUME MatchInv, NEW s \in Statements, StatementOk(s), s \notin crowded',
         NEW t \in BankThreads, NEW l \in BankLines, BankLoad(t, l)
  PROVE  StatementOk(s)'
  <1> USE DEF MatchInv, BankTypeOK
  <1>1. /\ UNCHANGED <<bankRows, target, newState>>
        /\ bankPc[t] = "idle" /\ bankPc'[t] = "loaded" /\ bankLine'[t] = l
        /\ copyStatement'[t] = statement[StatementOf[l]]
        /\ \A u \in BankThreads \ {t} : /\ bankPc'[u] = bankPc[u] /\ bankLine'[u] = bankLine[u]
                                        /\ copyStatement'[u] = copyStatement[u]
    BY DEF BankLoad
  <1>2. CASE StatementOf[l] # s
    BY <1>1, <1>2, StatementStays DEF bankRows
  <1>3. CASE StatementOf[l] = s
    <2>1. Busy(s) = {}
      BY <1>3 DEF BankLoad
    <2>2. Busy(s)' = {t}
      BY <1>1, <1>3, <2>1 DEF Busy
    <2>3. LinesOf(s)' = LinesOf(s) /\ DoneLines(s)' = DoneLines(s)
      BY <1>1 DEF LinesOf, DoneLines, bankRows
    <2>4. Tells(statement[s], LinesOf(s), DoneLines(s))'
      BY <1>1, <2>3 DEF StatementOk, Tells, bankRows
    <2>5. QED
      BY <1>1, <1>3, <2>2, <2>4 DEF StatementOk, bankRows
  <1>4. QED
    BY <1>2, <1>3

(* The count: of the lines as the save and the commit will leave them.     *)
LEMMA CountStatementOk ==
  ASSUME MatchInv, StatementInv, NEW s \in Statements \ (crowded \cup reshaped),
         NEW t \in BankThreads, CountLines(t)
  PROVE  StatementOk(s)'
  <1> USE DEF MatchInv, BankTypeOK
  <1>0. StatementOk(s)
    BY DEF StatementInv
  <1>1. /\ UNCHANGED <<bankRows, bankLine, target, copyStatement>>
        /\ bankPc[t] = "checked" /\ bankPc'[t] = "counted" /\ bankLine[t] \in BankLines
        /\ \A u \in BankThreads \ {t} : bankPc'[u] = bankPc[u] /\ newState'[u] = newState[u]
    BY DEF CountLines, HeldInv
  <1>2. CASE StatementOf[bankLine[t]] # s
    BY <1>0, <1>1, <1>2, StatementStays DEF bankRows
  <1>3. CASE StatementOf[bankLine[t]] = s
    <2> DEFINE l == bankLine[t]
               others == LinesOf(s) \ {l}
               done == {k \in others : lineState[k] # "unmatched"}
    <2>1. Busy(s) = {t} /\ Busy(s)' = {t}
      BY <1>0, <1>1, <1>3 DEF Busy, StatementOk
    <2>2. LinesOf(s)' = LinesOf(s) /\ DoneLines(s)' = DoneLines(s)
      BY <1>1 DEF LinesOf, DoneLines, bankRows
    <2>3. l \in LinesOf(s)
      BY <1>1, <1>3 DEF LinesOf, HeldInv, StatementInv
    <2>4. IsFiniteSet(others)
      BY FS_Subset DEF StatementInv, AllLines, LinesOf
    <2>5. newState'[t] = StateOf(Cardinality(others) + 1,
                                 Cardinality(done) + IF WrittenState(t) = "matched" THEN 1 ELSE 0)
      BY <1>3 DEF CountLines
    <2>6. Tells(newState'[t], LinesOf(s), DoneBy(t, DoneLines(s)))
      <3>1. /\ others \cup {l} = LinesOf(s) /\ done = DoneLines(s) \ {l}
            /\ done \cup {l} = DoneLines(s) \cup {l}
        BY <2>3 DEF DoneLines
      <3>2. /\ Tells(StateOf(Cardinality(others) + 1, Cardinality(done) + 1),
                     others \cup {l}, done \cup {l})
            /\ Tells(StateOf(Cardinality(others) + 1, Cardinality(done) + 0),
                     others \cup {l}, done)
        BY <2>4, StateOfTells
      <3> HIDE DEF others, done
      <3>3. QED
        BY <2>5, <3>1, <3>2 DEF DoneBy
    <2>7. DoneBy(t, DoneLines(s))' = DoneBy(t, DoneLines(s))
      BY <1>1, <2>2 DEF DoneBy, WrittenState
    <2>8. Tells(newState[t], LinesOf(s), DoneBy(t, DoneLines(s)))'
      BY <2>2, <2>6, <2>7 DEF Tells
    <2>9. Tells(statement[s], LinesOf(s), DoneLines(s))'
      BY <1>0, <1>1, <2>2 DEF StatementOk, Tells, bankRows
    <2>10. copyStatement'[t] = statement'[s]
      BY <1>0, <1>1, <2>1 DEF StatementOk, bankRows
    <2>11. QED
      BY <2>1, <2>8, <2>9, <2>10 DEF StatementOk
  <1>4. QED
    BY <1>2, <1>3

LEMMA CommitStatementOk ==
  ASSUME MatchInv, StatementInv, NEW s \in Statements \ (crowded \cup reshaped),
         NEW t \in BankThreads, BankCommit(t)
  PROVE  StatementOk(s)'
  <1> DEFINE l == bankLine[t]
  <1> USE DEF MatchInv, BankTypeOK
  <1>0. StatementOk(s)
    BY DEF StatementInv
  <1>1. /\ bankPc[t] = "counted" /\ l \in BankLines /\ statement' = SavedStatement(t)
        /\ lineState'[l] = WrittenState(t)
        /\ \A m \in BankLines \ {l} : lineState'[m] = lineState[m]
    BY DEF BankCommit, HeldInv
  <1>2. /\ bankPc'[t] = "idle"
        /\ \A u \in BankThreads \ {t} :
              /\ bankPc'[u] = bankPc[u] /\ bankLine'[u] = bankLine[u]
              /\ target'[u] = target[u] /\ newState'[u] = newState[u]
              /\ copyStatement'[u] = copyStatement[u]
    BY DoneFacts DEF BankCommit
  <1>3. CASE StatementOf[l] # s
    <2>1. statement'[s] = statement[s]
      BY <1>1, <1>3 DEF SavedStatement
    <2>2. QED
      BY <1>0, <1>1, <1>2, <1>3, <2>1, StatementStays
  <1>4. CASE StatementOf[l] = s
    <2>1. Busy(s) = {t} /\ Busy(s)' = {}
      <3>1. t \in Busy(s)
        BY <1>1, <1>4 DEF Busy
      <3>2. Busy(s) = {t}
        BY <1>0, <3>1 DEF StatementOk
      <3>3. Busy(s)' \subseteq Busy(s) \ {t}
        BY <1>2 DEF Busy
      <3>4. QED
        BY <3>2, <3>3
    <2>2. l \in LinesOf(s)
      <3>1. lineState[l] # "absent" \/ l \in handEdited
        BY <1>1 DEF HeldInv
      <3>2. l \notin handEdited
        BY <1>4 DEF StatementInv
      <3>3. QED
        BY <1>1, <1>4, <3>1, <3>2 DEF LinesOf
    <2>3. LinesOf(s)' = LinesOf(s)
      BY <1>1, <2>2 DEF LinesOf, WrittenState
    <2>4. DoneLines(s)' = DoneBy(t, DoneLines(s))
      BY <1>1, <2>2, <2>3 DEF DoneLines, DoneBy, WrittenState, LinesOf
    <2>5. statement'[s] = newState[t]
      BY <1>0, <1>1, <1>4, <2>1 DEF SavedStatement, StatementOk
    <2>6. Tells(newState[t], LinesOf(s), DoneBy(t, DoneLines(s)))
      BY <1>0, <1>1, <2>1 DEF StatementOk
    <2>7. Tells(statement[s], LinesOf(s), DoneLines(s))'
      BY <2>3, <2>4, <2>5, <2>6 DEF Tells
    <2>8. QED
      BY <2>1, <2>7 DEF StatementOk
  <1>5. QED
    BY <1>3, <1>4

(* The other steps: a request moves on, ends, or a form reshapes.          *)
LEMMA OtherStatementOk ==
  ASSUME MatchInv, NEW s \in Statements, StatementOk(s), s \notin reshaped',
         \/ \E t \in BankThreads :
               \/ \E e \in EntryLines : MatchTests(t, e)
               \/ UnmatchTests(t) \/ BankRefuse(t) \/ BankAbort(t)
               \/ \E n \in BankAmounts : SaveStatementForm(t, n)
               \/ \E st \in LineStates, e \in EntryLines \cup {NoEntryLine} :
                     SaveLineForm(t, st, e)
         \/ \E l \in BankLines : DeleteInForm(l) \/ \E n \in BankAmounts : AddInForm(l, n)
         \/ UNCHANGED <<bankRows, bankLocals>>
  PROVE  StatementOk(s)'
  <1> USE DEF MatchInv, BankTypeOK
  <1>1. ASSUME NEW t \in BankThreads,
               UnmatchTests(t) \/ \E e \in EntryLines : MatchTests(t, e)
        PROVE  StatementOk(s)'
    <2>1. /\ UNCHANGED <<bankRows, bankLine, copyStatement, newState>>
          /\ bankPc[t] = "loaded" /\ bankPc'[t] = "checked"
          /\ \A u \in BankThreads \ {t} : bankPc'[u] = bankPc[u] /\ target'[u] = target[u]
      BY <1>1 DEF UnmatchTests, MatchTests
    <2>2. QED
      BY <2>1, StatementStays DEF bankRows
  <1>2. ASSUME NEW t \in BankThreads, BankDone(t), statement'[s] = statement[s],
               \A l \in BankLines : StatementOf[l] = s => lineState'[l] = lineState[l]
        PROVE  StatementOk(s)'
    BY <1>2, DoneFacts, StatementStays
  <1>3. ASSUME NEW t \in BankThreads, BankRefuse(t) \/ BankAbort(t) PROVE StatementOk(s)'
    BY <1>2, <1>3 DEF BankRefuse, BankAbort, bankRows
  <1>4. ASSUME NEW t \in BankThreads, NEW n \in BankAmounts, SaveStatementForm(t, n)
        PROVE  StatementOk(s)'
    BY <1>2, <1>4 DEF SaveStatementForm, HeldInv
  <1>5. ASSUME NEW t \in BankThreads, NEW st \in LineStates,
               NEW e \in EntryLines \cup {NoEntryLine}, SaveLineForm(t, st, e)
        PROVE  StatementOk(s)'
    BY <1>2, <1>5 DEF SaveLineForm, HeldInv
  <1>6. ASSUME NEW l \in BankLines, DeleteInForm(l) \/ \E n \in BankAmounts : AddInForm(l, n)
        PROVE  StatementOk(s)'
    BY <1>6, StatementStays DEF DeleteInForm, AddInForm, bankLocals
  <1>7. CASE UNCHANGED <<bankRows, bankLocals>>
    BY <1>7, StatementStays DEF bankRows, bankLocals
  <1>8. QED
    BY <1>1, <1>3, <1>4, <1>5, <1>6, <1>7

LEMMA NextStatementInv ==
  ASSUME MatchInv, StatementInv, [BankNext]_bankVars
  PROVE  StatementInv'
  <1>1. IsFiniteSet(AllLines')
    BY LinesStayFinite DEF StatementInv
  <1>2. /\ reshaped \subseteq reshaped' /\ crowded \subseteq crowded'
        /\ \A l \in handEdited' : StatementOf[l] \in reshaped'
    BY FormsReshape DEF StatementInv
  <1>3. ASSUME NEW s \in Statements \ (crowded' \cup reshaped') PROVE StatementOk(s)'
    <2>1. StatementOk(s) /\ s \in Statements \ (crowded \cup reshaped)
      BY <1>2 DEF StatementInv
    <2>2. QED
      BY <2>1, ImportStatementOk, LoadStatementOk, CountStatementOk, CommitStatementOk,
         OtherStatementOk DEF BankNext, SaveEntryLine, SaveBankAccount, bankVars
  <1>4. QED
    BY <1>1, <1>2, <1>3 DEF StatementInv

(* A statement is reconciled when all its lines are matched and a draft    *)
(* when none is, unless requests worked on it at once (each counts before  *)
(* the other commits), or a form or a late import changed its lines.       *)
THEOREM BankStateFollowsLines == BankSpec => []StateFollowsLines
  <1>1. BankInit => StatementInv
    <2> SUFFICES ASSUME BankInit PROVE StatementInv
      OBVIOUS
    <2>1. AllLines = {} /\ handEdited = {}
      BY DEF BankInit, AllLines
    <2>2. ASSUME NEW s \in Statements PROVE StatementOk(s)
      <3>1. LinesOf(s) = {} /\ DoneLines(s) = {} /\ Busy(s) = {} /\ statement[s] = "draft"
        BY DEF BankInit, LinesOf, DoneLines, Busy
      <3>2. QED
        BY <3>1 DEF StatementOk, Tells
    <2>3. QED
      BY <2>1, <2>2, FS_EmptySet DEF StatementInv
  <1>2. MatchInv /\ StatementInv /\ [BankNext]_bankVars => StatementInv'
    BY NextStatementInv
  <1>3. StatementInv => StateFollowsLines
    BY DEF StatementInv, StatementOk, Tells, StateFollowsLines, DoneLines
  <1>4. QED
    BY <1>1, <1>2, <1>3, MatchInvHolds, PTL DEF BankSpec

-----------------------------------------------------------------------------
(* Periods. *)

Copies == UNION {[S -> PeriodStates] : S \in SUBSET PeriodKeys}

(* A period two requests never held at once has one copy, and a true one.  *)
CopyInv ==
    \A t \in PeriodThreads : \A p \in DOMAIN perCopy[t] : p \notin perRaced =>
        /\ perCopy[t][p] = period[p]
        /\ \A u \in PeriodThreads : p \in DOMAIN perCopy[u] => u = t

PeriodInv == PeriodTypeOK /\ CopyInv /\ DiaryTellsTheState

(* What is left of a request's copies when one is done with. *)
LEMMA DoneWithFacts ==
  ASSUME PeriodTypeOK, NEW t \in PeriodThreads, NEW p \in PeriodKeys, DoneWith(t, p)
  PROVE  /\ perAct' \in [PeriodThreads -> {"none", "lock", "unlock", "start_close"}]
         /\ perCopy' \in [PeriodThreads -> Copies]
         /\ perRaced' = perRaced
         /\ DOMAIN perCopy'[t] = DOMAIN perCopy[t] \ {p}
         /\ \A q \in DOMAIN perCopy[t] \ {p} : perCopy'[t][q] = perCopy[t][q]
         /\ \A u \in PeriodThreads \ {t} : perCopy'[u] = perCopy[u]
  <1> DEFINE rest == DOMAIN perCopy[t] \ {p}
             left == [q \in rest |-> perCopy[t][q]]
  <1>1. perCopy \in [PeriodThreads -> Copies] /\ perCopy[t] \in Copies
    BY DEF PeriodTypeOK, Copies
  <1>2. left \in Copies
    <2>1. PICK S \in SUBSET PeriodKeys : perCopy[t] \in [S -> PeriodStates]
      BY <1>1 DEF Copies
    <2>2. rest \in SUBSET PeriodKeys /\ left \in [rest -> PeriodStates]
      BY <2>1
    <2>3. QED
      BY <2>2 DEF Copies
  <1>3. perCopy' = [perCopy EXCEPT ![t] = left]
    BY DEF DoneWith
  <1>4. DOMAIN left = rest /\ \A q \in rest : left[q] = perCopy[t][q]
    OBVIOUS
  <1> HIDE DEF left
  <1>5. /\ perCopy' \in [PeriodThreads -> Copies] /\ perCopy'[t] = left
        /\ \A u \in PeriodThreads \ {t} : perCopy'[u] = perCopy[u]
    BY <1>1, <1>2, <1>3
  <1>6. /\ perAct' \in [PeriodThreads -> {"none", "lock", "unlock", "start_close"}]
        /\ perRaced' = perRaced
    BY DEF DoneWith, PeriodTypeOK
  <1>7. QED
    BY <1>4, <1>5, <1>6

(* lock(), unlock() and start_close(): a period is saved, its copy is done *)
(* with, and the copies of other periods stay true.                        *)
LEMMA WriteCopyInv ==
  ASSUME PeriodTypeOK, CopyInv, NEW t \in PeriodThreads, NEW p \in PeriodKeys,
         p \in DOMAIN perCopy[t], DoneWith(t, p),
         \A q \in PeriodKeys \ {p} : period'[q] = period[q]
  PROVE  CopyInv'
  <1> SUFFICES ASSUME NEW u \in PeriodThreads, NEW q \in DOMAIN perCopy'[u], q \notin perRaced'
               PROVE  /\ perCopy'[u][q] = period'[q]
                      /\ \A v \in PeriodThreads : q \in DOMAIN perCopy'[v] => v = u
    BY DEF CopyInv
  <1>1. q \in DOMAIN perCopy[u] /\ perCopy'[u][q] = perCopy[u][q] /\ q \notin perRaced
    BY DoneWithFacts
  <1>2. \A v \in PeriodThreads : q \in DOMAIN perCopy'[v] => q \in DOMAIN perCopy[v]
    BY DoneWithFacts
  <1>3. perCopy[u][q] = period[q] /\ \A v \in PeriodThreads : q \in DOMAIN perCopy[v] => v = u
    BY <1>1 DEF CopyInv
  <1>4. q \in PeriodKeys
    BY <1>1 DEF PeriodTypeOK
  <1>5. q # p
    <2>1. SUFFICES ASSUME q = p PROVE FALSE
      OBVIOUS
    <2>2. u = t
      BY <1>3, <2>1
    <2>3. QED
      BY <2>1, <2>2, DoneWithFacts
  <1>6. QED
    BY <1>1, <1>2, <1>3, <1>4, <1>5

(* What PeriodWrite leaves of the rows of the period and of the others.    *)
LEMMA WriteFacts ==
  ASSUME PeriodTypeOK, NEW p \in PeriodKeys, NEW s \in PeriodStates, NEW closed \in BOOLEAN,
         NEW entry \in Seq({"lock", "unlock"}), PeriodWrite(p, s, closed, entry)
  PROVE  /\ period' \in [PeriodKeys -> PeriodStates]
         /\ closedAt' \in [PeriodKeys -> BOOLEAN]
         /\ diary' \in [PeriodKeys -> Seq({"lock", "unlock"})]
         /\ period'[p] = s /\ closedAt'[p] = closed /\ diary'[p] = diary[p] \o entry
         /\ \A q \in PeriodKeys \ {p} : /\ period'[q] = period[q] /\ closedAt'[q] = closedAt[q]
                                        /\ diary'[q] = diary[q]
  <1>1. diary[p] \o entry \in Seq({"lock", "unlock"})
    BY DEF PeriodTypeOK
  <1>2. QED
    BY <1>1 DEF PeriodTypeOK, PeriodWrite

(* The last line of the diary is the one written last. *)
LEMMA LastLine ==
  ASSUME NEW S, NEW s \in Seq(S), NEW x \in S
  PROVE  /\ Len(s \o <<x>>) = Len(s) + 1 /\ (s \o <<x>>)[Len(s) + 1] = x
         /\ Len(s) + 1 > 0 /\ <<x>> \in Seq(S)
  OBVIOUS

LEMMA NothingWritten ==
  ASSUME NEW S, NEW s \in Seq(S)
  PROVE  s \o <<>> = s /\ <<>> \in Seq(S)
  OBVIOUS

(* The row of a period and the last line of its diary agree. *)
Told(p) == LET n == Len(diary[p]) IN
           /\ period[p] = "closed" <=> n > 0 /\ diary[p][n] = "lock"
           /\ period[p] = "closed" <=> closedAt[p]

(* A save that leaves its own period told leaves all of them told. *)
LEMMA WriteInv ==
  ASSUME PeriodInv, NEW t \in PeriodThreads, NEW p \in PeriodKeys, p \in DOMAIN perCopy[t],
         DoneWith(t, p), NEW s \in PeriodStates, NEW closed \in BOOLEAN,
         NEW entry \in Seq({"lock", "unlock"}), PeriodWrite(p, s, closed, entry),
         p \notin perRaced => Told(p)'
  PROVE  PeriodInv'
  <1>1. PeriodTypeOK'
    BY DoneWithFacts, WriteFacts DEF PeriodInv, PeriodTypeOK, Copies
  <1>2. CopyInv'
    BY WriteCopyInv, WriteFacts DEF PeriodInv
  <1>3. DiaryTellsTheState'
    <2> SUFFICES ASSUME NEW q \in PeriodKeys, q \notin perRaced' PROVE Told(q)'
      BY DEF DiaryTellsTheState, Told
    <2>1. perRaced' = perRaced
      BY DEF DoneWith
    <2>2. CASE q = p
      BY <2>1, <2>2
    <2>3. CASE q # p
      <3>1. Told(q)
        BY <2>1 DEF PeriodInv, DiaryTellsTheState, Told
      <3>2. period'[q] = period[q] /\ closedAt'[q] = closedAt[q] /\ diary'[q] = diary[q]
        BY <2>3, WriteFacts DEF PeriodInv
      <3>3. QED
        BY <3>1, <3>2 DEF Told
    <2>4. QED
      BY <2>2, <2>3
  <1>4. QED
    BY <1>1, <1>2, <1>3 DEF PeriodInv

LEMMA InitPeriodInv == PeriodInit => PeriodInv
  <1> SUFFICES ASSUME PeriodInit
               PROVE  PeriodInv
    OBVIOUS
  <1>1. <<>> \in Copies /\ DOMAIN <<>> = {}
    <2>1. <<>> \in [{} -> PeriodStates]
      OBVIOUS
    <2>2. QED
      BY <2>1 DEF Copies
  <1>2. PeriodTypeOK
    BY <1>1 DEF PeriodInit, PeriodTypeOK, PeriodStates, Copies
  <1>3. CopyInv
    BY <1>1 DEF PeriodInit, CopyInv
  <1>4. DiaryTellsTheState
    BY DEF PeriodInit, DiaryTellsTheState
  <1>5. QED
    BY <1>2, <1>3, <1>4 DEF PeriodInv

LEMMA SelectPeriodsInv ==
  ASSUME PeriodInv, NEW t \in PeriodThreads, NEW S \in SUBSET PeriodKeys,
         NEW a \in {"lock", "unlock", "start_close"}, SelectPeriods(t, S, a)
  PROVE  PeriodInv'
  <1> DEFINE c == [p \in S |-> period[p]]
  <1>1. c \in Copies /\ DOMAIN c = S /\ \A p \in S : c[p] = period[p]
    <2>1. c \in [S -> PeriodStates]
      BY DEF PeriodInv, PeriodTypeOK
    <2>2. QED
      BY <2>1 DEF Copies
  <1>2. perCopy' = [perCopy EXCEPT ![t] = c]
    BY DEF SelectPeriods
  <1> HIDE DEF c
  <1>3. perCopy \in [PeriodThreads -> Copies]
    BY DEF PeriodInv, PeriodTypeOK, Copies
  <1>4. /\ perCopy' \in [PeriodThreads -> Copies] /\ perCopy'[t] = c
        /\ \A u \in PeriodThreads \ {t} : perCopy'[u] = perCopy[u]
    BY <1>1, <1>2, <1>3
  <1>5. PeriodTypeOK'
    BY <1>4 DEF SelectPeriods, PeriodInv, PeriodTypeOK, Copies
  <1>6. CopyInv'
    <2>1. UNCHANGED period /\ perRaced' = perRaced \cup (S \cap HeldPeriods(t))
      BY DEF SelectPeriods
    <2>2. ASSUME NEW u \in PeriodThreads \ {t}, NEW p \in S, p \in DOMAIN perCopy[u]
          PROVE  p \in perRaced'
      BY <2>1, <2>2 DEF HeldPeriods
    <2>3. QED
      BY <1>1, <1>4, <2>1, <2>2 DEF PeriodInv, CopyInv
  <1>7. DiaryTellsTheState'
    BY DEF SelectPeriods, PeriodInv, DiaryTellsTheState
  <1>8. QED
    BY <1>5, <1>6, <1>7 DEF PeriodInv

LEMMA LockInv ==
  ASSUME PeriodInv, NEW t \in PeriodThreads, NEW p \in PeriodKeys, Lock(t, p)
  PROVE  PeriodInv'
  <1>1. PeriodWrite(p, "closed", TRUE, <<"lock">>) /\ DoneWith(t, p) /\ p \in DOMAIN perCopy[t]
    BY DEF Lock, Turn
  <1>2. "closed" \in PeriodStates /\ <<"lock">> \in Seq({"lock", "unlock"})
    BY DEF PeriodStates
  <1>3. diary[p] \in Seq({"lock", "unlock"})
    BY DEF PeriodInv, PeriodTypeOK
  <1>4. Told(p)'
    <2>1. period'[p] = "closed" /\ closedAt'[p] = TRUE /\ diary'[p] = diary[p] \o <<"lock">>
      BY <1>1, <1>2, WriteFacts DEF PeriodInv
    <2>2. QED
      BY <1>3, <2>1, LastLine DEF Told
  <1>5. QED
    BY <1>1, <1>2, <1>4, WriteInv

LEMMA UnlockInv ==
  ASSUME PeriodInv, NEW t \in PeriodThreads, NEW p \in PeriodKeys, Unlock(t, p)
  PROVE  PeriodInv'
  <1>1. PeriodWrite(p, "open", FALSE, <<"unlock">>) /\ DoneWith(t, p) /\ p \in DOMAIN perCopy[t]
    BY DEF Unlock, Turn
  <1>2. "open" \in PeriodStates /\ <<"unlock">> \in Seq({"lock", "unlock"})
    BY DEF PeriodStates
  <1>3. diary[p] \in Seq({"lock", "unlock"})
    BY DEF PeriodInv, PeriodTypeOK
  <1>4. Told(p)'
    <2>1. period'[p] = "open" /\ closedAt'[p] = FALSE /\ diary'[p] = diary[p] \o <<"unlock">>
      BY <1>1, <1>2, WriteFacts DEF PeriodInv
    <2>2. QED
      BY <1>3, <2>1, LastLine DEF Told
  <1>5. QED
    BY <1>1, <1>2, <1>4, WriteInv

(* Here the copy must be true: the diary gets no line, so a period that is *)
(* closed would keep its "lock" as the last one.                           *)
LEMMA StartCloseInv ==
  ASSUME PeriodInv, NEW t \in PeriodThreads, NEW p \in PeriodKeys, StartClose(t, p)
  PROVE  PeriodInv'
  <1>1. /\ PeriodWrite(p, "in_progress", closedAt[p], <<>>) /\ DoneWith(t, p)
        /\ p \in DOMAIN perCopy[t] /\ perCopy[t][p] # "closed"
    BY DEF StartClose, Turn, Closable
  <1>2. "in_progress" \in PeriodStates /\ <<>> \in Seq({"lock", "unlock"})
    BY DEF PeriodStates
  <1>3. diary[p] \in Seq({"lock", "unlock"}) /\ closedAt[p] \in BOOLEAN
    BY DEF PeriodInv, PeriodTypeOK
  <1>4. ASSUME p \notin perRaced PROVE Told(p)'
    <2>1. period'[p] = "in_progress" /\ closedAt'[p] = closedAt[p] /\ diary'[p] = diary[p]
      <3>1. /\ period'[p] = "in_progress" /\ closedAt'[p] = closedAt[p]
            /\ diary'[p] = diary[p] \o <<>>
        BY ZenonT(60), <1>1, <1>2, <1>3, WriteFacts DEF PeriodInv
      <3>2. diary[p] \o <<>> = diary[p]
        BY <1>3, NothingWritten
      <3>3. QED
        BY <3>1, <3>2
    <2>2. period[p] # "closed" /\ Told(p)
      BY <1>1, <1>4 DEF PeriodInv, CopyInv, DiaryTellsTheState, Told
    <2>3. QED
      BY <2>1, <2>2 DEF Told
  <1>5. QED
    BY <1>1, <1>2, <1>3, <1>4, WriteInv

LEMMA SkipPeriodInv ==
  ASSUME PeriodInv, NEW t \in PeriodThreads, NEW p \in PeriodKeys, SkipPeriod(t, p)
  PROVE  PeriodInv'
  <1>1. DoneWith(t, p) /\ p \in DOMAIN perCopy[t] /\ UNCHANGED <<period, closedAt, diary>>
    BY DEF SkipPeriod
  <1>2. PeriodTypeOK'
    BY <1>1, DoneWithFacts DEF PeriodInv, PeriodTypeOK, Copies
  <1>3. CopyInv'
    BY <1>1, WriteCopyInv DEF PeriodInv
  <1>4. DiaryTellsTheState'
    BY <1>1 DEF DoneWith, PeriodInv, DiaryTellsTheState
  <1>5. QED
    BY <1>2, <1>3, <1>4 DEF PeriodInv

LEMMA PeriodsAbandonedInv ==
  ASSUME PeriodInv, NEW t \in PeriodThreads, PeriodsAbandoned(t)
  PROVE  PeriodInv'
  <1>1. <<>> \in Copies /\ DOMAIN <<>> = {}
    <2>1. <<>> \in [{} -> PeriodStates]
      OBVIOUS
    <2>2. QED
      BY <2>1 DEF Copies
  <1>2. perCopy \in [PeriodThreads -> Copies]
    BY DEF PeriodInv, PeriodTypeOK, Copies
  <1>3. /\ perCopy' \in [PeriodThreads -> Copies] /\ DOMAIN perCopy'[t] = {}
        /\ \A u \in PeriodThreads \ {t} : perCopy'[u] = perCopy[u]
    BY <1>1, <1>2 DEF PeriodsAbandoned
  <1>4. PeriodTypeOK'
    BY <1>3 DEF PeriodsAbandoned, PeriodInv, PeriodTypeOK, Copies
  <1>5. CopyInv'
    BY <1>3 DEF PeriodsAbandoned, PeriodInv, CopyInv
  <1>6. DiaryTellsTheState'
    BY DEF PeriodsAbandoned, PeriodInv, DiaryTellsTheState
  <1>7. QED
    BY <1>4, <1>5, <1>6 DEF PeriodInv

LEMMA PeriodInvHolds == PeriodSpec => []PeriodInv
  <1>1. PeriodInv /\ [PeriodNext]_perVars => PeriodInv'
    <2> SUFFICES ASSUME PeriodInv, [PeriodNext]_perVars PROVE PeriodInv'
      OBVIOUS
    <2>1. ASSUME UNCHANGED perVars PROVE PeriodInv'
      BY <2>1 DEF perVars, PeriodInv, PeriodTypeOK, CopyInv, DiaryTellsTheState
    <2>2. QED
      BY <2>1, SelectPeriodsInv, LockInv, UnlockInv, StartCloseInv, SkipPeriodInv,
         PeriodsAbandonedInv DEF PeriodNext
  <1>2. QED
    BY <1>1, InitPeriodInv, PTL DEF PeriodSpec

(* The rows of the periods, their diary and the copies the requests hold   *)
(* keep their types.                                                       *)
THEOREM PeriodTypeCorrect == PeriodSpec => []PeriodTypeOK
  <1>1. PeriodInv => PeriodTypeOK
    BY DEF PeriodInv
  <1>2. QED
    BY <1>1, PeriodInvHolds, PTL

(* The last line of the diary, and closed_at, tell whether a period is     *)
(* closed, unless two requests held it at once.                            *)
THEOREM PeriodDiaryTellsTheState == PeriodSpec => []DiaryTellsTheState
  <1>1. PeriodInv => DiaryTellsTheState
    BY DEF PeriodInv
  <1>2. QED
    BY <1>1, PeriodInvHolds, PTL

-----------------------------------------------------------------------------
(* FxRates. *)

(* A set of dates up to one that is not empty has a latest. *)
LEMMA LatestDate ==
  ASSUME NEW on \in Nat, NEW S \in SUBSET (1 .. on), S # {}
  PROVE  Max(S) \in S
  <1> DEFINE R == OpToRel(<, Nat)
             back == {on - d : d \in S}
  <1>1. back # {} /\ back \in SUBSET Nat
    <2>1. \A d \in S : d \in Int /\ d <= on
      OBVIOUS
    <2> HIDE DEF R
    <2>2. \A d \in S : on - d \in Nat
      BY <2>1
    <2>3. QED
      BY <2>2
  <1>2. IsWellFoundedOn(R, Nat)
    BY NatLessThanWellFounded
  <1> HIDE DEF R, back
  <1>3. PICK n \in back : \A m \in back : ~(<<m, n>> \in R)
    BY <1>1, <1>2, WFMin
  <1> USE DEF back
  <1>4. PICK d \in S : n = on - d
    BY <1>3
  <1>5. ASSUME NEW e \in S PROVE d >= e
    <2>1. on - e \in back /\ on - e \in Nat /\ on - d \in Nat
      BY <1>1
    <2>2. ~(on - e < on - d)
      BY <1>3, <1>4, <2>1 DEF R, OpToRel
    <2>3. QED
      BY <2>2
  <1>6. QED
    BY <1>5 DEF Max

(* get_rate: of every date, what a rate is depends on the fixings of its   *)
(* own pair up to that date alone, whatever is written into the table.     *)
THEOREM RatesDoNotLookAhead == FxSpec => NoLookAhead
  <1>1. ASSUME NEW p \in Pairs, NEW on \in Dates,
               \A d \in 1 .. on : fixing'[p][d] = fixing[p][d]
        PROVE  GetRate(fixing', p[1], p[2], on) = GetRate(fixing, p[1], p[2], on)
    <2> DEFINE S == Fixed(fixing, p, on)
    <2>1. on \in Nat /\ p = <<p[1], p[2]>> /\ p[1] # p[2]
      BY FxAssumption DEF Dates, Pairs
    <2>2. Fixed(fixing', p, on) = S /\ S \in SUBSET (1 .. on)
      BY <1>1 DEF Fixed
    <2>3. CASE S = {}
      BY <2>1, <2>2, <2>3 DEF GetRate
    <2>4. CASE S # {}
      <3>1. Max(S) \in 1 .. on
        BY <2>1, <2>2, <2>4, LatestDate
      <3>2. fixing'[p][Max(S)] = fixing[p][Max(S)]
        BY <1>1, <3>1
      <3> HIDE DEF S
      <3>3. GetRate(fixing', p[1], p[2], on) = fixing'[p][Max(S)]
        BY <2>1, <2>2, <2>4 DEF GetRate
      <3>4. GetRate(fixing, p[1], p[2], on) = fixing[p][Max(S)]
        BY <2>1, <2>4 DEF GetRate, S
      <3>5. QED
        BY <3>2, <3>3, <3>4
    <2>5. QED
      BY <2>3, <2>4
  <1>2. [\A p \in Pairs, on \in Dates :
            (\A d \in 1 .. on : fixing'[p][d] = fixing[p][d]) =>
                GetRate(fixing', p[1], p[2], on) = GetRate(fixing, p[1], p[2], on)]_fixing
    BY <1>1
  <1>3. QED
    BY <1>2, PTL DEF NoLookAhead

-----------------------------------------------------------------------------
(* Depreciation. *)

DepTypeOK ==
    /\ depPc \in [DepThreads -> {"idle", "loaded", "wiped", "generated", "drained", "covered"}]
    /\ depAct \in [DepThreads -> {"generate", "post", "edit"}]
    /\ copyAsset \in [DepThreads -> AssetRows]
    /\ asset \in AssetRows
    /\ depLine \in [DepLines -> {"absent", "planned", "posted"}]
    /\ disturbed \subseteq DepThreads

(* A request nothing ran beside is alone, its copy is true, and what it    *)
(* found of the lines still holds.                                         *)
AloneInv ==
    \A t \in InFlight \ disturbed :
        /\ InFlight = {t}
        /\ copyAsset[t] = asset
        /\ depPc[t] \in {"wiped", "generated"} =>
              depAct[t] = "generate" /\ \A d \in DepLines : depLine[d] # "planned"
        /\ depPc[t] = "generated" => ~ScheduleRaises(copyAsset[t])
        /\ depPc[t] \in {"drained", "covered"} => depAct[t] = "post" /\ DueUnposted = {}
        /\ depPc[t] = "covered" => Covered(copyAsset[t])

DepInv == DepTypeOK /\ AloneInv

LEMMA DepLeaveInv ==
  ASSUME DepInv, NEW t \in DepThreads, DepLeave(t), depPc[t] # "idle",
         asset' \in AssetRows,
         depLine' \in [DepLines -> {"absent", "planned", "posted"}]
  PROVE  DepInv'
  <1> USE DEF DepInv, DepLeave
  <1>1. DepTypeOK'
    BY DepAssumption DEF DepTypeOK
  <1>2. ASSUME NEW u \in InFlight' \ disturbed' PROVE FALSE
    BY DEF DepTypeOK, AloneInv, InFlight
  <1>3. QED
    BY <1>1, <1>2 DEF AloneInv

LEMMA DepStepInv ==
  ASSUME DepInv, NEW t \in DepThreads,
         \/ \E a \in {"generate", "post", "edit"} : DepLoad(t, a)
         \/ Wipe(t) \/ GenerateNothing(t) \/ NothingDue(t) \/ ReadBookValue(t)
  PROVE  DepInv'
  <1> USE DEF DepInv
  <1>1. ASSUME NEW a \in {"generate", "post", "edit"}, DepLoad(t, a) PROVE DepInv'
    <2>1. DepTypeOK'
      BY <1>1 DEF DepTypeOK, DepLoad, InFlight
    <2>2. ASSUME NEW u \in InFlight' \ disturbed' PROVE u = t /\ InFlight = {}
      BY <1>1, <2>2 DEF DepTypeOK, DepLoad, InFlight
    <2>3. InFlight = {} => InFlight' = {t}
      BY <1>1 DEF DepTypeOK, DepLoad, InFlight
    <2>4. QED
      BY <1>1, <2>1, <2>2, <2>3 DEF AloneInv, DepTypeOK, DepLoad
  <1>2. ASSUME DepGo(t, depPc[t], depPc'[t]), depPc[t] # "idle", depPc'[t] # "idle",
               UNCHANGED asset
        PROVE  InFlight' = InFlight /\ disturbed' = disturbed /\ copyAsset' = copyAsset
               /\ depAct' = depAct /\ \A u \in DepThreads \ {t} : depPc'[u] = depPc[u]
    BY <1>2 DEF DepGo, InFlight, DepTypeOK
  <1>3. CASE Wipe(t)
    <2>1. DepTypeOK'
      BY <1>3 DEF DepTypeOK, Wipe, DepGo
    <2>2. AloneInv'
      BY <1>3 DEF AloneInv, InFlight, DepTypeOK, Wipe, DepGo
    <2>3. QED
      BY <2>1, <2>2
  <1>4. CASE GenerateNothing(t)
    <2>1. DepTypeOK'
      BY <1>4 DEF DepTypeOK, GenerateNothing, DepGo
    <2>2. AloneInv'
      BY <1>4 DEF AloneInv, InFlight, DepTypeOK, GenerateNothing, DepGo
    <2>3. QED
      BY <2>1, <2>2
  <1>5. CASE NothingDue(t)
    <2>1. DepTypeOK'
      BY <1>5 DEF DepTypeOK, NothingDue, DepGo
    <2>2. AloneInv'
      BY <1>5 DEF AloneInv, InFlight, DepTypeOK, NothingDue, DepGo, DueUnposted
    <2>3. QED
      BY <2>1, <2>2
  <1>6. CASE ReadBookValue(t)
    <2>1. DepTypeOK'
      BY <1>6 DEF DepTypeOK, ReadBookValue, DepGo
    <2>2. AloneInv'
      BY <1>6 DEF AloneInv, InFlight, DepTypeOK, ReadBookValue, DepGo, DueUnposted, Covered,
                  BookValue, TotalPosted
    <2>3. QED
      BY <2>1, <2>2
  <1>7. QED
    BY <1>1, <1>3, <1>4, <1>5, <1>6

LEMMA DepEndInv ==
  ASSUME DepInv, NEW t \in DepThreads,
         \/ GenerateFails(t) \/ PutInUse(t) \/ PostFails(t) \/ StillDepreciating(t)
         \/ MarkFully(t) \/ DepDie(t)
         \/ \E row \in AssetForms, lines \in SUBSET DepLines : SaveAssetForm(t, row, lines)
  PROVE  DepInv'
  <1>1. DepLeave(t) /\ depPc[t] # "idle"
    BY DEF GenerateFails, PutInUse, PostFails, StillDepreciating, MarkFully, DepDie, SaveAssetForm
  <1>2. asset' \in AssetRows
    BY DepAssumption DEF GenerateFails, PutInUse, PostFails, StillDepreciating, MarkFully, DepDie,
          SaveAssetForm, DepInv, DepTypeOK, AssetRows
  <1>3. depLine' \in [DepLines -> {"absent", "planned", "posted"}]
    BY DEF GenerateFails, PutInUse, PostFails, StillDepreciating, MarkFully, DepDie,
           SaveAssetForm, DepInv, DepTypeOK
  <1>4. QED
    BY <1>1, <1>2, <1>3, DepLeaveInv

LEMMA LineFormInv ==
  ASSUME DepInv, NEW d \in DepLines, NEW s \in {"absent", "planned", "posted"}, LineForm(d, s)
  PROVE  DepInv'
  <1>1. DepTypeOK'
    BY DEF DepInv, DepTypeOK, LineForm, InFlight
  <1>2. InFlight' \ disturbed' = {}
    BY DEF LineForm, InFlight
  <1>3. QED
    BY <1>1, <1>2 DEF DepInv, AloneInv

(* post_depreciation: outside its form an asset is written off only when   *)
(* its posted lines cover it and nothing due is left, unless another       *)
(* request was on it at the time.                                          *)
THEOREM AssetFullyMeansCovered == DepSpec => FullyMeansCovered
  <1> DEFINE Earned == \A t \in DepThreads \ disturbed :
                          depAct[t] = "post" /\ Moves(t, "in_use", "fully_depreciated") =>
                              BookValue(asset) <= asset.salvage /\ DueUnposted = {}
  <1>1. DepInit => DepInv
    BY DepAssumption DEF DepInit, DepInv, DepTypeOK, AloneInv, InFlight
  <1>2. DepInv /\ [DepNext]_depVars => DepInv'
    <2>1. ASSUME DepInv, UNCHANGED depVars PROVE DepInv'
      BY <2>1 DEF depVars, DepInv, DepTypeOK, AloneInv, InFlight, DueUnposted, Covered,
                  BookValue, TotalPosted
    <2>2. QED
      BY <2>1, DepStepInv, DepEndInv, LineFormInv DEF DepNext
  <1>3. DepInv /\ [DepNext]_depVars => [Earned]_depVars
    <2> SUFFICES ASSUME DepInv, DepNext PROVE Earned
      OBVIOUS
    <2>1. ASSUME NEW t \in DepThreads \ disturbed, depPc'[t] # depPc[t], asset'.state # asset.state
          PROVE  \/ PutInUse(t) \/ MarkFully(t)
                 \/ depAct[t] = "edit"
      BY <2>1 DEF DepNext, DepLoad, Wipe, GenerateFails, GenerateNothing, PutInUse, PostFails,
                  NothingDue, ReadBookValue, StillDepreciating, MarkFully, DepDie, SaveAssetForm,
                  LineForm, DepGo, DepLeave, DepInv, DepTypeOK
    <2>2. ASSUME NEW t \in DepThreads \ disturbed, PutInUse(t)
          PROVE  depAct[t] = "generate"
      BY <2>2 DEF PutInUse, DepInv, AloneInv, InFlight
    <2>3. ASSUME NEW t \in DepThreads \ disturbed, MarkFully(t)
          PROVE  BookValue(asset) <= asset.salvage /\ DueUnposted = {}
      <3>1. t \in InFlight \ disturbed /\ depPc[t] = "covered"
        BY <2>3 DEF MarkFully, InFlight
      <3>2. QED
        BY <3>1 DEF DepInv, AloneInv, Covered
    <2>4. QED
      BY <2>1, <2>2, <2>3 DEF Moves
  <1>4. QED
    BY <1>1, <1>2, <1>3, PTL DEF DepSpec, FullyMeansCovered
=============================================================================
