-------------------------- MODULE BankReconciliation ---------------------------
(***************************************************************************)
(* Bank statements and their reconciliation (accounting/models.py          *)
(* BankStatement, BankStatementLine, parse_bank_csv; the admin's forms for *)
(* both): lines come from a CSV file or from a form, match_to() links one  *)
(* to a journal entry line, unmatch() takes the link back, and             *)
(* update_state() derives the statement's state.                           *)
(*                                                                         *)
(* A request copies a line and its statement, tests the copies, and        *)
(* match_to() and unmatch() then run as one transaction (READ COMMITTED:   *)
(* a query sees the rows others have committed and its own).  bankPc[t]:   *)
(*   "idle"     no request                                                 *)
(*   "loaded"   line and statement copied                                  *)
(*   "checked"  match_to: tests passed, the line not written yet           *)
(*   "counted"  line written and lines counted, not committed              *)
(* An entry line is an editable row as well: its own admin page and its    *)
(* entry's write its account and its amount, the journal's page the        *)
(* account that counts as the bank's.  Amounts are in cents.               *)
(*                                                                         *)
(* Nothing under src/ calls match_to(), unmatch() or parse_bank_csv() but  *)
(* the tests: the requests are the callers these functions are written     *)
(* for.                                                                    *)
(***************************************************************************)
EXTENDS Integers, FiniteSets

CONSTANTS BankThreads,
          Statements,
          BankLines,       \* BankStatementLine primary keys
          NoLine,
          StatementOf,     \* line -> its statement
          EntryLines,      \* JournalEntryLine rows
          NoEntryLine,
          Accounts,
          BankAccount,     \* default account of the statements' journals, at first
          Booked,          \* entry line -> its account and debit - credit, at first
          EntryForms,      \* what the ledger's forms make of an entry line
          BankAmounts,     \* amounts written in bank files and forms
          FormLines        \* lines that forms add, edit or delete

EntryRows == [account : Accounts, amount : Int \ {0}]

ASSUME BankAssumption == /\ StatementOf \in [BankLines -> Statements]
                         /\ NoLine \notin BankLines
                         /\ NoEntryLine \notin EntryLines
                         /\ BankAccount \in Accounts
                         /\ EntryForms \subseteq EntryRows
                         /\ Booked \in [EntryLines -> EntryRows]
                         /\ BankAmounts \subseteq Int
                         /\ FormLines \subseteq BankLines

VARIABLES lineState,   \* line -> state ("absent" before INSERT, after DELETE)
          matchedTo,   \* line -> matched_entry_line
          amount,      \* line -> amount
          statement,   \* statement -> state
          entryRow,    \* entry line -> its account and debit - credit
          bankAccount, \* statement -> default account of its journal
          bankPc, bankLine, target,    \* locals of each request
          copyState, copyMatched, copyAmount, copyStatement, newState,
          seen,        \* the entry lines as the request read them
          written,     \* line -> the amount its file meant (history)
          ambiguous,   \* lines whose amount the parser misreads (history)
          contested,   \* entry lines two requests wanted at once (history)
          amended,     \* entry lines a ledger form changed, or whose bank account
                       \* changed, while matched or while a request ran (history)
          crowded,     \* statements two requests worked on at once (history)
          handEdited,  \* lines a form has written (history)
          reshaped     \* statements a form has changed lines of (history)

bankRows == <<lineState, matchedTo, amount, statement>>
ledgerRows == <<entryRow, bankAccount>>
bankLocals == <<bankPc, bankLine, target, copyState, copyMatched, copyAmount,
                copyStatement, newState, seen>>
bankHistory == <<written, ambiguous, contested, amended, crowded, handEdited, reshaped>>
bankVars == <<bankRows, ledgerRows, bankLocals, bankHistory>>

LineStates == {"unmatched", "matched", "posted"}
LinesOf(s) == {l \in BankLines : StatementOf[l] = s /\ lineState[l] # "absent"}
Abs(n) == IF n < 0 THEN -n ELSE n
Debit(m) == IF m > 0 THEN m ELSE 0
Credit(m) == IF m < 0 THEN -m ELSE 0

BankInit ==
    /\ lineState = [l \in BankLines |-> "absent"]
    /\ matchedTo = [l \in BankLines |-> NoEntryLine]
    /\ amount = [l \in BankLines |-> 0]
    /\ statement = [s \in Statements |-> "draft"]
    /\ entryRow = Booked
    /\ bankAccount = [s \in Statements |-> BankAccount]
    /\ bankPc = [t \in BankThreads |-> "idle"]
    /\ bankLine = [t \in BankThreads |-> NoLine]
    /\ target = [t \in BankThreads |-> NoEntryLine]
    /\ copyState = [t \in BankThreads |-> "unmatched"]
    /\ copyMatched = [t \in BankThreads |-> NoEntryLine]
    /\ copyAmount = [t \in BankThreads |-> 0]
    /\ copyStatement = [t \in BankThreads |-> "draft"]
    /\ newState = [t \in BankThreads |-> "draft"]
    /\ seen = [t \in BankThreads |-> Booked]
    /\ written = [l \in BankLines |-> 0]
    /\ ambiguous = {}
    /\ contested = {}
    /\ amended = {}
    /\ crowded = {}
    /\ handEdited = {}
    /\ reshaped = {}

-----------------------------------------------------------------------------
(* parse_bank_csv.  How a file may write an amount, and what the parser    *)
(* makes of it: a lone comma is read as the decimal point, commas beside a *)
(* point are dropped, a lone point is the decimal point.  What has more    *)
(* than one point left is no Decimal.                                      *)

Styles == {"plain",      \* 1234.56, or 1234
           "decimal",    \* 1234,56
           "grouped",    \* 1,234.56
           "commas",     \* 1,234: one thousands comma, no decimals
           "points",     \* 1.234: one thousands point, no decimals
           "european",   \* 1.234,56
           "bad"}        \* empty, no number, 1.234.567 or 1,234,567

Misread == {"commas", "points", "european"}

(* A separator of thousands is written from 1000.00 on. *)
CanBeWritten(st, n) == /\ st \in Misread => Abs(n) >= 100000
                       /\ st \in {"commas", "points"} => n % 100 = 0

(* Off by a thousand, and rounded to the cent by the column. *)
Parsed(st, n) == IF st \in Misread THEN (n + 500) \div 1000 ELSE n

Busy(s) == {t \in BankThreads : bankPc[t] # "idle" /\ StatementOf[bankLine[t]] = s}
Touched(s) == statement[s] # "draft" \/ Busy(s) # {}

(* A row whose date or amount cannot be parsed is reported and makes no    *)
(* line; the other rows are imported.                                      *)
ParseOk(st) == st # "bad"

ImportLine(l, st, n) ==
    /\ lineState[l] = "absent"
    /\ l \notin handEdited
    /\ ParseOk(st)
    /\ CanBeWritten(st, n)
    /\ lineState' = [lineState EXCEPT ![l] = "unmatched"]
    /\ amount' = [amount EXCEPT ![l] = Parsed(st, n)]
    /\ written' = [written EXCEPT ![l] = n]
    /\ ambiguous' = IF st \in Misread THEN ambiguous \cup {l} ELSE ambiguous
    /\ reshaped' = IF Touched(StatementOf[l]) THEN reshaped \cup {StatementOf[l]}
                                              ELSE reshaped
    /\ UNCHANGED <<matchedTo, statement, ledgerRows, bankLocals, contested, amended,
                   crowded, handEdited>>

-----------------------------------------------------------------------------
(* A request. *)

BankLoad(t, l) ==
    /\ bankPc[t] = "idle"
    /\ lineState[l] # "absent"
    /\ bankPc' = [bankPc EXCEPT ![t] = "loaded"]
    /\ bankLine' = [bankLine EXCEPT ![t] = l]
    /\ copyState' = [copyState EXCEPT ![t] = lineState[l]]
    /\ copyMatched' = [copyMatched EXCEPT ![t] = matchedTo[l]]
    /\ copyAmount' = [copyAmount EXCEPT ![t] = amount[l]]
    /\ copyStatement' = [copyStatement EXCEPT ![t] = statement[StatementOf[l]]]
    /\ crowded' = IF Busy(StatementOf[l]) # {}
                  THEN crowded \cup {StatementOf[l]} ELSE crowded
    /\ seen' = [seen EXCEPT ![t] = entryRow]
    /\ UNCHANGED <<bankRows, ledgerRows, target, newState, written, ambiguous, contested,
                   amended, handEdited, reshaped>>

BankDone(t) ==
    /\ bankPc' = [bankPc EXCEPT ![t] = "idle"]
    /\ bankLine' = [bankLine EXCEPT ![t] = NoLine]
    /\ target' = [target EXCEPT ![t] = NoEntryLine]
    /\ copyState' = [copyState EXCEPT ![t] = "unmatched"]
    /\ copyMatched' = [copyMatched EXCEPT ![t] = NoEntryLine]
    /\ copyAmount' = [copyAmount EXCEPT ![t] = 0]
    /\ copyStatement' = [copyStatement EXCEPT ![t] = "draft"]
    /\ newState' = [newState EXCEPT ![t] = "draft"]
    /\ seen' = [seen EXCEPT ![t] = Booked]

(* Same magnitude, on the side of the flow.  An amount of zero is neither  *)
(* an inflow nor an outflow and is compared with nothing.                  *)
SideAgrees(n, m) == /\ n > 0 => Debit(m) = n
                    /\ n < 0 => Credit(m) = Abs(n)

TakenUnchecked(l, e) == FALSE
Taken(l, e) == \E m \in BankLines \ {l} : lineState[m] # "absent" /\ matchedTo[m] = e

(* match_to(entry_line): its five tests.  The entry line is the object the *)
(* caller read; the bank account and the other matches are read now.       *)
MatchTests(t, e) ==
    LET l == bankLine[t] IN
    /\ bankPc[t] = "loaded"
    /\ copyState[t] = "unmatched"
    /\ seen[t][e].account = bankAccount[StatementOf[l]]
    /\ SideAgrees(copyAmount[t], seen[t][e].amount)
    /\ ~Taken(l, e)
    /\ bankPc' = [bankPc EXCEPT ![t] = "checked"]
    /\ target' = [target EXCEPT ![t] = e]
    /\ contested' = IF \E u \in BankThreads \ {t} : target[u] = e
                    THEN contested \cup {e} ELSE contested
    /\ UNCHANGED <<bankRows, ledgerRows, bankLine, copyState, copyMatched, copyAmount,
                   copyStatement, newState, seen, written, ambiguous, amended, crowded,
                   handEdited, reshaped>>

(* unmatch(): nothing to do on an unmatched copy, refused on a posted one. *)
UnmatchTests(t) ==
    /\ bankPc[t] = "loaded"
    /\ copyState[t] = "matched"
    /\ bankPc' = [bankPc EXCEPT ![t] = "checked"]
    /\ UNCHANGED <<bankRows, ledgerRows, bankLine, target, copyState, copyMatched,
                   copyAmount, copyStatement, newState, seen, bankHistory>>

(* A test fails: ValidationError, or unmatch() returns. *)
BankRefuse(t) == /\ bankPc[t] = "loaded"
                 /\ BankDone(t)
                 /\ UNCHANGED <<bankRows, ledgerRows, bankHistory>>

-----------------------------------------------------------------------------
(* self.save() and self.statement.update_state(). *)

StateOfAnyDone(total, done) == IF done = 0 THEN "draft" ELSE "reconciled"
StateOf(total, done) ==
    CASE total = 0 \/ done = 0 -> "draft"
      [] total > 0 /\ 0 < done /\ done < total -> "in_progress"
      [] OTHER -> "reconciled"

(* The save takes the line's row lock until the commit. *)
RowLocked(l) == \E u \in BankThreads : bankPc[u] = "counted" /\ bankLine[u] = l

WrittenState(t) == IF target[t] = NoEntryLine THEN "unmatched" ELSE "matched"

CountLines(t) ==
    LET s == StatementOf[bankLine[t]]
        others == LinesOf(s) \ {bankLine[t]}
        done == {l \in others : lineState[l] # "unmatched"}
    IN /\ bankPc[t] = "checked"
       /\ ~RowLocked(bankLine[t])
       /\ newState' = [newState EXCEPT ![t] =
              StateOf(Cardinality(others) + 1,
                      Cardinality(done) + IF WrittenState(t) = "matched" THEN 1 ELSE 0)]
       /\ bankPc' = [bankPc EXCEPT ![t] = "counted"]
       /\ UNCHANGED <<bankRows, ledgerRows, bankLine, target, copyState, copyMatched,
                      copyAmount, copyStatement, seen, bankHistory>>

(* update_state saves only when the count disagrees with its own copy of   *)
(* the statement; then the transaction commits.                            *)
SavedStatement(t) ==
    IF newState[t] # copyStatement[t]
    THEN [statement EXCEPT ![StatementOf[bankLine[t]]] = newState[t]]
    ELSE statement

BankCommit(t) ==
    /\ bankPc[t] = "counted"
    /\ lineState' = [lineState EXCEPT ![bankLine[t]] = WrittenState(t)]
    /\ matchedTo' = [matchedTo EXCEPT ![bankLine[t]] = target[t]]
    /\ amount' = [amount EXCEPT ![bankLine[t]] = copyAmount[t]]
    /\ statement' = SavedStatement(t)
    /\ BankDone(t)
    /\ UNCHANGED <<ledgerRows, bankHistory>>

(* An error or a death rolls the transaction back. *)
BankAbort(t) == /\ bankPc[t] # "idle"
                /\ BankDone(t)
                /\ UNCHANGED <<bankRows, ledgerRows, bankHistory>>

-----------------------------------------------------------------------------
(* The admin. *)

(* BankStatementAdmin: the form saves the statement whole, its read-only   *)
(* state included, and of its inline lines the amount; it adds and deletes *)
(* lines, and calls no update_state.                                       *)
SaveStatementForm(t, n) ==
    LET l == bankLine[t] IN
    /\ bankPc[t] = "loaded"
    /\ l \in FormLines
    /\ ~RowLocked(l)
    /\ statement' = [statement EXCEPT ![StatementOf[l]] = copyStatement[t]]
    /\ lineState' = [lineState EXCEPT ![l] = copyState[t]]
    /\ matchedTo' = [matchedTo EXCEPT ![l] = copyMatched[t]]
    /\ amount' = [amount EXCEPT ![l] = n]
    /\ handEdited' = handEdited \cup {l}
    /\ reshaped' = reshaped \cup {StatementOf[l]}
    /\ BankDone(t)
    /\ UNCHANGED <<ledgerRows, written, ambiguous, contested, amended, crowded>>

AddInForm(l, n) ==
    /\ l \in FormLines
    /\ lineState[l] = "absent"
    /\ l \notin handEdited
    /\ lineState' = [lineState EXCEPT ![l] = "unmatched"]
    /\ amount' = [amount EXCEPT ![l] = n]
    /\ handEdited' = handEdited \cup {l}
    /\ reshaped' = reshaped \cup {StatementOf[l]}
    /\ UNCHANGED <<matchedTo, statement, ledgerRows, bankLocals, written, ambiguous,
                   contested, amended, crowded>>

DeleteInForm(l) ==
    /\ l \in FormLines
    /\ lineState[l] # "absent"
    /\ ~RowLocked(l)
    /\ lineState' = [lineState EXCEPT ![l] = "absent"]
    /\ matchedTo' = [matchedTo EXCEPT ![l] = NoEntryLine]
    /\ handEdited' = handEdited \cup {l}
    /\ reshaped' = reshaped \cup {StatementOf[l]}
    /\ UNCHANGED <<amount, statement, ledgerRows, bankLocals, written, ambiguous, contested,
                   amended, crowded>>

(* BankStatementLineAdmin: every field is editable, state and link too. *)
SaveLineForm(t, s, e) ==
    LET l == bankLine[t] IN
    /\ bankPc[t] = "loaded"
    /\ l \in FormLines
    /\ ~RowLocked(l)
    /\ lineState' = [lineState EXCEPT ![l] = s]
    /\ matchedTo' = [matchedTo EXCEPT ![l] = e]
    /\ handEdited' = handEdited \cup {l}
    /\ reshaped' = reshaped \cup {StatementOf[l]}
    /\ BankDone(t)
    /\ UNCHANGED <<amount, statement, ledgerRows, written, ambiguous, contested, amended, crowded>>

(* JournalEntryLineAdmin and the inline of JournalEntryAdmin: an entry     *)
(* line's account and amounts are written whatever is matched to it.       *)
Attended(e) == \/ \E l \in BankLines : matchedTo[l] = e
               \/ \E t \in BankThreads : bankPc[t] # "idle"

SaveEntryLine(e, row) ==
    /\ entryRow' = [entryRow EXCEPT ![e] = row]
    /\ amended' = amended \cup {x \in {e} : Attended(x)}
    /\ UNCHANGED <<bankRows, bankAccount, bankLocals, written, ambiguous, contested,
                   crowded, handEdited, reshaped>>

(* The default_account of JournalAdmin, and the journal of a statement's   *)
(* form: another account is the bank's.                                    *)
SaveBankAccount(s, a) ==
    /\ bankAccount' = [bankAccount EXCEPT ![s] = a]
    /\ amended' = amended \cup {e \in EntryLines : Attended(e)}
    /\ UNCHANGED <<bankRows, entryRow, bankLocals, written, ambiguous, contested,
                   crowded, handEdited, reshaped>>

BankNext ==
    \/ \E e \in EntryLines, row \in EntryForms : SaveEntryLine(e, row)
    \/ \E s \in Statements, a \in Accounts : SaveBankAccount(s, a)
    \/ \E l \in BankLines : \/ \E st \in Styles, n \in BankAmounts : ImportLine(l, st, n)
                            \/ \E n \in BankAmounts : AddInForm(l, n)
                            \/ DeleteInForm(l)
    \/ \E t \in BankThreads :
          \/ \E l \in BankLines : BankLoad(t, l)
          \/ \E e \in EntryLines : MatchTests(t, e)
          \/ UnmatchTests(t)
          \/ BankRefuse(t)
          \/ CountLines(t)
          \/ BankCommit(t)
          \/ BankAbort(t)
          \/ \E n \in BankAmounts : SaveStatementForm(t, n)
          \/ \E s \in LineStates, e \in EntryLines \cup {NoEntryLine} : SaveLineForm(t, s, e)

BankSpec == BankInit /\ [][BankNext]_bankVars

-----------------------------------------------------------------------------
(* Properties. *)

(* match_to: "Entry line is already reconciled with another bank line."    *)
(* One ledger line explains two bank movements only if two requests wanted *)
(* it at the same time or a form wrote one of the two rows.                *)
MatchedOnceUnlessRaced ==
    \A l, m \in BankLines \ handEdited :
        l # m /\ matchedTo[l] = matchedTo[m] /\ matchedTo[l] # NoEntryLine =>
            matchedTo[l] \in contested

(* BankStatement: "State flips to reconciled once every line is matched".  *)
(* The state is what the lines say, unless two requests worked on the      *)
(* statement at once (each counts before the other commits), or a form or  *)
(* a late import changed the lines behind its back.                        *)
StateFollowsLines ==
    \A s \in Statements \ (crowded \cup reshaped) :
        Busy(s) = {} =>
            LET open == {l \in LinesOf(s) : lineState[l] = "unmatched"} IN
            /\ statement[s] = "reconciled" <=> LinesOf(s) # {} /\ open = {}
            /\ statement[s] = "draft" <=> open = LinesOf(s)

(* From the bank's file to the ledger: a matched line that no form has     *)
(* written is explained by an entry line on the bank account, for the      *)
(* amount and in the direction the file meant, unless the file separates   *)
(* thousands with a point, or with a lone comma, or the amount is zero,    *)
(* which is compared with nothing; and unless the ledger's own forms       *)
(* changed the entry line under the match, which nothing takes back.       *)
MatchedIsTheMovement ==
    \A l \in BankLines \ handEdited :
        LET e == matchedTo[l] IN
        e # NoEntryLine /\ e \notin amended =>
            /\ entryRow[e].account = bankAccount[StatementOf[l]]
            /\ l \notin ambiguous /\ written[l] # 0 => entryRow[e].amount = written[l]

(* Every match is a true one: of one movement, and of the right one.       *)
MatchesAreTrue == MatchedOnceUnlessRaced /\ MatchedIsTheMovement
=============================================================================
