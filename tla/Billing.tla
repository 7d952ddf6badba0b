------------------------------- MODULE Billing ------------------------------
(***************************************************************************)
(* CustomerInvoice and SupplierBill (accounting/models.py): two tables     *)
(* with the same life, draft, posted, paid or cancelled.  post() books a   *)
(* journal entry, record_payment() a second one on a bank journal; the     *)
(* admin posts and cancels in bulk and edits a document in its form.       *)
(*                                                                         *)
(* A request reads the document's row into a copy and tests the copy.      *)
(* post() and record_payment() are transactions: what they write appears   *)
(* at once, at the commit, or not at all; but they save the whole row from *)
(* the copy, which was read before the transaction began.  pc[t]:          *)
(*   "idle"     no request                                                 *)
(*   "loaded"   row copied, state check passed on the copy                 *)
(*   "priced"   post(): totals recomputed from the lines                   *)
(*   "built"    post(): number reserved under the journal's row lock,      *)
(*              entry lines written from a second reading of the lines     *)
(***************************************************************************)
EXTENDS Naturals

CONSTANTS Threads, NoThread,
          Invoices, Bills,      \* primary keys of the two tables
          NoDocument,
          Entries, NoEntry,     \* JournalEntry primary keys
          Totals,               \* net totals the lines and rates of a document can have
          Sequences             \* values of next_sequence that journals' forms save

Documents == Invoices \cup Bills
Journals == {"sale", "purchase"}
JournalOf(d) == IF d \in Invoices THEN "sale" ELSE "purchase"

ASSUME BillingAssumption == /\ Invoices \cap Bills = {}
                            /\ NoThread \notin Threads
                            /\ NoDocument \notin Documents
                            /\ NoEntry \notin Entries
                            /\ Totals \subseteq Nat \ {0}
                            /\ Sequences \subseteq Nat \ {0}

VARIABLES row,       \* document -> state, number, journal_entry, payment_entry, amount_total
          lines,     \* document -> total of its lines (0 when it has none)
          entry,     \* entry -> what it books: document, kind and amount
          sequence,  \* journal -> Journal.next_sequence
          lockedBy,  \* journal -> thread holding its row lock
          pc, act, cur, copy,   \* locals of each request
          raced,     \* documents two requests held at once (history)
          repriced,  \* documents edited after they were posted (history)
          rewound    \* journals whose form lowered next_sequence (history)

docVars == <<row, lines, entry>>
journalVars == <<sequence, lockedBy>>
localVars == <<pc, act, cur, copy>>
history == <<raced, repriced, rewound>>
vars == <<docVars, journalVars, localVars, history>>

States == {"draft", "posted", "paid", "cancelled"}
Rows == [state : States, number : Nat, journal_entry : Entries \cup {NoEntry},
         payment_entry : Entries \cup {NoEntry}, total : Totals \cup {0}]
NewRow == [state |-> "draft", number |-> 0, journal_entry |-> NoEntry,
           payment_entry |-> NoEntry, total |-> 0]

Bookings == [document : Documents \cup {NoDocument},
             kind : {"none", "post", "payment"}, amount : Totals \cup {0}]
Unbooked == [document |-> NoDocument, kind |-> "none", amount |-> 0]
Booking(d, k, n) == [document |-> d, kind |-> k, amount |-> n]

(* Documents start as drafts without lines; the form adds them. *)
Init == /\ row = [d \in Documents |-> NewRow]
        /\ lines = [d \in Documents |-> 0]
        /\ entry = [e \in Entries |-> Unbooked]
        /\ sequence = [j \in Journals |-> 1]
        /\ lockedBy = [j \in Journals |-> NoThread]
        /\ pc = [t \in Threads |-> "idle"]
        /\ act = [t \in Threads |-> "edit"]
        /\ cur = [t \in Threads |-> NoDocument]
        /\ copy = [t \in Threads |-> NewRow]
        /\ raced = {}
        /\ repriced = {}
        /\ rewound = {}

Held(d) == \E t \in Threads : cur[t] = d
Journal(t) == JournalOf(cur[t])

(* The request is over. *)
Done(t) == /\ pc' = [pc EXCEPT ![t] = "idle"]
           /\ act' = [act EXCEPT ![t] = "edit"]
           /\ cur' = [cur EXCEPT ![t] = NoDocument]
           /\ copy' = [copy EXCEPT ![t] = NewRow]

-----------------------------------------------------------------------------
PostableTwice(s) == s \in {"draft", "posted"}
Postable(s) == s = "draft"

Eligible(a, s) == CASE a = "post"   -> Postable(s)
                    [] a = "pay"    -> s = "posted"
                    [] a = "cancel" -> s = "draft"
                    [] a = "edit"   -> TRUE

(* The admin's queryset or get_object, and the state test of post(),       *)
(* record_payment() or cancel() on that copy; one that fails ends there.   *)
Load(t, d, a) == /\ pc[t] = "idle"
                 /\ Eligible(a, row[d].state)
                 /\ pc' = [pc EXCEPT ![t] = "loaded"]
                 /\ act' = [act EXCEPT ![t] = a]
                 /\ cur' = [cur EXCEPT ![t] = d]
                 /\ copy' = [copy EXCEPT ![t] = row[d]]
                 /\ raced' = IF Held(d) THEN raced \cup {d} ELSE raced
                 /\ UNCHANGED <<docVars, journalVars, repriced, rewound>>

(* recompute_amounts(save=False): a document needs lines and a total.      *)
Price(t) == /\ pc[t] = "loaded" /\ act[t] = "post"
            /\ lines[cur[t]] > 0
            /\ copy' = [copy EXCEPT ![t].total = lines[cur[t]]]
            /\ pc' = [pc EXCEPT ![t] = "priced"]
            /\ UNCHANGED <<docVars, journalVars, act, cur, history>>

UnlockedRead(j) == TRUE
Unlocked(j) == lockedBy[j] = NoThread

NumberOf(t) == IF copy[t].number = 0 THEN sequence[Journal(t)] ELSE copy[t].number

(* next_entry_name, inside post()'s transaction, which keeps the lock; the *)
(* entry's lines are written from a second reading of the document's, and  *)
(* balance only if that agrees with the totals.                            *)
Build(t) == /\ pc[t] = "priced"
            /\ Unlocked(Journal(t))
            /\ lines[cur[t]] = copy[t].total
            /\ lockedBy' = [lockedBy EXCEPT ![Journal(t)] = t]
            /\ copy' = [copy EXCEPT ![t].number = NumberOf(t)]
            /\ pc' = [pc EXCEPT ![t] = "built"]
            /\ UNCHANGED <<docVars, sequence, act, cur, history>>

(* One number for a document that had none, then one for its entry. *)
NumbersTaken(t) == IF copy[t].number = sequence[Journal(t)] THEN 2 ELSE 1

(* unique_invoice_number_per_tenant and its twin for bills, which every    *)
(* save of a whole row has to meet.                                        *)
NumberFree(t) == \A d \in Documents \ {cur[t]} :
                     JournalOf(d) = Journal(t) /\ row[d].number # 0 =>
                         row[d].number # copy[t].number

PostedRowUnlinked(t, e) == [copy[t] EXCEPT !.state = "posted"]
PostedRow(t, e) == [copy[t] EXCEPT !.state = "posted", !.journal_entry = e]

(* entry.post() and save() of the whole row; the transaction commits.      *)
CommitPost(t, e) ==
    /\ pc[t] = "built"
    /\ NumberFree(t)
    /\ entry[e] = Unbooked
    /\ entry' = [entry EXCEPT ![e] = Booking(cur[t], "post", copy[t].total)]
    /\ row' = [row EXCEPT ![cur[t]] = PostedRow(t, e)]
    /\ sequence' = [sequence EXCEPT ![Journal(t)] = @ + NumbersTaken(t)]
    /\ lockedBy' = [lockedBy EXCEPT ![Journal(t)] = NoThread]
    /\ Done(t)
    /\ UNCHANGED <<lines, history>>

PaidFromLines(t) == lines[cur[t]]
PaidAmount(t) == copy[t].total

PaidState == "paid"

(* record_payment(): the whole transaction, from the copy; an entry line   *)
(* cannot be zero.                                                         *)
CommitPayment(t, e) ==
    /\ pc[t] = "loaded" /\ act[t] = "pay"
    /\ PaidAmount(t) > 0 /\ NumberFree(t)
    /\ entry[e] = Unbooked
    /\ entry' = [entry EXCEPT ![e] = Booking(cur[t], "payment", PaidAmount(t))]
    /\ row' = [row EXCEPT ![cur[t]] = [copy[t] EXCEPT !.state = PaidState,
                                                      !.payment_entry = e]]
    /\ Done(t)
    /\ UNCHANGED <<lines, journalVars, history>>

(* cancel() saves the state alone. *)
SaveCancelled(t) == /\ pc[t] = "loaded" /\ act[t] = "cancel"
                    /\ row' = [row EXCEPT ![cur[t]].state = "cancelled"]
                    /\ Done(t)
                    /\ UNCHANGED <<lines, entry, journalVars, history>>

(* The change form, one transaction: save_model saves the whole copy, the  *)
(* state and the links it cannot edit included; save_related saves the     *)
(* lines and recomputes the totals.  It is offered in every state.         *)
SaveForm(t, n) == /\ pc[t] = "loaded" /\ act[t] = "edit"
                  /\ NumberFree(t)
                  /\ row' = [row EXCEPT ![cur[t]] = [copy[t] EXCEPT !.total = n]]
                  /\ lines' = [lines EXCEPT ![cur[t]] = n]
                  /\ repriced' = IF copy[t].state = "draft" THEN repriced
                                                            ELSE repriced \cup {cur[t]}
                  /\ Done(t)
                  /\ UNCHANGED <<entry, journalVars, raced, rewound>>

(* Something raises (no lines, no account, an entry that does not balance, *)
(* a journal without default account, a number that is taken) or the       *)
(* process dies: rolled back.                                              *)
Abort(t) == /\ pc[t] # "idle"
            /\ lockedBy' = IF pc[t] = "built"
                           THEN [lockedBy EXCEPT ![Journal(t)] = NoThread]
                           ELSE lockedBy
            /\ Done(t)
            /\ UNCHANGED <<docVars, sequence, history>>

(* The lines have a page of their own, which leaves the document's totals  *)
(* alone, in any state of the document.                                    *)
WriteLine(d, n) == /\ lines' = [lines EXCEPT ![d] = n]
                   /\ UNCHANGED <<row, entry, journalVars, localVars, history>>

(* The change form of a journal saves the whole row, with the sequence     *)
(* that the page showed when it was opened or that was typed into it; the  *)
(* UPDATE waits for the row lock.                                          *)
SaveJournalForm(j, n) ==
    /\ Unlocked(j)
    /\ sequence' = [sequence EXCEPT ![j] = n]
    /\ rewound' = IF n < sequence[j] THEN rewound \cup {j} ELSE rewound
    /\ UNCHANGED <<docVars, lockedBy, localVars, raced, repriced>>

Request(t) == \/ \E d \in Documents, a \in {"post", "pay", "cancel", "edit"} : Load(t, d, a)
              \/ Price(t) \/ Build(t)
              \/ \E e \in Entries : CommitPost(t, e) \/ CommitPayment(t, e)
              \/ SaveCancelled(t)
              \/ \E n \in Totals \cup {0} : SaveForm(t, n)
              \/ Abort(t)

Next == \/ \E t \in Threads : Request(t)
        \/ \E d \in Documents, n \in Totals \cup {0} : WriteLine(d, n)
        \/ \E j \in Journals, n \in Sequences : SaveJournalForm(j, n)

Spec == Init /\ [][Next]_vars

-----------------------------------------------------------------------------
(* Properties. *)

TypeOK == /\ row \in [Documents -> Rows]
          /\ lines \in [Documents -> Totals \cup {0}]
          /\ entry \in [Entries -> Bookings]
          /\ sequence \in [Journals -> Nat \ {0}]
          /\ lockedBy \in [Journals -> Threads \cup {NoThread}]
          /\ pc \in [Threads -> {"idle", "loaded", "priced", "built"}]
          /\ act \in [Threads -> {"post", "pay", "cancel", "edit"}]
          /\ cur \in [Threads -> Documents \cup {NoDocument}]
          /\ copy \in [Threads -> Rows]
          /\ raced \subseteq Documents
          /\ repriced \subseteq Documents
          /\ rewound \subseteq Journals

Booked(d) == {e \in Entries : entry[e].document = d /\ entry[e].kind = "post"}
Payments(d) == {e \in Entries : entry[e].document = d /\ entry[e].kind = "payment"}

(* A posted or paid document is linked to an entry that books it, a paid   *)
(* one also to an entry that pays it, although rows are saved whole from   *)
(* copies that other requests have outdated.                               *)
PostedIsBooked ==
    \A d \in Documents :
        /\ row[d].state \in {"posted", "paid"} => row[d].journal_entry \in Booked(d)
        /\ row[d].state = "paid" => row[d].payment_entry \in Payments(d)

(* What is paid is what was booked, so that the partner's account is       *)
(* settled, unless the document was edited in the form after its posting.  *)
SettledInFull ==
    \A d \in Documents \ repriced :
        row[d].state = "paid" =>
            entry[row[d].payment_entry].amount = entry[row[d].journal_entry].amount

(* The number a post has drawn is on no other document of its table, so    *)
(* that it never runs into unique_invoice_number_per_tenant or its twin    *)
(* for bills, whoever posts, edits or saves a stale copy at the same time; *)
(* unless the journal's form lowered the sequence.                         *)
FreshNumbers ==
    \A t \in Threads : pc[t] = "built" /\ Journal(t) \notin rewound => NumberFree(t)

(* A document no two requests held at once is booked once, paid once, and  *)
(* cancelled only as a draft, which leaves nothing of it in the ledger.    *)
Document == INSTANCE DocumentLifecycle
                WITH status <- [d \in Documents |-> row[d].state],
                     booked <- [d \in Documents |-> Booked(d)],
                     payments <- [d \in Documents |-> Payments(d)]
ImplementsDocumentLifecycle == Document!Spec
=============================================================================
