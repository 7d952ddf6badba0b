--------------------------- MODULE BillingProofs ----------------------------
(***************************************************************************)
(* Theorems about Billing, for any number of threads, documents and        *)
(* journal entries.                                                        *)
(***************************************************************************)
EXTENDS Billing, TLAPS

Acts == {"post", "pay", "cancel", "edit"}

(* A request has a document, and the copy that let it in. *)
LocalInv ==
    \A t \in Threads :
        /\ pc[t] = "idle" <=> cur[t] = NoDocument
        /\ pc[t] \in {"priced", "built"} => act[t] = "post"
        /\ pc[t] # "idle" /\ act[t] = "post" => copy[t].state = "draft"
        /\ pc[t] # "idle" /\ act[t] = "pay" => copy[t].state = "posted"
        /\ pc[t] # "idle" /\ act[t] = "cancel" => copy[t].state = "draft"

(* A row, or a copy of it, whose links agree with its state. *)
Coherent(r, d) ==
    /\ r.state \in {"posted", "paid"} => r.journal_entry \in Booked(d)
    /\ r.state = "paid" => r.payment_entry \in Payments(d)

CoherentInv == /\ \A d \in Documents : Coherent(row[d], d)
               /\ \A t \in Threads : pc[t] # "idle" => Coherent(copy[t], cur[t])

BillingInv == TypeOK /\ LocalInv /\ CoherentInv

LEMMA InitBillingInv == Init => BillingInv
BY BillingAssumption
   DEF BillingAssumption, Init, BillingInv, TypeOK, LocalInv, CoherentInv, Coherent,
       Rows, NewRow, States, Bookings, Unbooked, Journals

(* A document that is held is a document, and its journal is a journal. *)
LEMMA Holder ==
    ASSUME TypeOK, LocalInv, NEW t \in Threads, pc[t] # "idle"
    PROVE  cur[t] \in Documents /\ Journal(t) \in Journals
BY BillingAssumption DEF BillingAssumption, TypeOK, LocalInv, Journal, JournalOf, Journals

(* A free entry books nothing; taking it adds it to one set.  *)
LEMMA NewPosting ==
    ASSUME TypeOK, NEW e \in Entries, entry[e] = Unbooked, NEW d \in Documents, NEW n,
           entry' = [entry EXCEPT ![e] = Booking(d, "post", n)]
    PROVE  /\ Booked(d)' = Booked(d) \cup {e}
           /\ \A f \in Documents \ {d} : Booked(f)' = Booked(f)
           /\ \A f \in Documents : Payments(f)' = Payments(f)
BY BillingAssumption
   DEF BillingAssumption, TypeOK, Booked, Payments, Booking, Unbooked, Bookings

LEMMA NewPayment ==
    ASSUME TypeOK, NEW e \in Entries, entry[e] = Unbooked, NEW d \in Documents, NEW n,
           entry' = [entry EXCEPT ![e] = Booking(d, "payment", n)]
    PROVE  /\ Payments(d)' = Payments(d) \cup {e}
           /\ \A f \in Documents \ {d} : Payments(f)' = Payments(f)
           /\ \A f \in Documents : Booked(f)' = Booked(f)
BY BillingAssumption
   DEF BillingAssumption, TypeOK, Booked, Payments, Booking, Unbooked, Bookings

-----------------------------------------------------------------------------
(* The inductive invariant, action by action. *)

LEMMA LoadInv ==
    ASSUME BillingInv, NEW t \in Threads, NEW d \in Documents, NEW a \in Acts,
           Load(t, d, a)
    PROVE  BillingInv'
<1> USE DEF BillingInv
<1>1. TypeOK'
  BY DEF TypeOK, Load, Acts, docVars, journalVars
<1>2. LocalInv'
  BY BillingAssumption
     DEF BillingAssumption, TypeOK, LocalInv, Load, Eligible, Postable, Acts
<1>3. CoherentInv'
  BY DEF TypeOK, CoherentInv, Coherent, Booked, Payments, Load, docVars
<1> QED BY <1>1, <1>2, <1>3

LEMMA PriceInv ==
    ASSUME BillingInv, NEW t \in Threads, Price(t)
    PROVE  BillingInv'
<1> USE DEF BillingInv
<1>0. cur[t] \in Documents
  BY Holder DEF Price
<1>1. [copy[t] EXCEPT !.total = lines[cur[t]]] \in Rows
  BY SMTT(30), <1>0 DEF TypeOK, Rows
<1>2. TypeOK'
  BY <1>1 DEF TypeOK, Price, docVars, journalVars, history
<1>3. LocalInv'
  BY DEF TypeOK, LocalInv, Price, Rows
<1>4. CoherentInv'
  BY DEF TypeOK, CoherentInv, Coherent, Booked, Payments, Price, docVars, Rows
<1> QED BY <1>2, <1>3, <1>4

LEMMA BuildInv ==
    ASSUME BillingInv, NEW t \in Threads, Build(t)
    PROVE  BillingInv'
<1> USE DEF BillingInv
<1>0. cur[t] \in Documents /\ Journal(t) \in Journals
  BY Holder DEF Build
<1>1. NumberOf(t) \in Nat
  BY <1>0 DEF TypeOK, NumberOf, Rows
<1>2. [copy[t] EXCEPT !.number = NumberOf(t)] \in Rows
  BY ZenonT(60), <1>1 DEF TypeOK, Rows
<1>3. TypeOK'
  BY <1>0, <1>2 DEF TypeOK, Build, docVars, history
<1>4. LocalInv'
  BY DEF TypeOK, LocalInv, Build, Rows
<1>5. CoherentInv'
  BY DEF TypeOK, CoherentInv, Coherent, Booked, Payments, Build, docVars, Rows
<1> QED BY <1>3, <1>4, <1>5

(* A row saved by the thread that is then done. *)
LEMMA SaveInv ==
    ASSUME BillingInv, NEW t \in Threads, pc[t] # "idle", Done(t),
           NEW c \in Documents, c = cur[t],
           NEW r, row' = [row EXCEPT ![c] = r],
           \A d \in Documents : Booked(d) \subseteq Booked(d)' /\ Payments(d) \subseteq Payments(d)',
           r.state \in {"posted", "paid"} => r.journal_entry \in Booked(c)',
           r.state = "paid" => r.payment_entry \in Payments(c)'
    PROVE  LocalInv' /\ CoherentInv'
<1> USE DEF BillingInv
<1>1. LocalInv'
  BY BillingAssumption DEF BillingAssumption, TypeOK, LocalInv, Done
<1>2. ASSUME NEW d \in Documents
      PROVE  Coherent(row[d], d)'
  <2>1. CASE d = c
    BY <2>1 DEF TypeOK, Coherent
  <2>2. CASE d # c
    <3>1. row'[d] = row[d] /\ Coherent(row[d], d)
      BY <2>2 DEF TypeOK, CoherentInv
    <3> QED BY <3>1 DEF Coherent
  <2> QED BY <2>1, <2>2
<1>3. ASSUME NEW u \in Threads, pc'[u] # "idle"
      PROVE  Coherent(copy[u], cur[u])'
  <2>1. u # t /\ pc[u] # "idle" /\ copy'[u] = copy[u] /\ cur'[u] = cur[u]
    BY <1>3 DEF TypeOK, Done
  <2>2. cur[u] \in Documents
    BY <2>1, Holder
  <2>3. PICK f \in Documents : f = cur[u]
    BY <2>2
  <2>4. Coherent(copy[u], f)
    BY <2>1, <2>3 DEF CoherentInv
  <2> QED BY <2>1, <2>3, <2>4 DEF Coherent
<1> QED BY <1>1, <1>2, <1>3 DEF CoherentInv

(* The locals of a request that is over. *)
LEMMA DoneTyped ==
    ASSUME TypeOK, NEW t \in Threads, Done(t)
    PROVE  /\ pc' \in [Threads -> {"idle", "loaded", "priced", "built"}]
           /\ act' \in [Threads -> {"post", "pay", "cancel", "edit"}]
           /\ cur' \in [Threads -> Documents \cup {NoDocument}]
           /\ copy' \in [Threads -> Rows]
BY DEF TypeOK, Done, Rows, NewRow, States

LEMMA CommitPostInv ==
    ASSUME BillingInv, NEW t \in Threads, NEW e \in Entries, CommitPost(t, e)
    PROVE  BillingInv'
<1> USE DEF BillingInv
<1>a. pc[t] # "idle" /\ Journal(t) \in Journals /\ cur[t] \in Documents
  BY Holder DEF CommitPost
<1>0. PICK c \in Documents : c = cur[t]
  BY <1>a
<1> DEFINE r == PostedRow(t, e)
<1>1. /\ Booked(c)' = Booked(c) \cup {e}
      /\ \A f \in Documents \ {c} : Booked(f)' = Booked(f)
      /\ \A f \in Documents : Payments(f)' = Payments(f)
  BY <1>a, <1>0, NewPosting DEF CommitPost
<1>2. r \in Rows /\ r.state = "posted" /\ r.journal_entry = e
  BY DEF TypeOK, PostedRow, Rows, States
<1>3. TypeOK'
  <2>1. copy[t].total \in Totals \cup {0}
    BY DEF TypeOK, Rows
  <2>2. Booking(c, "post", copy[t].total) \in Bookings
    BY <1>a, <1>0, <2>1 DEF Booking, Bookings
  <2>3. NumbersTaken(t) \in {1, 2}
    BY DEF NumbersTaken
  <2>4. sequence' \in [Journals -> Nat \ {0}]
    BY <1>a, <1>0, <2>3 DEF TypeOK, CommitPost
  <2> QED BY <1>a, <1>0, <1>2, <2>2, <2>4, DoneTyped DEF TypeOK, CommitPost, history
<1>4. LocalInv' /\ CoherentInv'
  BY <1>a, <1>0, <1>1, <1>2, SaveInv DEF CommitPost
<1> QED BY <1>3, <1>4

LEMMA CommitPaymentInv ==
    ASSUME BillingInv, NEW t \in Threads, NEW e \in Entries, CommitPayment(t, e)
    PROVE  BillingInv'
<1> USE DEF BillingInv
<1>a. pc[t] # "idle" /\ cur[t] \in Documents
  BY Holder DEF CommitPayment
<1>0. PICK c \in Documents : c = cur[t]
  BY <1>a
<1> DEFINE r == [copy[t] EXCEPT !.state = "paid", !.payment_entry = e]
<1>1. /\ Payments(c)' = Payments(c) \cup {e}
      /\ \A f \in Documents \ {c} : Payments(f)' = Payments(f)
      /\ \A f \in Documents : Booked(f)' = Booked(f)
  BY <1>a, <1>0, NewPayment DEF CommitPayment
<1>2. /\ r \in Rows /\ r.payment_entry = e
      /\ r.journal_entry = copy[t].journal_entry
  BY DEF TypeOK, Rows, States
<1>3. r.journal_entry \in Booked(c)
  BY <1>a, <1>0, <1>2 DEF LocalInv, CoherentInv, Coherent, CommitPayment
<1>4. TypeOK'
  <2>1. copy[t].total \in Totals \cup {0}
    BY DEF TypeOK, Rows
  <2>2. Booking(c, "payment", copy[t].total) \in Bookings
    BY <1>a, <1>0, <2>1 DEF Booking, Bookings
  <2> QED BY <1>a, <1>0, <1>2, <2>2, DoneTyped
          DEF TypeOK, CommitPayment, PaidState, PaidAmount, journalVars, history
<1>5. LocalInv' /\ CoherentInv'
  BY <1>a, <1>0, <1>1, <1>2, <1>3, SaveInv DEF CommitPayment, PaidState
<1> QED BY <1>4, <1>5

LEMMA SaveCancelledInv ==
    ASSUME BillingInv, NEW t \in Threads, SaveCancelled(t)
    PROVE  BillingInv'
<1> USE DEF BillingInv
<1>a. pc[t] # "idle" /\ cur[t] \in Documents
  BY Holder DEF SaveCancelled
<1>0. PICK c \in Documents : c = cur[t]
  BY <1>a
<1> DEFINE r == [row[c] EXCEPT !.state = "cancelled"]
<1>b. row[c] \in Rows
  BY DEF TypeOK
<1>1. r \in Rows /\ r.state = "cancelled"
  BY <1>b DEF Rows, States
<1>2. row' = [row EXCEPT ![c] = r]
  BY <1>a, <1>0 DEF SaveCancelled, TypeOK
<1>3. TypeOK'
  BY <1>a, <1>0, <1>1, <1>2, DoneTyped DEF TypeOK, SaveCancelled, journalVars, history
<1>4. \A d \in Documents : Booked(d)' = Booked(d) /\ Payments(d)' = Payments(d)
  BY DEF SaveCancelled, Booked, Payments
<1>5. LocalInv' /\ CoherentInv'
  BY <1>a, <1>0, <1>1, <1>2, <1>4, SaveInv DEF SaveCancelled
<1> QED BY <1>3, <1>5

LEMMA SaveFormInv ==
    ASSUME BillingInv, NEW t \in Threads, NEW n \in Totals \cup {0}, SaveForm(t, n)
    PROVE  BillingInv'
<1> USE DEF BillingInv
<1>a. pc[t] # "idle" /\ cur[t] \in Documents
  BY Holder DEF SaveForm
<1>0. PICK c \in Documents : c = cur[t]
  BY <1>a
<1> DEFINE r == [copy[t] EXCEPT !.total = n]
<1>1. /\ r \in Rows
      /\ r.state = copy[t].state
      /\ r.journal_entry = copy[t].journal_entry
      /\ r.payment_entry = copy[t].payment_entry
  BY DEF TypeOK, Rows
<1>2. Coherent(copy[t], c)
  BY <1>a, <1>0 DEF CoherentInv
<1>3. TypeOK'
  BY <1>a, <1>0, <1>1, DoneTyped DEF TypeOK, SaveForm, journalVars
<1>4. \A d \in Documents : Booked(d)' = Booked(d) /\ Payments(d)' = Payments(d)
  BY DEF SaveForm, Booked, Payments
<1>5. /\ r.state \in {"posted", "paid"} => r.journal_entry \in Booked(c)
      /\ r.state = "paid" => r.payment_entry \in Payments(c)
  BY <1>1, <1>2 DEF Coherent
<1>6. LocalInv' /\ CoherentInv'
  BY <1>a, <1>0, <1>4, <1>5, SaveInv DEF SaveForm
<1> QED BY <1>3, <1>6

LEMMA AbortInv ==
    ASSUME BillingInv, NEW t \in Threads, Abort(t)
    PROVE  BillingInv'
<1> USE DEF BillingInv
<1>0. cur[t] \in Documents /\ Journal(t) \in Journals
  BY Holder DEF Abort
<1>1. TypeOK'
  BY <1>0, DoneTyped DEF TypeOK, Abort, docVars, history
<1>2. LocalInv'
  BY BillingAssumption DEF BillingAssumption, TypeOK, LocalInv, Abort, Done
<1>3. CoherentInv'
  BY DEF TypeOK, CoherentInv, Coherent, Booked, Payments, Abort, Done, docVars
<1> QED BY <1>1, <1>2, <1>3

LEMMA PagesInv ==
    ASSUME BillingInv,
           \/ \E d \in Documents, n \in Totals \cup {0} : WriteLine(d, n)
           \/ \E j \in Journals, n \in Sequences : SaveJournalForm(j, n)
    PROVE  BillingInv'
<1> USE DEF BillingInv
<1>1. TypeOK'
  BY BillingAssumption
     DEF BillingAssumption, TypeOK, WriteLine, SaveJournalForm, docVars, journalVars,
         localVars, history
<1>2. UNCHANGED <<row, entry, localVars>>
  BY DEF WriteLine, SaveJournalForm, docVars
<1>3. LocalInv' /\ CoherentInv'
  BY <1>2 DEF localVars, LocalInv, CoherentInv, Coherent, Booked, Payments
<1> QED BY <1>1, <1>3

LEMMA NextBillingInv == BillingInv /\ [Next]_vars => BillingInv'
<1> SUFFICES ASSUME BillingInv, [Next]_vars
             PROVE  BillingInv'
  OBVIOUS
<1>1. CASE Next
  BY <1>1, LoadInv, PriceInv, BuildInv, CommitPostInv, CommitPaymentInv,
     SaveCancelledInv, SaveFormInv, AbortInv, PagesInv
     DEF Next, Request, Acts
<1>2. CASE UNCHANGED vars
  BY <1>2 DEF vars, docVars, journalVars, localVars, history, BillingInv, TypeOK,
              LocalInv, CoherentInv, Coherent, Booked, Payments
<1> QED BY <1>1, <1>2

(* The strengthening of the type invariant that the other theorems use.    *)
THEOREM BillingInvariant == Spec => []BillingInv
<1> QED BY InitBillingInv, NextBillingInv, PTL DEF Spec

(* Documents, copies, entries and journals keep their types (accounting/   *)
(* models.py, CustomerInvoice and SupplierBill).                           *)
THEOREM BillingTypeCorrect == Spec => []TypeOK
<1>1. BillingInv => TypeOK
  BY DEF BillingInv
<1> QED BY <1>1, BillingInvariant, PTL

(* A posted document has the entry that books it, a paid one the entry     *)
(* that pays it, whatever stale copies were saved over it.                 *)
THEOREM BillingPostedIsBooked == Spec => []PostedIsBooked
<1>1. BillingInv => PostedIsBooked
  BY DEF BillingInv, CoherentInv, Coherent, PostedIsBooked
<1> QED BY <1>1, BillingInvariant, PTL

-----------------------------------------------------------------------------
(* Amounts: a row or a copy is worth what was booked for it. *)

Settled(r, d) ==
    d \notin repriced =>
        /\ r.state \in {"posted", "paid"} => entry[r.journal_entry].amount = r.total
        /\ r.state = "paid" => entry[r.payment_entry].amount = r.total

SettledInv == /\ \A d \in Documents : Settled(row[d], d)
              /\ \A t \in Threads : pc[t] # "idle" => Settled(copy[t], cur[t])

LEMMA InitSettledInv == Init => SettledInv
BY DEF Init, SettledInv, Settled, NewRow

(* Rows and copies the step does not touch: their entries are not free, so *)
(* taking a free one changes none of their amounts.                        *)
LEMMA AmountsStay ==
    ASSUME BillingInv, NEW e \in Entries, entry[e] = Unbooked, NEW b,
           entry' = [entry EXCEPT ![e] = b],
           NEW d \in Documents, NEW r \in Rows, Coherent(r, d)
    PROVE  /\ r.state \in {"posted", "paid"} =>
                  entry'[r.journal_entry] = entry[r.journal_entry]
           /\ r.state = "paid" => entry'[r.payment_entry] = entry[r.payment_entry]
BY DEF BillingInv, TypeOK, Coherent, Booked, Payments, Unbooked

LEMMA SettledStep == BillingInv /\ SettledInv /\ [Next]_vars => SettledInv'
<1> SUFFICES ASSUME BillingInv, SettledInv, [Next]_vars
             PROVE  SettledInv'
  OBVIOUS
<1> USE DEF BillingInv
<1>1. ASSUME NEW t \in Threads, NEW d \in Documents, NEW a \in Acts, Load(t, d, a)
      PROVE  SettledInv'
  BY <1>1 DEF TypeOK, SettledInv, Settled, Load, docVars
<1>2. ASSUME NEW t \in Threads, Price(t)
      PROVE  SettledInv'
  <2>1. copy[t].state = "draft" /\ pc[t] # "idle"
    BY <1>2 DEF Price, LocalInv
  <2>2. copy'[t].state = "draft"
    BY <1>2, <2>1 DEF Price, TypeOK, Rows
  <2> QED BY <1>2, <2>1, <2>2 DEF TypeOK, SettledInv, Settled, Price, docVars, history
<1>3. ASSUME NEW t \in Threads, Build(t)
      PROVE  SettledInv'
  <2>1. copy[t].state = "draft" /\ pc[t] # "idle"
    BY <1>3 DEF Build, LocalInv
  <2>2. copy'[t].state = "draft"
    BY <1>3, <2>1 DEF Build, TypeOK, Rows
  <2> QED BY <1>3, <2>1, <2>2 DEF TypeOK, SettledInv, Settled, Build, docVars, history
<1>4. ASSUME NEW t \in Threads, NEW e \in Entries, CommitPost(t, e)
      PROVE  SettledInv'
  <2> DEFINE b == Booking(cur[t], "post", copy[t].total)
  <2>1. PICK c \in Documents : c = cur[t]
    BY <1>4, Holder DEF CommitPost
  <2>2. /\ entry[e] = Unbooked /\ entry' = [entry EXCEPT ![e] = b]
        /\ repriced' = repriced
    BY <1>4 DEF CommitPost, history
  <2>3. /\ row'[c].state = "posted" /\ row'[c].journal_entry = e
        /\ row'[c].total = copy[t].total
    BY <1>4, <2>1 DEF CommitPost, PostedRow, TypeOK, Rows
  <2>4. Settled(row[c], c)'
    BY <2>2, <2>3 DEF Settled, Booking, TypeOK
  <2>5. ASSUME NEW d \in Documents, d # c
        PROVE  Settled(row[d], d)'
    <3>1. row'[d] = row[d] /\ row[d] \in Rows /\ Coherent(row[d], d) /\ Settled(row[d], d)
      BY <1>4, <2>1, <2>5 DEF CommitPost, TypeOK, CoherentInv, SettledInv
    <3> QED BY <3>1, <2>2, AmountsStay DEF Settled
  <2>6. ASSUME NEW u \in Threads, pc'[u] # "idle"
        PROVE  Settled(copy[u], cur[u])'
    <3>1. u # t /\ pc[u] # "idle" /\ copy'[u] = copy[u] /\ cur'[u] = cur[u]
      BY <1>4, <2>6 DEF CommitPost, TypeOK, Done
    <3>2. PICK f \in Documents : f = cur[u]
      BY <3>1, Holder
    <3>3. copy[u] \in Rows /\ Coherent(copy[u], f) /\ Settled(copy[u], f)
      BY <3>1, <3>2 DEF TypeOK, CoherentInv, SettledInv
    <3> QED BY <3>1, <3>2, <3>3, <2>2, AmountsStay DEF Settled
  <2> QED BY <2>4, <2>5, <2>6 DEF SettledInv
<1>5. ASSUME NEW t \in Threads, NEW e \in Entries, CommitPayment(t, e)
      PROVE  SettledInv'
  <2> DEFINE b == Booking(cur[t], "payment", copy[t].total)
  <2>1. PICK c \in Documents : c = cur[t]
    BY <1>5, Holder DEF CommitPayment
  <2>2. /\ entry[e] = Unbooked /\ entry' = [entry EXCEPT ![e] = b]
        /\ repriced' = repriced
    BY <1>5 DEF CommitPayment, PaidAmount, history
  <2>3. /\ copy[t].state = "posted" /\ pc[t] # "idle" /\ copy[t] \in Rows
        /\ Coherent(copy[t], c) /\ Settled(copy[t], c)
    BY <1>5, <2>1 DEF CommitPayment, LocalInv, TypeOK, CoherentInv, SettledInv
  <2>4. /\ row'[c].payment_entry = e
        /\ row'[c].journal_entry = copy[t].journal_entry
        /\ row'[c].total = copy[t].total
    BY <1>5, <2>1 DEF CommitPayment, TypeOK, Rows
  <2>5. entry'[copy[t].journal_entry] = entry[copy[t].journal_entry]
    BY <2>2, <2>3, AmountsStay
  <2>6. Settled(row[c], c)'
    BY <2>2, <2>3, <2>4, <2>5 DEF Settled, Booking, TypeOK
  <2>7. ASSUME NEW d \in Documents, d # c
        PROVE  Settled(row[d], d)'
    <3>1. row'[d] = row[d] /\ row[d] \in Rows /\ Coherent(row[d], d) /\ Settled(row[d], d)
      BY <1>5, <2>1, <2>7 DEF CommitPayment, TypeOK, CoherentInv, SettledInv
    <3> QED BY <3>1, <2>2, AmountsStay DEF Settled
  <2>8. ASSUME NEW u \in Threads, pc'[u] # "idle"
        PROVE  Settled(copy[u], cur[u])'
    <3>1. u # t /\ pc[u] # "idle" /\ copy'[u] = copy[u] /\ cur'[u] = cur[u]
      BY <1>5, <2>8 DEF CommitPayment, TypeOK, Done
    <3>2. PICK f \in Documents : f = cur[u]
      BY <3>1, Holder
    <3>3. copy[u] \in Rows /\ Coherent(copy[u], f) /\ Settled(copy[u], f)
      BY <3>1, <3>2 DEF TypeOK, CoherentInv, SettledInv
    <3> QED BY <3>1, <3>2, <3>3, <2>2, AmountsStay DEF Settled
  <2> QED BY <2>6, <2>7, <2>8 DEF SettledInv
<1>6. ASSUME NEW t \in Threads, SaveCancelled(t)
      PROVE  SettledInv'
  <2>1. PICK c \in Documents : c = cur[t]
    BY <1>6, Holder DEF SaveCancelled
  <2>2. row[c] \in Rows
    BY DEF TypeOK
  <2>3. row'[c].state = "cancelled"
    BY <1>6, <2>1, <2>2 DEF SaveCancelled, TypeOK, Rows
  <2> QED BY <1>6, <2>1, <2>3 DEF SaveCancelled, Done, TypeOK, SettledInv, Settled, history
<1>7. ASSUME NEW t \in Threads, NEW n \in Totals \cup {0}, SaveForm(t, n)
      PROVE  SettledInv'
  <2>1. PICK c \in Documents : c = cur[t]
    BY <1>7, Holder DEF SaveForm
  <2>2. row'[c].state = copy[t].state
    BY <1>7, <2>1 DEF SaveForm, TypeOK, Rows
  <2>3. copy[t].state # "draft" => c \in repriced'
    BY <1>7, <2>1 DEF SaveForm
  <2> QED BY <1>7, <2>1, <2>2, <2>3 DEF SaveForm, Done, TypeOK, SettledInv, Settled
<1>8. ASSUME NEW t \in Threads, Abort(t)
      PROVE  SettledInv'
  BY <1>8 DEF Abort, Done, TypeOK, SettledInv, Settled, docVars, history
<1>9. ASSUME UNCHANGED <<row, entry, localVars, repriced>>
      PROVE  SettledInv'
  BY <1>9 DEF localVars, SettledInv, Settled
<1>10. ASSUME NEW d \in Documents, NEW n \in Totals \cup {0}, WriteLine(d, n)
       PROVE  SettledInv'
  BY <1>9, <1>10 DEF WriteLine, history
<1>11. ASSUME NEW j \in Journals, NEW n \in Sequences, SaveJournalForm(j, n)
       PROVE  SettledInv'
  BY <1>9, <1>11 DEF SaveJournalForm, docVars
<1>12. CASE UNCHANGED vars
  BY <1>9, <1>12 DEF vars, docVars, history
<1> QED BY <1>1, <1>2, <1>3, <1>4, <1>5, <1>6, <1>7, <1>8, <1>10, <1>11, <1>12
        DEF Next, Request, Acts

(* What is paid is what was booked, unless the form changed the document   *)
(* after its posting: record_payment pays the totals of its copy, and      *)
(* post() books the totals it saves.                                       *)
THEOREM BillingSettledInFull == Spec => []SettledInFull
<1>1. BillingInv /\ SettledInv => SettledInFull
  BY DEF BillingInv, TypeOK, SettledInv, Settled, SettledInFull
<1> QED BY <1>1, BillingInvariant, InitSettledInv, SettledStep, PTL DEF Spec

-----------------------------------------------------------------------------
(* Numbers: a number of the sequence belongs to one document of its table, *)
(* carried by its row and by copies of it; only the holder of the          *)
(* journal's lock may already carry the next one.  This holds of a journal *)
(* whose form never lowered the sequence.                                  *)

Carries(d, n) == \/ row[d].number = n
                 \/ \E t \in Threads : cur[t] = d /\ copy[t].number = n

LockInv == \A t \in Threads : pc[t] = "built" => lockedBy[Journal(t)] = t

BoundInv == /\ \A d \in Documents : JournalOf(d) \notin rewound =>
                   row[d].number < sequence[JournalOf(d)]
            /\ \A t \in Threads : pc[t] # "idle" /\ Journal(t) \notin rewound =>
                   \/ copy[t].number < sequence[Journal(t)]
                   \/ pc[t] = "built" /\ copy[t].number = sequence[Journal(t)]

OwnInv == \A d, f \in Documents : \A n \in Nat \ {0} :
              /\ d # f /\ JournalOf(d) = JournalOf(f) /\ JournalOf(d) \notin rewound
              /\ Carries(d, n)
              => ~Carries(f, n)

NumberInv == LockInv /\ BoundInv /\ OwnInv

LEMMA InitNumberInv == Init => NumberInv
BY DEF Init, NumberInv, LockInv, BoundInv, OwnInv, Carries, NewRow, JournalOf, Journals

LEMMA JournalIsOne ==
    ASSUME NEW d \in Documents
    PROVE  JournalOf(d) \in Journals
BY DEF JournalOf, Journals

(* Only Build brings a number into a document's hands. *)
LEMMA NoNewCarrier ==
    ASSUME BillingInv, OwnInv,
           \A d \in Documents, n \in Nat \ {0} : Carries(d, n)' => Carries(d, n),
           rewound \subseteq rewound'
    PROVE  OwnInv'
BY DEF OwnInv, JournalOf

LEMMA LoadNumber ==
    ASSUME BillingInv, NumberInv, NEW t \in Threads, NEW d \in Documents, NEW a \in Acts,
           Load(t, d, a)
    PROVE  NumberInv'
<1> USE DEF BillingInv, NumberInv
<1>1. LockInv'
  BY DEF TypeOK, LockInv, Journal, Load, journalVars
<1>2. BoundInv'
  BY DEF TypeOK, BoundInv, Journal, Load, docVars, journalVars
<1>3. ASSUME NEW f \in Documents, NEW n \in Nat \ {0}, Carries(f, n)'
      PROVE  Carries(f, n)
  BY <1>3 DEF TypeOK, Carries, Load, docVars
<1>4. rewound' = rewound
  BY DEF Load
<1> QED BY <1>1, <1>2, <1>3, <1>4, NoNewCarrier

LEMMA PriceNumber ==
    ASSUME BillingInv, NumberInv, NEW t \in Threads, Price(t)
    PROVE  NumberInv'
<1> USE DEF BillingInv, NumberInv
<1>0. copy' = [copy EXCEPT ![t] = copy'[t]] /\ copy'[t].number = copy[t].number
  BY DEF TypeOK, Price, Rows
<1>1. LockInv'
  BY DEF TypeOK, LockInv, Journal, Price, journalVars
<1>2. BoundInv'
  BY <1>0 DEF TypeOK, BoundInv, Journal, Price, docVars, journalVars, history
<1>3. ASSUME NEW f \in Documents, NEW n \in Nat \ {0}, Carries(f, n)'
      PROVE  Carries(f, n)
  BY <1>0, <1>3 DEF TypeOK, Carries, Price, docVars
<1>4. rewound' = rewound
  BY DEF Price, history
<1> QED BY <1>1, <1>2, <1>3, <1>4, NoNewCarrier

LEMMA BuildNumber ==
    ASSUME BillingInv, NumberInv, NEW t \in Threads, Build(t)
    PROVE  NumberInv'
<1> USE DEF BillingInv, NumberInv
<1> DEFINE s == sequence[Journal(t)]
<1>a. cur[t] \in Documents /\ Journal(t) \in Journals /\ pc[t] = "priced"
  BY Holder DEF Build
<1>0. PICK c \in Documents : c = cur[t]
  BY <1>a
<1>1. /\ copy' = [copy EXCEPT ![t] = copy'[t]]
      /\ copy'[t].number = NumberOf(t)
      /\ Journal(t) \notin rewound => copy[t].number < s
      /\ rewound' = rewound
  BY <1>a DEF TypeOK, Build, Rows, BoundInv, history
<1>2. NumberOf(t) = s \/ NumberOf(t) = copy[t].number
  BY DEF NumberOf
<1>3. \A u \in Threads \ {t} : pc[u] = "built" => Journal(u) # Journal(t)
  BY BillingAssumption DEF BillingAssumption, LockInv, Build, Unlocked
<1>4. LockInv'
  BY <1>a, <1>3 DEF TypeOK, LockInv, Journal, Build
<1>5. BoundInv'
  BY <1>a, <1>1, <1>2 DEF TypeOK, BoundInv, Journal, Build, docVars
<1>6. ASSUME NEW f \in Documents, NEW n \in Nat \ {0}, Carries(f, n)'
      PROVE  Carries(f, n) \/ (f = c /\ n = s)
  BY <1>0, <1>1, <1>2, <1>6 DEF TypeOK, Carries, Build, docVars
<1>7. ASSUME NEW f \in Documents, f # c, JournalOf(f) = Journal(t), Journal(t) \notin rewound
      PROVE  ~Carries(f, s)
  <2>1. row[f].number < s
    BY <1>7 DEF BoundInv
  <2>2. ASSUME NEW u \in Threads, cur[u] = f
        PROVE  copy[u].number < s
    <3>1. pc[u] # "idle" /\ u # t /\ Journal(u) = Journal(t)
      BY <1>0, <1>7, <2>2, BillingAssumption DEF BillingAssumption, LocalInv, Journal
    <3> QED BY <1>3, <1>7, <3>1 DEF BoundInv
  <2>3. s \in Nat
    BY <1>a DEF TypeOK
  <2> QED BY <2>1, <2>2, <2>3 DEF Carries, TypeOK, Rows
<1>8. OwnInv'
  BY <1>0, <1>1, <1>6, <1>7 DEF OwnInv, Journal
<1> QED BY <1>4, <1>5, <1>8

LEMMA CommitPostNumber ==
    ASSUME BillingInv, NumberInv, NEW t \in Threads, NEW e \in Entries, CommitPost(t, e)
    PROVE  NumberInv'
<1> USE DEF BillingInv, NumberInv
<1> DEFINE s == sequence[Journal(t)]
<1>a. cur[t] \in Documents /\ Journal(t) \in Journals /\ pc[t] = "built"
  BY Holder DEF CommitPost
<1>0. PICK c \in Documents : c = cur[t]
  BY <1>a
<1>1. row' = [row EXCEPT ![c] = row'[c]] /\ row'[c].number = copy[t].number
  BY <1>0 DEF TypeOK, CommitPost, PostedRow, Rows
<1>2. /\ \A j \in Journals : sequence[j] <= sequence'[j]
      /\ Journal(t) \notin rewound => copy[t].number < sequence'[Journal(t)]
  <2>1. /\ s \in Nat /\ copy[t].number \in Nat
        /\ Journal(t) \notin rewound => copy[t].number <= s
    BY <1>a DEF TypeOK, Rows, BoundInv
  <2>2. sequence' = [sequence EXCEPT ![Journal(t)] = @ + NumbersTaken(t)]
    BY DEF CommitPost
  <2> QED BY <1>a, <2>1, <2>2 DEF TypeOK, NumbersTaken
<1>3. \A u \in Threads \ {t} : pc[u] = "built" => Journal(u) # Journal(t)
  BY <1>a DEF LockInv
<1>4. \A u \in Threads : pc'[u] # "idle" =>
          /\ u # t
          /\ pc'[u] = pc[u] /\ cur'[u] = cur[u] /\ copy'[u] = copy[u]
          /\ Journal(u)' = Journal(u)
  BY DEF TypeOK, CommitPost, Done, Journal
<1>b. rewound' = rewound
  BY DEF CommitPost, history
<1>5. LockInv'
  BY <1>a, <1>3, <1>4 DEF TypeOK, LockInv, CommitPost
<1>6. BoundInv'
  <2>1. ASSUME NEW d \in Documents, JournalOf(d) \notin rewound
        PROVE  row'[d].number < sequence'[JournalOf(d)]
    <3>1. CASE d = c
      BY <1>0, <1>1, <1>2, <2>1, <3>1 DEF TypeOK, Journal
    <3>2. CASE d # c
      <4>1. row'[d] = row[d] /\ row[d].number < sequence[JournalOf(d)]
        BY <1>1, <2>1, <3>2 DEF TypeOK, BoundInv
      <4>2. row[d].number \in Nat /\ sequence[JournalOf(d)] \in Nat
            /\ sequence'[JournalOf(d)] \in Nat
        BY JournalIsOne, CommitPostInv DEF TypeOK, Rows
      <4> QED BY <1>2, <4>1, <4>2, JournalIsOne
    <3> QED BY <3>1, <3>2
  <2>2. ASSUME NEW u \in Threads, pc'[u] # "idle", Journal(u)' \notin rewound
        PROVE  \/ copy'[u].number < sequence'[Journal(u)']
               \/ pc'[u] = "built" /\ copy'[u].number = sequence'[Journal(u)']
    <3>1. /\ u # t /\ pc[u] # "idle" /\ pc'[u] = pc[u] /\ copy'[u] = copy[u]
          /\ Journal(u)' = Journal(u) /\ Journal(u) \notin rewound
      BY <1>4, <2>2
    <3>2. Journal(u) \in Journals
      BY <3>1, Holder
    <3>3. CASE Journal(u) = Journal(t)
      <4>1. pc[u] # "built"
        BY <1>3, <3>1, <3>3
      <4>2. copy[u].number < s /\ s <= sequence'[Journal(t)]
        BY <1>2, <3>1, <3>2, <3>3, <4>1 DEF BoundInv
      <4>3. copy[u].number \in Nat /\ s \in Nat /\ sequence'[Journal(t)] \in Nat
        BY <1>a, CommitPostInv DEF TypeOK, Rows
      <4> QED BY <3>1, <3>3, <4>2, <4>3
    <3>4. CASE Journal(u) # Journal(t)
      <4>1. sequence'[Journal(u)] = sequence[Journal(u)]
        BY <3>2, <3>4 DEF TypeOK, CommitPost
      <4> QED BY <3>1, <4>1 DEF BoundInv
    <3> QED BY <3>3, <3>4
  <2> QED BY <1>b, <2>1, <2>2 DEF BoundInv
<1>7. ASSUME NEW f \in Documents, NEW n \in Nat \ {0}, Carries(f, n)'
      PROVE  Carries(f, n)
  <2>1. CASE row'[f].number = n
    BY <1>0, <1>1, <2>1 DEF TypeOK, Carries
  <2>2. CASE \E u \in Threads : cur'[u] = f /\ copy'[u].number = n
    BY <2>2, BillingAssumption DEF BillingAssumption, TypeOK, Carries, CommitPost, Done
  <2> QED BY <1>7, <2>1, <2>2 DEF Carries
<1> QED BY <1>5, <1>6, <1>7, <1>b, NoNewCarrier

(* The other saves: the row takes a number it or the copy had. *)
LEMMA SaveNumber ==
    ASSUME BillingInv, NumberInv, NEW t \in Threads, pc[t] \in {"loaded", "priced"}, Done(t),
           NEW c \in Documents, c = cur[t],
           row' = [row EXCEPT ![c] = row'[c]],
           row'[c].number \in {row[c].number, copy[t].number},
           UNCHANGED <<journalVars, rewound>>
    PROVE  NumberInv'
<1> USE DEF BillingInv, NumberInv
<1>1. \A u \in Threads : pc'[u] # "idle" =>
          /\ u # t
          /\ pc'[u] = pc[u] /\ cur'[u] = cur[u] /\ copy'[u] = copy[u]
          /\ Journal(u)' = Journal(u)
  BY DEF TypeOK, Done, Journal
<1>2. LockInv'
  BY <1>1 DEF LockInv, journalVars
<1>3. JournalOf(c) \notin rewound => copy[t].number < sequence[JournalOf(c)]
  BY DEF BoundInv, Journal
<1>4. BoundInv'
  BY <1>1, <1>3 DEF TypeOK, BoundInv, journalVars
<1>5. ASSUME NEW f \in Documents, NEW n \in Nat \ {0}, Carries(f, n)'
      PROVE  Carries(f, n)
  <2>1. CASE row'[f].number = n
    BY <2>1 DEF TypeOK, Carries
  <2>2. CASE \E u \in Threads : cur'[u] = f /\ copy'[u].number = n
    BY <2>2, BillingAssumption DEF BillingAssumption, TypeOK, Carries, Done
  <2> QED BY <1>5, <2>1, <2>2 DEF Carries
<1> QED BY <1>2, <1>4, <1>5, NoNewCarrier

LEMMA AbortNumber ==
    ASSUME BillingInv, NumberInv, NEW t \in Threads, Abort(t)
    PROVE  NumberInv'
<1> USE DEF BillingInv, NumberInv
<1>a. cur[t] \in Documents /\ Journal(t) \in Journals
  BY Holder DEF Abort
<1>1. \A u \in Threads : pc'[u] # "idle" =>
          /\ u # t
          /\ pc'[u] = pc[u] /\ cur'[u] = cur[u] /\ copy'[u] = copy[u]
          /\ Journal(u)' = Journal(u)
  BY DEF TypeOK, Abort, Done, Journal
<1>2. LockInv'
  BY <1>a, <1>1 DEF TypeOK, LockInv, Abort
<1>3. BoundInv'
  BY <1>1 DEF BoundInv, Abort, docVars, history
<1>4. ASSUME NEW f \in Documents, NEW n \in Nat \ {0}, Carries(f, n)'
      PROVE  Carries(f, n)
  BY <1>4, BillingAssumption DEF BillingAssumption, TypeOK, Carries, Abort, Done, docVars
<1>5. rewound' = rewound
  BY DEF Abort, history
<1> QED BY <1>2, <1>3, <1>4, <1>5, NoNewCarrier

LEMMA WriteLineNumber ==
    ASSUME NumberInv, NEW d \in Documents, NEW n \in Totals \cup {0}, WriteLine(d, n)
    PROVE  NumberInv'
BY DEF NumberInv, WriteLine, LockInv, BoundInv, OwnInv, Carries, Journal, journalVars,
       localVars, history

(* A form that raises the sequence keeps the numbers behind it; one that   *)
(* lowers it is recorded.  It waits for a request that holds the row.      *)
LEMMA SaveJournalFormNumber ==
    ASSUME BillingInv, NumberInv, NEW j \in Journals, NEW n \in Sequences,
           SaveJournalForm(j, n)
    PROVE  NumberInv'
<1> USE DEF BillingInv, NumberInv
<1>1. UNCHANGED <<row, lockedBy, pc, cur, copy>>
  BY DEF SaveJournalForm, docVars, localVars
<1>2. rewound \subseteq rewound' /\ (j \notin rewound' => sequence[j] <= n)
  BY BillingAssumption DEF BillingAssumption, SaveJournalForm, TypeOK
<1>3. \A i \in Journals : i \notin rewound' => /\ i \notin rewound
                                             /\ sequence[i] <= sequence'[i]
                                             /\ sequence[i] \in Nat /\ sequence'[i] \in Nat
  BY <1>2, BillingAssumption DEF BillingAssumption, SaveJournalForm, TypeOK
<1>4. \A t \in Threads : pc[t] = "built" => Journal(t) # j
  BY BillingAssumption DEF BillingAssumption, SaveJournalForm, Unlocked, LockInv
<1>5. LockInv'
  BY <1>1 DEF LockInv, Journal
<1>6. ASSUME NEW d \in Documents, JournalOf(d) \notin rewound'
      PROVE  row'[d].number < sequence'[JournalOf(d)]
  <2>1. row[d].number \in Nat /\ JournalOf(d) \in Journals
    BY JournalIsOne DEF TypeOK, Rows
  <2> QED BY <1>1, <1>3, <1>6, <2>1 DEF BoundInv
<1>7. ASSUME NEW t \in Threads, pc[t] # "idle", Journal(t) \notin rewound'
      PROVE  \/ copy[t].number < sequence'[Journal(t)]
             \/ pc[t] = "built" /\ copy[t].number = sequence'[Journal(t)]
  <2>1. Journal(t) \in Journals /\ copy[t].number \in Nat
    BY <1>7, Holder DEF TypeOK, Rows
  <2>2. pc[t] = "built" => sequence'[Journal(t)] = sequence[Journal(t)]
    BY <1>4, <2>1 DEF SaveJournalForm, TypeOK
  <2> QED BY <1>3, <1>7, <2>1, <2>2 DEF BoundInv
<1>8. BoundInv'
  BY <1>1, <1>6, <1>7 DEF BoundInv, Journal
<1>9. OwnInv'
  BY <1>1, <1>2, NoNewCarrier DEF Carries
<1> QED BY <1>5, <1>8, <1>9

LEMMA NextNumberInv == BillingInv /\ NumberInv /\ [Next]_vars => NumberInv'
<1> SUFFICES ASSUME BillingInv, NumberInv, [Next]_vars
             PROVE  NumberInv'
  OBVIOUS
<1>1. ASSUME NEW t \in Threads, NEW e \in Entries, CommitPayment(t, e)
      PROVE  NumberInv'
  <2>1. PICK c \in Documents : c = cur[t]
    BY <1>1, Holder DEF BillingInv, CommitPayment
  <2>2. row' = [row EXCEPT ![c] = row'[c]] /\ row'[c].number = copy[t].number
    BY <1>1, <2>1 DEF BillingInv, TypeOK, CommitPayment, Rows
  <2> QED BY <1>1, <2>1, <2>2, SaveNumber DEF CommitPayment, history
<1>2. ASSUME NEW t \in Threads, SaveCancelled(t)
      PROVE  NumberInv'
  <2>1. PICK c \in Documents : c = cur[t]
    BY <1>2, Holder DEF BillingInv, SaveCancelled
  <2>2. row[c] \in Rows
    BY DEF BillingInv, TypeOK
  <2>3. row' = [row EXCEPT ![c] = row'[c]] /\ row'[c].number = row[c].number
    BY <1>2, <2>1, <2>2 DEF BillingInv, TypeOK, SaveCancelled, Rows
  <2> QED BY <1>2, <2>1, <2>3, SaveNumber DEF SaveCancelled, history
<1>3. ASSUME NEW t \in Threads, NEW n \in Totals \cup {0}, SaveForm(t, n)
      PROVE  NumberInv'
  <2>1. PICK c \in Documents : c = cur[t]
    BY <1>3, Holder DEF BillingInv, SaveForm
  <2>2. row' = [row EXCEPT ![c] = row'[c]] /\ row'[c].number = copy[t].number
    BY <1>3, <2>1 DEF BillingInv, TypeOK, SaveForm, Rows
  <2> QED BY <1>3, <2>1, <2>2, SaveNumber DEF SaveForm
<1>4. CASE UNCHANGED vars
  BY <1>4 DEF vars, docVars, journalVars, localVars, history, NumberInv, LockInv,
              BoundInv, OwnInv, Carries, Journal
<1> QED BY <1>1, <1>2, <1>3, <1>4, LoadNumber, PriceNumber, BuildNumber,
           CommitPostNumber, AbortNumber, WriteLineNumber, SaveJournalFormNumber
        DEF Next, Request, Acts

(* A number that a post has drawn is on no other document of its table:    *)
(* it was drawn under the journal's row lock, and a stale copy only ever   *)
(* restores a number its own document had; unless the form of the journal  *)
(* lowered the sequence.                                                   *)
THEOREM BillingFreshNumbers == Spec => []FreshNumbers
<1>1. ASSUME BillingInv, NumberInv, NEW t \in Threads, pc[t] = "built",
             Journal(t) \notin rewound, NEW d \in Documents \ {cur[t]},
             JournalOf(d) = Journal(t), row[d].number # 0
      PROVE  row[d].number # copy[t].number
  <2>1. PICK c \in Documents : c = cur[t]
    BY <1>1, Holder DEF BillingInv
  <2>2. row[d].number \in Nat \ {0}
    BY <1>1 DEF BillingInv, TypeOK, Rows
  <2>3. ~Carries(c, row[d].number)
    BY <1>1, <2>1, <2>2 DEF NumberInv, OwnInv, Carries, Journal
  <2> QED BY <2>1, <2>3 DEF Carries
<1>2. BillingInv /\ NumberInv => FreshNumbers
  BY <1>1 DEF FreshNumbers, NumberFree
<1> QED BY <1>2, BillingInvariant, InitNumberInv, NextNumberInv, PTL DEF Spec

-----------------------------------------------------------------------------
(* The lifecycle.  Of a document nobody raced for, the one request that    *)
(* holds it knows the state it is in, and the ledger what that state says. *)

HolderInv == \A d \in Documents \ raced : \A t, u \in Threads :
                 cur[t] = d /\ cur[u] = d => t = u

FreshInv == \A d \in Documents \ raced : \A t \in Threads :
                cur[t] = d => copy[t].state = row[d].state

Tally(d) == /\ row[d].state \in {"draft", "cancelled"} => Booked(d) = {}
            /\ row[d].state \in {"draft", "cancelled", "posted"} => Payments(d) = {}

TallyInv == \A d \in Documents \ raced : Tally(d)

LifeInv == HolderInv /\ FreshInv /\ TallyInv

LEMMA InitLifeInv == Init => LifeInv
BY BillingAssumption
   DEF BillingAssumption, Init, LifeInv, HolderInv, FreshInv, TallyInv, Tally,
       Booked, Payments, Unbooked, NewRow

LEMMA LoadLife ==
    ASSUME BillingInv, LifeInv, NEW t \in Threads, NEW d \in Documents, NEW a \in Acts,
           Load(t, d, a)
    PROVE  LifeInv' /\ [Document!Next]_(Document!documentVars)
<1> USE DEF BillingInv, LifeInv
<1>0. raced \subseteq raced'
  BY DEF Load
<1>1. \A u \in Threads : u # t => cur'[u] = cur[u] /\ copy'[u] = copy[u]
  BY DEF Load, TypeOK
<1>2. cur'[t] = d /\ copy'[t] = row[d] /\ UNCHANGED docVars
  BY DEF Load, TypeOK
<1>3. d \notin raced' => ~Held(d)
  BY DEF Load
<1>4. HolderInv'
  BY <1>0, <1>1, <1>2, <1>3 DEF HolderInv, Held
<1>5. FreshInv'
  BY <1>0, <1>1, <1>2 DEF FreshInv, docVars
<1>6. TallyInv'
  BY <1>0, <1>2 DEF TallyInv, Tally, Booked, Payments, docVars
<1>7. Document!Race(d) \/ UNCHANGED Document!documentVars
  BY <1>2 DEF Load, Document!Race, Document!documentVars, Booked, Payments, docVars
<1> QED BY <1>4, <1>5, <1>6, <1>7 DEF Document!Next

(* A request that saves a row and is done leaves the others as they were.  *)
LEMMA SaveLife ==
    ASSUME BillingInv, LifeInv, NEW t \in Threads, Done(t),
           NEW c \in Documents, c = cur[t],
           row' = [row EXCEPT ![c] = row'[c]],
           \A d \in Documents \ {c} : Booked(d)' = Booked(d) /\ Payments(d)' = Payments(d),
           c \notin raced => Tally(c)',
           UNCHANGED raced
    PROVE  LifeInv'
<1> USE DEF BillingInv, LifeInv
<1>1. \A u \in Threads \ {t} : cur'[u] = cur[u] /\ copy'[u] = copy[u]
  BY DEF Done, TypeOK
<1>2. cur'[t] = NoDocument
  BY DEF Done, TypeOK
<1>3. HolderInv'
  BY <1>1, <1>2, BillingAssumption DEF BillingAssumption, HolderInv
<1>4. \A d \in Documents \ {c} : row'[d] = row[d]
  BY DEF TypeOK
<1>5. ASSUME NEW d \in Documents \ raced, NEW u \in Threads, cur'[u] = d
      PROVE  copy'[u].state = row'[d].state
  <2>1. u # t /\ cur[u] = d /\ copy'[u] = copy[u]
    BY <1>1, <1>2, <1>5, BillingAssumption DEF BillingAssumption
  <2>2. d # c
    BY <2>1 DEF HolderInv
  <2> QED BY <1>4, <2>1, <2>2 DEF FreshInv
<1>6. ASSUME NEW d \in Documents \ raced
      PROVE  Tally(d)'
  <2>1. CASE d = c
    BY <2>1
  <2>2. CASE d # c
    BY <1>4, <2>2 DEF TallyInv, Tally
  <2> QED BY <2>1, <2>2
<1> QED BY <1>3, <1>5, <1>6 DEF FreshInv, TallyInv

LEMMA CommitPostLife ==
    ASSUME BillingInv, LifeInv, NEW t \in Threads, NEW e \in Entries, CommitPost(t, e)
    PROVE  LifeInv' /\ [Document!Next]_(Document!documentVars)
<1> USE DEF BillingInv, LifeInv
<1>0. PICK c \in Documents : c = cur[t]
  BY Holder DEF CommitPost
<1>1. /\ Booked(c)' = Booked(c) \cup {e}
      /\ \A f \in Documents \ {c} : Booked(f)' = Booked(f)
      /\ \A f \in Documents : Payments(f)' = Payments(f)
  BY <1>0, NewPosting DEF CommitPost
<1>2. row' = [row EXCEPT ![c] = row'[c]] /\ row'[c].state = "posted"
  BY <1>0 DEF TypeOK, CommitPost, PostedRow, Rows
<1>3. copy[t].state = "draft"
  BY DEF LocalInv, CommitPost
<1>4. c \notin raced => row[c].state = "draft" /\ Booked(c) = {} /\ Payments(c) = {}
  BY <1>0, <1>3 DEF FreshInv, TallyInv, Tally
<1>5. LifeInv'
  BY ZenonT(60), <1>0, <1>1, <1>2, <1>4, SaveLife DEF CommitPost, history, Tally
<1>e. Payments(c)' = Payments(c) \cup {}
  BY <1>1
<1>6. /\ [d \in Documents |-> row'[d].state] =
            [[d \in Documents |-> row[d].state] EXCEPT ![c] = "posted"]
      /\ [d \in Documents |-> Booked(d)'] =
            [[d \in Documents |-> Booked(d)] EXCEPT ![c] = @ \cup {e}]
      /\ [d \in Documents |-> Payments(d)'] =
            [[d \in Documents |-> Payments(d)] EXCEPT ![c] = @ \cup {}]
  <2>1. [d \in Documents |-> row'[d].state] =
            [[d \in Documents |-> row[d].state] EXCEPT ![c] = row'[c].state]
    BY <1>2 DEF TypeOK
  <2> QED BY <1>1, <1>2, <1>e, <2>1
<1>7. CASE c \in raced
  <2>1. Document!Overwrite(c, "posted", {e}, {})
    BY <1>6, <1>7 DEF Document!Overwrite, CommitPost, history
  <2> QED BY <1>5, <2>1 DEF Document!Next
<1>8. CASE c \notin raced
  <2>1. [d \in Documents |-> Booked(d)'] =
            [[d \in Documents |-> Booked(d)] EXCEPT ![c] = {e}]
    BY <1>1, <1>4, <1>8
  <2>2. [d \in Documents |-> Payments(d)'] = [d \in Documents |-> Payments(d)]
    BY <1>1
  <2>3. Document!Post(c, e)
    BY <1>4, <1>6, <1>8, <2>1, <2>2 DEF Document!Post, CommitPost, history
  <2> QED BY <1>5, <2>3 DEF Document!Next
<1> QED BY <1>7, <1>8

LEMMA CommitPaymentLife ==
    ASSUME BillingInv, LifeInv, NEW t \in Threads, NEW e \in Entries, CommitPayment(t, e)
    PROVE  LifeInv' /\ [Document!Next]_(Document!documentVars)
<1> USE DEF BillingInv, LifeInv
<1>0. PICK c \in Documents : c = cur[t]
  BY Holder DEF CommitPayment
<1>1. /\ Payments(c)' = Payments(c) \cup {e}
      /\ \A f \in Documents \ {c} : Payments(f)' = Payments(f)
      /\ \A f \in Documents : Booked(f)' = Booked(f)
  BY <1>0, NewPayment DEF CommitPayment
<1>2. row' = [row EXCEPT ![c] = row'[c]] /\ row'[c].state = "paid"
  BY <1>0 DEF TypeOK, CommitPayment, PaidState, Rows
<1>3. copy[t].state = "posted"
  BY DEF LocalInv, CommitPayment
<1>4. c \notin raced => row[c].state = "posted" /\ Payments(c) = {}
  BY <1>0, <1>3 DEF FreshInv, TallyInv, Tally
<1>5. LifeInv'
  BY <1>0, <1>1, <1>2, SaveLife DEF CommitPayment, history, Tally
<1>e. Booked(c)' = Booked(c) \cup {}
  BY <1>1
<1>6. /\ [d \in Documents |-> row'[d].state] =
            [[d \in Documents |-> row[d].state] EXCEPT ![c] = "paid"]
      /\ [d \in Documents |-> Booked(d)'] =
            [[d \in Documents |-> Booked(d)] EXCEPT ![c] = @ \cup {}]
      /\ [d \in Documents |-> Payments(d)'] =
            [[d \in Documents |-> Payments(d)] EXCEPT ![c] = @ \cup {e}]
  <2>1. [d \in Documents |-> row'[d].state] =
            [[d \in Documents |-> row[d].state] EXCEPT ![c] = row'[c].state]
    BY <1>2 DEF TypeOK
  <2> QED BY <1>1, <1>2, <1>e, <2>1
<1>7. CASE c \in raced
  <2>1. Document!Overwrite(c, "paid", {}, {e})
    BY <1>6, <1>7 DEF Document!Overwrite, CommitPayment, history
  <2> QED BY <1>5, <2>1 DEF Document!Next
<1>8. CASE c \notin raced
  <2>1. [d \in Documents |-> Payments(d)'] =
            [[d \in Documents |-> Payments(d)] EXCEPT ![c] = {e}]
    BY <1>1, <1>4, <1>8
  <2>2. [d \in Documents |-> Booked(d)'] = [d \in Documents |-> Booked(d)]
    BY <1>1
  <2>3. Document!Pay(c, e)
    BY <1>4, <1>6, <1>8, <2>1, <2>2 DEF Document!Pay, CommitPayment, history
  <2> QED BY <1>5, <2>3 DEF Document!Next
<1> QED BY <1>7, <1>8

LEMMA SaveCancelledLife ==
    ASSUME BillingInv, LifeInv, NEW t \in Threads, SaveCancelled(t)
    PROVE  LifeInv' /\ [Document!Next]_(Document!documentVars)
<1> USE DEF BillingInv, LifeInv
<1>0. PICK c \in Documents : c = cur[t]
  BY Holder DEF SaveCancelled
<1>1. \A d \in Documents : Booked(d)' = Booked(d) /\ Payments(d)' = Payments(d)
  BY DEF SaveCancelled, Booked, Payments
<1>2. row' = [row EXCEPT ![c] = row'[c]] /\ row'[c].state = "cancelled"
  <2>1. row[c] \in Rows
    BY DEF TypeOK
  <2> QED BY <1>0, <2>1 DEF TypeOK, SaveCancelled, Rows
<1>3. copy[t].state = "draft"
  BY DEF LocalInv, SaveCancelled
<1>4. c \notin raced => row[c].state = "draft" /\ Booked(c) = {} /\ Payments(c) = {}
  BY <1>0, <1>3 DEF FreshInv, TallyInv, Tally
<1>5. LifeInv'
  BY <1>0, <1>1, <1>2, <1>4, SaveLife DEF SaveCancelled, history, Tally
<1>6. [d \in Documents |-> row'[d].state] =
          [[d \in Documents |-> row[d].state] EXCEPT ![c] = "cancelled"]
  BY <1>2 DEF TypeOK
<1>7. CASE c \in raced
  <2>1. /\ [d \in Documents |-> Booked(d)'] =
              [[d \in Documents |-> Booked(d)] EXCEPT ![c] = @ \cup {}]
        /\ [d \in Documents |-> Payments(d)'] =
              [[d \in Documents |-> Payments(d)] EXCEPT ![c] = @ \cup {}]
    BY <1>1
  <2>2. Document!Overwrite(c, "cancelled", {}, {})
    BY <1>6, <1>7, <2>1 DEF Document!Overwrite, SaveCancelled, history
  <2> QED BY <1>5, <2>2 DEF Document!Next
<1>8. CASE c \notin raced
  <2>1. /\ [d \in Documents |-> Booked(d)'] = [d \in Documents |-> Booked(d)]
        /\ [d \in Documents |-> Payments(d)'] = [d \in Documents |-> Payments(d)]
    BY <1>1
  <2>2. Document!Cancel(c)
    BY <1>4, <1>6, <1>8, <2>1 DEF Document!Cancel, SaveCancelled, history
  <2> QED BY <1>5, <2>2 DEF Document!Next
<1> QED BY <1>7, <1>8

LEMMA SaveFormLife ==
    ASSUME BillingInv, LifeInv, NEW t \in Threads, NEW n \in Totals \cup {0}, SaveForm(t, n)
    PROVE  LifeInv' /\ [Document!Next]_(Document!documentVars)
<1> USE DEF BillingInv, LifeInv
<1>0. PICK c \in Documents : c = cur[t]
  BY Holder DEF SaveForm
<1>1. \A d \in Documents : Booked(d)' = Booked(d) /\ Payments(d)' = Payments(d)
  BY DEF SaveForm, Booked, Payments
<1>2. /\ row' = [row EXCEPT ![c] = row'[c]] /\ row'[c].state = copy[t].state
      /\ copy[t].state \in States
  BY <1>0 DEF TypeOK, SaveForm, Rows
<1>4. c \notin raced => copy[t].state = row[c].state /\ Tally(c)
  BY <1>0 DEF FreshInv, TallyInv
<1>5. LifeInv'
  BY <1>0, <1>1, <1>2, <1>4, SaveLife DEF SaveForm, Tally
<1>6. [d \in Documents |-> row'[d].state] =
          [[d \in Documents |-> row[d].state] EXCEPT ![c] = copy[t].state]
  BY <1>2 DEF TypeOK
<1>7. CASE c \in raced
  <2>1. /\ [d \in Documents |-> Booked(d)'] =
              [[d \in Documents |-> Booked(d)] EXCEPT ![c] = @ \cup {}]
        /\ [d \in Documents |-> Payments(d)'] =
              [[d \in Documents |-> Payments(d)] EXCEPT ![c] = @ \cup {}]
    BY <1>1
  <2>2. Document!Overwrite(c, copy[t].state, {}, {})
    BY <1>6, <1>7, <2>1 DEF Document!Overwrite, SaveForm
  <2> QED BY <1>2, <1>5, <2>2 DEF Document!Next, States
<1>8. CASE c \notin raced
  <2>1. /\ [d \in Documents |-> Booked(d)'] = [d \in Documents |-> Booked(d)]
        /\ [d \in Documents |-> Payments(d)'] = [d \in Documents |-> Payments(d)]
    BY <1>1
  <2>2. [d \in Documents |-> row'[d].state] = [d \in Documents |-> row[d].state]
    BY <1>4, <1>6, <1>8
  <2>3. UNCHANGED Document!documentVars
    BY <2>1, <2>2 DEF Document!documentVars, SaveForm
  <2> QED BY <1>5, <2>3
<1> QED BY <1>7, <1>8

(* Steps that leave the rows and the ledger alone, and hold no more.       *)
LEMMA QuietLife ==
    ASSUME BillingInv, LifeInv, UNCHANGED <<row, entry, raced>>,
           \A u \in Threads :
               cur'[u] = NoDocument \/ (cur'[u] = cur[u] /\ copy'[u].state = copy[u].state)
    PROVE  LifeInv' /\ [Document!Next]_(Document!documentVars)
<1> USE DEF BillingInv, LifeInv
<1>1. HolderInv'
  BY BillingAssumption DEF BillingAssumption, HolderInv
<1>2. FreshInv'
  BY BillingAssumption DEF BillingAssumption, FreshInv
<1>3. TallyInv'
  BY DEF TallyInv, Tally, Booked, Payments
<1>4. UNCHANGED Document!documentVars
  BY DEF Document!documentVars, Booked, Payments
<1> QED BY <1>1, <1>2, <1>3, <1>4

LEMMA LifeStep ==
    ASSUME BillingInv, LifeInv, [Next]_vars
    PROVE  LifeInv' /\ [Document!Next]_(Document!documentVars)
<1>1. ASSUME NEW t \in Threads, Price(t)
      PROVE  LifeInv' /\ [Document!Next]_(Document!documentVars)
  BY <1>1, QuietLife DEF Price, docVars, history, BillingInv, TypeOK, Rows
<1>2. ASSUME NEW t \in Threads, Build(t)
      PROVE  LifeInv' /\ [Document!Next]_(Document!documentVars)
  BY <1>2, QuietLife DEF Build, docVars, history, BillingInv, TypeOK, Rows
<1>3. ASSUME NEW t \in Threads, Abort(t)
      PROVE  LifeInv' /\ [Document!Next]_(Document!documentVars)
  <2>1. \A u \in Threads :
            cur'[u] = NoDocument \/ (cur'[u] = cur[u] /\ copy'[u].state = copy[u].state)
    BY <1>3 DEF Abort, Done, BillingInv, TypeOK
  <2>2. UNCHANGED <<row, entry, raced>>
    BY <1>3 DEF Abort, history, docVars
  <2> QED BY <2>1, <2>2, QuietLife
<1>4. ASSUME UNCHANGED <<row, entry, localVars, raced>>
      PROVE  LifeInv' /\ [Document!Next]_(Document!documentVars)
  BY <1>4, QuietLife DEF localVars
<1>5. ASSUME NEW d \in Documents, NEW n \in Totals \cup {0}, WriteLine(d, n)
      PROVE  LifeInv' /\ [Document!Next]_(Document!documentVars)
  BY <1>4, <1>5 DEF WriteLine, history
<1>6. ASSUME NEW j \in Journals, NEW n \in Sequences, SaveJournalForm(j, n)
      PROVE  LifeInv' /\ [Document!Next]_(Document!documentVars)
  BY <1>4, <1>6 DEF SaveJournalForm, docVars
<1>7. CASE UNCHANGED vars
  BY <1>4, <1>7 DEF vars, docVars, history
<1> QED BY <1>1, <1>2, <1>3, <1>5, <1>6, <1>7, LoadLife, CommitPostLife,
           CommitPaymentLife, SaveCancelledLife, SaveFormLife
        DEF Next, Request, Acts

(* Invoices and bills implement DocumentLifecycle: a document no two       *)
(* requests held at once is booked once, paid once and cancelled only as   *)
(* a draft, whatever else the form, the bulk actions and failures do.      *)
THEOREM BillingImplementsDocumentLifecycle == Spec => ImplementsDocumentLifecycle
<1>1. Init => Document!Init
  BY BillingAssumption
     DEF BillingAssumption, Init, Document!Init, Booked, Payments, Unbooked, NewRow
<1>2. BillingInv /\ LifeInv /\ [Next]_vars =>
          LifeInv' /\ [Document!Next]_(Document!documentVars)
  BY LifeStep
<1> QED BY <1>1, <1>2, InitLifeInv, BillingInvariant, PTL
        DEF Spec, ImplementsDocumentLifecycle, Document!Spec
=============================================================================
