---------------------------- MODULE DocumentAmounts ----------------------------
(***************************************************************************)
(* The arithmetic of CustomerInvoice.post() and SupplierBill.post()        *)
(* (accounting/models.py): line amounts and totals, each rounded to the    *)
(* cent half to even, and the journal entry made of them.  The two differ  *)
(* in which side is debited only.                                          *)
(*                                                                         *)
(* Prices are in cents, quantities in hundredths, rates in hundredths of a *)
(* per cent.                                                               *)
(***************************************************************************)
EXTENDS Money, Sequences

CONSTANTS Quantities, Prices, TaxRates, WithholdingRates, MaxLines

ASSUME AmountsAssumption ==
    Quantities \cup Prices \cup TaxRates \cup WithholdingRates \subseteq Int

VARIABLES docLines,      \* the lines of a draft document
          withholding    \* its withholding_tax_rate
amountVars == <<docLines, withholding>>

AmountsInit == docLines = <<>> /\ withholding = 0

AddDocLine(q, p, r) == /\ Len(docLines) < MaxLines
                       /\ docLines' = Append(docLines, [quantity |-> q, price |-> p, rate |-> r])
                       /\ UNCHANGED withholding

SetWithholding(w) == withholding' = w /\ UNCHANGED docLines

AmountsNext == \/ \E q \in Quantities, p \in Prices, r \in TaxRates : AddDocLine(q, p, r)
               \/ \E w \in WithholdingRates : SetWithholding(w)

AmountsSpec == AmountsInit /\ [][AmountsNext]_amountVars

-----------------------------------------------------------------------------
AmountUntaxed(l) == Quantize(l.quantity * l.price, 100)
AmountTax(l) == Quantize(AmountUntaxed(l) * l.rate, 10000)

Subtotal == SumSeq([k \in DOMAIN docLines |-> AmountUntaxed(docLines[k])])
Tax == SumSeq([k \in DOMAIN docLines |-> AmountTax(docLines[k])])
Total == Subtotal + Tax
Withheld == Quantize(Total * withholding, 10000)
Net == Total - Withheld

(* The entry: the partner's line and the withholding on one side, a line   *)
(* of revenue or expense for each document line and the tax on the other.  *)
(* Tax and withholding get a line only when they are positive.             *)
PartnerSide == <<Net>> \o IF Withheld > 0 THEN <<Withheld>> ELSE <<>>
LineSideGross == [k \in DOMAIN docLines |->
                     AmountUntaxed(docLines[k]) + AmountTax(docLines[k])]
                 \o IF Tax > 0 THEN <<Tax>> ELSE <<>>
LineSide == [k \in DOMAIN docLines |-> AmountUntaxed(docLines[k])]
            \o IF Tax > 0 THEN <<Tax>> ELSE <<>>

(* JournalEntryLine.clean() takes positive amounts only, and entry.post()  *)
(* balanced sides; anything else rolls the posting back.                   *)
EntryAccepted == /\ \A k \in DOMAIN PartnerSide : PartnerSide[k] > 0
                 /\ \A k \in DOMAIN LineSide : LineSide[k] > 0
                 /\ SumSeq(PartnerSide) = SumSeq(LineSide)

PostAccepted == docLines # <<>> /\ Total > 0 /\ EntryAccepted

-----------------------------------------------------------------------------
(* The rounding of lines, tax and withholding never stops a regular        *)
(* document from being posted.  Nothing else is posted, but for a negative *)
(* tax and an equal negative withholding, which have no line each and      *)
(* cancel.  A document with one line that comes to nothing after rounding  *)
(* (a free item, a fraction of a cent), or with all of it withheld, is     *)
(* refused as a whole although its total is positive.                      *)
Regular == /\ docLines # <<>>
           /\ \A k \in DOMAIN docLines : AmountUntaxed(docLines[k]) >= 1
           /\ Tax >= 0
           /\ Withheld >= 0
           /\ Net >= 1

RegularDocumentsPost == /\ Regular => PostAccepted
                        /\ PostAccepted => Regular \/ (Tax < 0 /\ Withheld = Tax)
=============================================================================
