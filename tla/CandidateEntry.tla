---------------------------- MODULE CandidateEntry -----------------------------
(***************************************************************************)
(* What the AP specialists compute: the classifier's merge of the model's  *)
(* answer with the bill (agents/ap/classifier.py), the proposer's journal  *)
(* entry (agents/ap/proposer.py) and the reviewer's verdict                *)
(* (agents/ap/reviewer.py).                                                *)
(*                                                                         *)
(* Amounts of a bill are in thousandths, those of an entry in cents.  An   *)
(* amount that is missing or cannot be parsed is 0: the proposer treats    *)
(* both alike.  A total is a sequence of at most one amount.               *)
(***************************************************************************)
EXTENDS Money, Sequences, FiniteSets, SequencesExt

CONSTANTS NoCode,          \* no account suggested
          SupplierCode,    \* the 401x account
          VatCode          \* the 4452 or 445x account

Omitted == -1   \* an answer without line_index
Confidences == {"high", "low"}

-----------------------------------------------------------------------------
(* _merge_results: answers by line_index, or by position when they give    *)
(* none; the last answer for a line counts, a line without one gets a      *)
(* placeholder.                                                            *)

IndexByPosition(answers, k) == k
IndexOf(answers, k) == IF answers[k].index = Omitted THEN k ELSE answers[k].index

Placeholder == [code |-> NoCode, confidence |-> "low"]

AnswerFor(answers, i) ==
    LET ks == {k \in DOMAIN answers : IndexOf(answers, k) = i}
    IN IF ks = {} THEN Placeholder
       ELSE LET k == Max(ks)
            IN [code |-> answers[k].code, confidence |-> answers[k].confidence]

MergeResults(amounts, answers) ==
    [i \in DOMAIN amounts |-> [amount |-> amounts[i],
                               code |-> AnswerFor(answers, i).code,
                               confidence |-> AnswerFor(answers, i).confidence]]

-----------------------------------------------------------------------------
(* SyscohadaBillProposer.build. *)

Cents(n) == Quantize(n, 10)

Usable(l, chart) == l.amount > 0 /\ l.code # NoCode /\ l.code \in chart

DebitLine(code, n) == [account |-> code, debit |-> Cents(n), credit |-> 0]
CreditLine(code, n) == [account |-> code, debit |-> 0, credit |-> Cents(n)]

(* The loop over the classified lines: those it does not skip. *)
UsableLines(classified, chart) ==
    LET upTo[n \in 0 .. Len(classified)] ==
            IF n = 0 THEN <<>>
            ELSE IF Usable(classified[n], chart) THEN Append(upTo[n - 1], classified[n])
            ELSE upTo[n - 1]
    IN upTo[Len(classified)]

ProposerFails(classified, chart) == \/ classified = <<>>
                                    \/ SupplierCode \notin chart
                                    \/ UsableLines(classified, chart) = <<>>

VatBooked(bill, chart) == bill.tax > 0 /\ VatCode \in chart

(* The debits are rounded one by one, the credit from their exact sum. *)
Credited(bill, classified, chart) ==
    LET usable == UsableLines(classified, chart)
    IN SumSeq([k \in DOMAIN usable |-> usable[k].amount])
         + IF VatBooked(bill, chart) THEN bill.tax ELSE 0

EntryLines(bill, classified, chart) ==
    LET usable == UsableLines(classified, chart)
    IN [k \in DOMAIN usable |-> DebitLine(usable[k].code, usable[k].amount)]
       \o (IF VatBooked(bill, chart) THEN <<DebitLine(VatCode, bill.tax)>> ELSE <<>>)
       \o <<CreditLine(SupplierCode, Credited(bill, classified, chart))>>

TotalDiffers(bill, credited) == /\ bill.total # <<>>
                                /\ Cents(bill.total[1]) # Cents(credited)

Issues(bill, classified, chart) ==
    {i \in {"skipped", "no_vat_account", "total"} :
        CASE i = "skipped" -> \E k \in DOMAIN classified : ~Usable(classified[k], chart)
          [] i = "no_vat_account" -> bill.tax > 0 /\ VatCode \notin chart
          [] i = "total" -> TotalDiffers(bill, Credited(bill, classified, chart))}

(* The line's confidence counts only when the line is used. *)
LowConfidence(classified, chart) ==
    \E k \in DOMAIN classified : /\ Usable(classified[k], chart)
                                 /\ classified[k].confidence = "low"

Build(bill, classified, chart) ==
    [lines |-> EntryLines(bill, classified, chart),
     dated |-> bill.dated,
     issues |-> Issues(bill, classified, chart),
     needsReview |-> \/ Issues(bill, classified, chart) # {}
                     \/ LowConfidence(classified, chart)]

-----------------------------------------------------------------------------
(* structural_issues: no problem found. *)

Debits(ls) == SumSeq([k \in DOMAIN ls |-> ls[k].debit])
Credits(ls) == SumSeq([k \in DOMAIN ls |-> ls[k].credit])

FormOkUnbalanced(je) == je.lines # <<>> /\ je.dated
FormOk(je) ==
    /\ je.lines # <<>>
    /\ \A k \in DOMAIN je.lines :
          /\ je.lines[k].debit >= 0 /\ je.lines[k].credit >= 0
          /\ ~(je.lines[k].debit > 0 /\ je.lines[k].credit > 0)
          /\ je.lines[k].account # NoCode
    /\ Debits(je.lines) = Credits(je.lines)
    /\ Debits(je.lines) # 0
    /\ je.dated

(* AnthropicJEReviewer.review, with the rules retrieved and the answer     *)
(* [verdict, failed]: failed are the slugs it cites as failing.  Citations *)
(* of rules that were not retrieved are dropped, failing ones included.    *)
FailsKept(answer, rules) == answer.failed \cap rules

Reviewed(je, rules, answer) == /\ FormOk(je)
                               /\ rules # {}
                               /\ answer.verdict = "approve"
                               /\ FailsKept(answer, rules) = {}
=============================================================================
