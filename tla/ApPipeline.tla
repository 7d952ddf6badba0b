------------------------------ MODULE ApPipeline -------------------------------
(***************************************************************************)
(* The AP department's pipeline (agents/department.py DepartmentManager,   *)
(* agents/ap/department.py): extractor, classifier, proposer, reviewer,    *)
(* each fed with what the ones before it found, then the queue item made   *)
(* of their results.  The chart of accounts and the subscription may       *)
(* change between two of them.                                             *)
(***************************************************************************)
EXTENDS CandidateEntry, AutoAction

CONSTANTS Bills,         \* what an extraction may return
          Answers,       \* bill -> answers the classifying model may give
          ExpenseCodes,  \* accounts of type expense
          Charts,        \* sets of accounts that are in use and not deprecated
          Slugs,         \* rules of the knowledge base
          Verdicts       \* [verdict, failed]: answers of the reviewing model

BillRow == [amounts : Seq(Int), tax : Int, total : Seq(Int), dated : BOOLEAN]

ASSUME PipelineAssumption == /\ Bills \subseteq BillRow
                             /\ \A a \in Answers : DOMAIN a = 1 .. Len(a)

VARIABLES chart,       \* the tenant's accounts
          stage,       \* the specialist about to run, "idle", or "finish"
          results,     \* Sequence of [type, ok]
          bill, answers, classified, entry, approved,   \* running context
          item         \* the ApprovalQueueItem just made, <<>> when a new run starts
pipeVars == <<chart, stage, results, bill, answers, classified, entry, approved, item>>

NoBill == [amounts |-> <<>>, tax |-> 0, total |-> <<>>, dated |-> FALSE]
NoEntry == [lines |-> <<>>, dated |-> FALSE, issues |-> {}, needsReview |-> FALSE]

PipeInit == /\ chart \in Charts
            /\ stage = "idle"
            /\ results = <<>> /\ bill = NoBill /\ answers = <<>>
            /\ classified = <<>> /\ entry = NoEntry /\ approved = FALSE
            /\ item = <<>>

ChangeChart(c) == /\ chart' = c
                  /\ UNCHANGED <<stage, results, bill, answers, classified, entry,
                                 approved, item>>

-----------------------------------------------------------------------------
(* APDepartment.handle: DepartmentDisabledError unless subscribed. *)
Handle == /\ stage = "idle"
          /\ IsSubscribed
          /\ stage' = "extractor"
          /\ item' = <<>>
          /\ UNCHANGED <<chart, results, bill, answers, classified, entry, approved>>

Order == <<"extractor", "classifier", "proposer", "reviewer">>
NextOf(type) == CASE type = "extractor" -> "classifier"
                  [] type = "classifier" -> "proposer"
                  [] type = "proposer" -> "reviewer"
                  [] OTHER -> "finish"

(* DepartmentManager.run: an exception counts as a failure; the first      *)
(* failure halts the pipeline.                                             *)
NextStage(type, ok) == IF ok THEN NextOf(type) ELSE "finish"

Result(type, ok) == /\ stage = type
                    /\ results' = Append(results, [type |-> type, ok |-> ok])
                    /\ stage' = NextStage(type, ok)

(* No path, no file, an unreadable file, no API key, an API error or an    *)
(* answer without the tool: the extractor fails.                           *)
ExtractorFails == /\ Result("extractor", FALSE)
                  /\ UNCHANGED <<chart, bill, answers, classified, entry, approved, item>>
Extract(b) == /\ Result("extractor", TRUE)
              /\ bill' = b
              /\ UNCHANGED <<chart, answers, classified, entry, approved, item>>

(* A bill without lines is classified without a call. *)
ClassifyNothing == /\ bill.amounts = <<>>
                   /\ Result("classifier", TRUE)
                   /\ UNCHANGED <<chart, bill, answers, classified, entry, approved, item>>
ClassifierFails == /\ bill.amounts # <<>>
                   /\ Result("classifier", FALSE)
                   /\ UNCHANGED <<chart, bill, answers, classified, entry, approved, item>>
Classify(a) == /\ bill.amounts # <<>>
               /\ chart \cap ExpenseCodes # {}
               /\ Result("classifier", TRUE)
               /\ answers' = a
               /\ classified' = MergeResults(bill.amounts, a)
               /\ UNCHANGED <<chart, bill, entry, approved, item>>

Propose == /\ ~ProposerFails(classified, chart)
           /\ Result("proposer", TRUE)
           /\ entry' = Build(bill, classified, chart)
           /\ UNCHANGED <<chart, bill, answers, classified, approved, item>>
ProposerRefusesEmpty == /\ classified = <<>>
                        /\ Result("proposer", FALSE)
                        /\ UNCHANGED <<chart, bill, answers, classified, entry, approved, item>>
(* Where it must, and where anything unexpected is raised: a number that   *)
(* is none, the database.                                                  *)
ProposerRefuses == /\ Result("proposer", FALSE)
                   /\ UNCHANGED <<chart, bill, answers, classified, entry, approved, item>>

(* A rejection is a successful review. *)
Review(rules, v) == /\ Result("reviewer", TRUE)
                    /\ approved' = Reviewed(entry, rules, v)
                    /\ UNCHANGED <<chart, bill, answers, classified, entry, item>>
(* Past the form check: the retrieval of rules, the call, or its answer.   *)
ReviewerFails == /\ FormOk(entry)
                 /\ Result("reviewer", FALSE)
                 /\ UNCHANGED <<chart, bill, answers, classified, entry, approved, item>>

(* propose() and from_proposal(): whatever the results, an item is made of *)
(* them and waits for a human.                                             *)
Enqueue == /\ stage = "finish"
           /\ stage' = "idle"
           /\ item' = <<[results |-> results, bill |-> bill, classified |-> classified,
                         entry |-> entry, approved |-> approved]>>
           /\ results' = <<>> /\ bill' = NoBill /\ answers' = <<>>
           /\ classified' = <<>> /\ entry' = NoEntry /\ approved' = FALSE
           /\ UNCHANGED chart

SpecialistStep ==
    \/ ExtractorFails
    \/ \E b \in Bills : Extract(b)
    \/ ClassifyNothing
    \/ ClassifierFails
    \/ \E a \in Answers : Classify(a)
    \/ Propose
    \/ ProposerRefuses
    \/ \E rules \in SUBSET Slugs, v \in Verdicts : Review(rules, v)
    \/ ReviewerFails

PipeNext == \/ Handle
            \/ SpecialistStep
            \/ Enqueue
            \/ \E c \in Charts : ChangeChart(c)

(* The tenant's switches, its subscription among them, may change at any   *)
(* time.                                                                   *)
PipelineNext == \/ PipeNext /\ UNCHANGED switchVars
                \/ SwitchNext /\ UNCHANGED pipeVars

PipelineSpec == PipeInit /\ SwitchInit /\ [][PipelineNext]_<<pipeVars, switchVars>>

-----------------------------------------------------------------------------
(* execute(): the first successful proposer output with lines, or ValueError. *)
Executable(it) == /\ \E k \in DOMAIN it.results :
                         it.results[k].type = "proposer" /\ it.results[k].ok
                  /\ it.entry.lines # <<>>

AllOk(it) == \A k \in DOMAIN it.results : it.results[k].ok

-----------------------------------------------------------------------------
(* Properties. *)

(* DepartmentManager: "stop_on_failure=True (default) halts after the      *)
(* first failing specialist".  A queue item holds the results of the       *)
(* specialists in their order, only the last of them possibly a failure,   *)
(* and all four when all succeeded; and an item with every result ok, or   *)
(* one whose reviewer was reached, is one execute() can post.              *)
HaltedItemsAreShort ==
    \A k \in DOMAIN item :
        LET it == item[k] IN
        /\ \A n \in DOMAIN it.results : it.results[n].type = Order[n]
        /\ \A n \in 1 .. Len(it.results) - 1 : it.results[n].ok
        /\ AllOk(it) => Len(it.results) = 4
        /\ Len(it.results) = 4 => Executable(it)

(* "Raise any exception for hard failures; DepartmentManager wraps them in *)
(* SpecialistResult(ok=False, error=...) so the pipeline never crashes":   *)
(* while its process runs, a document handed to the department ends as an  *)
(* item in the queue, whatever fails on the way and whatever becomes of    *)
(* the chart of accounts and of the subscription.                          *)
HandledIsQueued == stage # "idle" ~> item # <<>>

(* The entry a reviewer approved balances to the cent, is dated, is not    *)
(* empty, and every line has an account and one side: although the         *)
(* proposer rounds its debits one by one and its credit from their exact   *)
(* sum, so that "the entry is always internally balanced" is not so.       *)
ApprovedIsSound ==
    \A k \in DOMAIN item :
        item[k].approved =>
            LET ls == item[k].entry.lines IN
            /\ Debits(ls) = Credits(ls)
            /\ Debits(ls) > 0
            /\ item[k].entry.dated
            /\ \A n \in DOMAIN ls : ls[n].account # NoCode /\ (ls[n].debit = 0 \/ ls[n].credit = 0)

(* The issues are all the approver has to see that a part of the bill is   *)
(* missing from the entry.  Without any, every line of the bill is a debit *)
(* of its amount, the tax has its line, and the supplier is credited with  *)
(* the total of the document when the document gives one.                  *)
UnflaggedIsTheBill ==
    \A k \in DOMAIN item :
        LET it == item[k]
            ls == it.entry.lines
        IN Executable(it) /\ it.entry.issues = {} =>
             /\ Len(ls) = Len(it.bill.amounts) + (IF it.bill.tax > 0 THEN 2 ELSE 1)
             /\ \A n \in DOMAIN it.bill.amounts : ls[n].debit = Cents(it.bill.amounts[n])
             /\ it.bill.total # <<>> => ls[Len(ls)].credit = Cents(it.bill.total[1])

(* A debit is rounded by itself, the credit once from their exact sum:     *)
(* what an entry is out of balance by is that rounding, half a cent for    *)
(* each of its lines at most, whatever lines were skipped and whether the  *)
(* tax was booked.                                                         *)
OffByRounding ==
    \A k \in DOMAIN item :
        LET ls == item[k].entry.lines IN
        Executable(item[k]) => /\ 2 * (Debits(ls) - Credits(ls)) <= Len(ls)
                               /\ 2 * (Credits(ls) - Debits(ls)) <= Len(ls)

(* _merge_results "Uses line_index from the classification to align with   *)
(* the original list": when the model names the lines it classifies, each  *)
(* once and in any order, a line gets the account meant for it, and one it *)
(* did not mention gets none.                                              *)
LinesKeepTheirAccount ==
    (stage = "proposer" /\ \A j, k \in DOMAIN answers :
         answers[k].index # Omitted /\ (j # k => answers[j].index # answers[k].index)) =>
      /\ Len(classified) = Len(bill.amounts)
      /\ \A k \in DOMAIN answers :
             answers[k].index \in DOMAIN classified =>
                 classified[answers[k].index].code = answers[k].code
      /\ \A n \in DOMAIN classified :
             classified[n].code # NoCode => \E k \in DOMAIN answers : answers[k].index = n

(* What the approver is shown is what became of the bill: the specialists' *)
(* results in their order, the accounts on the lines they are meant for,   *)
(* no part of the bill missing without an issue that says so, and an entry *)
(* out of balance by rounding only.                                        *)
ItemTellsTheBill == /\ HaltedItemsAreShort /\ LinesKeepTheirAccount
                    /\ UnflaggedIsTheBill /\ OffByRounding
=============================================================================
