-------------------------------- MODULE MCApAgent -------------------------------
(* Model-checking instance of document intake, of the AP pipeline, of the  *)
(* switches of automation, of the knowledge base and of the saga that      *)
(* takes an approved bill to the ERP, each explored on its own; the        *)
(* subscription also changes while the pipeline runs.  The knowledge base  *)
(* has three sides: two requests on one procedure, one request at a time   *)
(* on the procedures of two tenants, and rules alone.                      *)
EXTENDS ApPipeline, DocumentIntake, KnowledgeBase, ErpSaga, TLC

CONSTANTS w1, w2, p1, p2, rates, other, h1

VARIABLE side

BillOf(amounts, tax, total, dated) ==
    [amounts |-> amounts, tax |-> tax, total |-> total, dated |-> dated]

(* 5 thousandths are half a cent. *)
MCBills == {BillOf(<<>>, 0, <<>>, TRUE),
            BillOf(<<1005, 1005>>, 0, <<2010>>, TRUE),
            BillOf(<<1000, 0>>, 190, <<1190>>, TRUE),
            BillOf(<<1000, 2000>>, 190, <<3190>>, TRUE),
            BillOf(<<1000, 2000>>, 190, <<3200>>, TRUE),
            BillOf(<<1000, 2000>>, -190, <<>>, FALSE),
            BillOf(<<4>>, 0, <<4>>, TRUE)}

Guess(i, c, f) == [index |-> i, code |-> c, confidence |-> f]
MCAnswers == {<<>>,
              <<Guess(1, "601", "high")>>,
              <<Guess(Omitted, "601", "high"), Guess(Omitted, "628", "high")>>,
              <<Guess(2, "628", "low"), Guess(1, "601", "high")>>,
              <<Guess(2, "628", "high"), Guess(Omitted, "601", "high")>>,
              <<Guess(1, "999", "high"), Guess(2, "601", "high")>>}

MCCharts == {{"601", "628", "401", "445"}, {"601", "628", "401"}, {"601", "401", "445"},
             {"601", "445"}, {"401"}}

MCVerdicts == [verdict : {"approve", "reject"}, failed : {{}, {"K10"}, {"unknown"}}]

MCPlanCap == [p \in {"free", "pro"} |-> IF p = "pro" THEN 5 ELSE 0]
MCRequested == {-1, 0, 1, 2, 3, 5, 6}

MCMails == {<<"bill">>, <<"other_type">>, <<"too_large">>,
            <<"not_attachment", "bill", "other_type", "bill">>}

OneEach == (p1 :> w1) @@ (p2 :> w2)

Says(x, n, r, y, m) == [exceedsCap |-> x, knownClass |-> n, ratePct |-> r,
                        lifeYears |-> y, lifeMonths |-> m]
MCContents == {Says(FALSE, TRUE, 0, 0, 48), Says(TRUE, TRUE, 1000, 2, 0)}

ScoresAs(a, b) == [d \in Rules \cup Procedures |->
                      IF d = rates THEN a ELSE IF d = other THEN 1 ELSE b]
MCQueries == {ScoresAs(a, b) : a \in {0, 1, 2}, b \in {1, 2}}

allVars == <<side, pipeVars, switchVars, intakeVars, kbVars, sagaVars>>

Sides == {"intake", "pipeline", "switches", "procedure", "retrieval", "rules", "saga"}

Init == /\ side \in Sides
        /\ PipeInit /\ SwitchInit /\ IntakeInit /\ KbInit /\ SagaInit
        /\ side \notin {"pipeline", "switches"} =>
               /\ chart = CHOOSE c \in Charts : TRUE
               /\ tenantRow.plan = CHOOSE p \in Plans : TRUE

KnowledgeSide ==
    \/ /\ side = "procedure"
       /\ procedure'[p2].status = "absent"
       /\ rule'[other] = rule[other]
       /\ rule'[rates].effective /\ rule'[rates].review = "needs_review"
       /\ procedure'[p1].status # "absent" => procedure'[p1].active
    \/ /\ side = "retrieval"
       /\ \A t \in Writers \ {h1} : kbPc'[t] = "idle"
       /\ \A p \in Procedures : procedure'[p].content = procedure[p].content
       /\ \A r \in Rules : /\ rule'[r].ceiling = rule[r].ceiling
                           /\ rule'[r].review = rule[r].review
    \/ side = "rules" /\ procedure' = procedure

(* The ERP numbers its moves one after the other. *)
MovesInOrder ==
    \A m, n \in Moves : n < m /\ moveState'[m] # "absent" => moveState'[n] # "absent"

Next == \/ /\ side = "intake" /\ IntakeNext
           /\ UNCHANGED <<side, pipeVars, switchVars, kbVars, sagaVars>>
        \/ /\ side = "pipeline"
           /\ \/ PipeNext /\ UNCHANGED switchVars
              \/ \E a \in BOOLEAN : SaveSubscription(a, 0) /\ UNCHANGED pipeVars
           /\ UNCHANGED <<side, intakeVars, kbVars, sagaVars>>
        \/ /\ side = "switches" /\ SwitchNext
           /\ UNCHANGED <<side, pipeVars, intakeVars, kbVars, sagaVars>>
        \/ /\ KbNext /\ KnowledgeSide
           /\ UNCHANGED <<side, pipeVars, switchVars, intakeVars, sagaVars>>
        \/ /\ side = "saga" /\ SagaNext /\ MovesInOrder
           /\ UNCHANGED <<side, pipeVars, switchVars, intakeVars, kbVars>>

Running == /\ side = "pipeline" /\ (SpecialistStep \/ Enqueue)
           /\ UNCHANGED <<side, switchVars, intakeVars, kbVars, sagaVars>>

(* The pipeline runs on, and so does the saga of a process that lives      *)
(* (SagaFairSpec).                                                         *)
Spec == /\ Init /\ [][Next]_allVars
        /\ WF_allVars(Running)
        /\ \A r \in Runners : WF_sagaVars(SagaStep(r))
=============================================================================
