----------------------------- MODULE KnowledgeBase -----------------------------
(***************************************************************************)
(* The knowledge base: framework rules (knowledge/models.py Rule), a       *)
(* tenant's own procedures, the validator that compares the two            *)
(* (knowledge/validation.py), the pages and commands that write them, and  *)
(* the retrieval the reviewer agent works from (knowledge/retrieval.py).   *)
(*                                                                         *)
(* Saving a procedure is two writes: the whole row from the request's      *)
(* copy, its old status included, then the status the validator finds for  *)
(* that copy.  kbPc[t]:                                                    *)
(*   "idle"      nothing                                                   *)
(*   "editing"   the procedure is read                                     *)
(*   "saved"     the row is written, not validated                         *)
(*   "judged"    the validator has looked at the copy and at the rule      *)
(* Rates are in hundredths of a percent.                                   *)
(***************************************************************************)
EXTENDS Naturals, FiniteSets

CONSTANTS Writers,
          Procedures, NoProcedure,
          OwnerOf,        \* procedure -> tenant
          TenantIds,
          Rules,          \* Rule rows
          RatesRule,      \* the rule that holds the depreciation ceilings
          Contents,       \* what a procedure may say
          Ceilings,       \* what the rates rule may say
          FixtureCeiling, \* what its fixture says
          Queries,        \* what queries score: document -> Nat
          MaxHits         \* k of retrieve()

ASSUME KnowledgeAssumption ==
    /\ OwnerOf \in [Procedures -> TenantIds]
    /\ NoProcedure \notin Procedures
    /\ RatesRule \in Rules
    /\ Ceilings \subseteq Nat /\ FixtureCeiling \in Ceilings
    /\ Queries \subseteq [Rules \cup Procedures -> Nat]
    /\ MaxHits \in Nat
    /\ Rules \cap Procedures = {}
    /\ IsFiniteSet(Rules) /\ IsFiniteSet(Procedures)

(* A procedure: does one of its effects exceed a cap, does it name a known *)
(* asset class, and the rate and lives it gives (0: the key is absent).    *)
Content == [exceedsCap : BOOLEAN, knownClass : BOOLEAN, ratePct : Nat,
            lifeYears : Nat, lifeMonths : Nat]
ASSUME ContentsAssumption == Contents \subseteq Content

VARIABLES rule,        \* rule -> [active, effective, ceiling, review]
          procedure,   \* procedure -> [content, status, active]
          kbPc, editing, mine, verdict,    \* locals of each request
          signedOff,   \* rule -> the ceiling the expert signed off (history)
          reworded,    \* rules a form has written (history)
          alone,       \* request -> nothing has come between since it began (history)
          unsettled    \* procedures written, or judged by two, and not settled by
                       \*   an undisturbed validation since (history)

kbRows == <<rule, procedure>>
kbLocals == <<kbPc, editing, mine, verdict>>
kbHistory == <<signedOff, reworded, alone, unsettled>>
kbVars == <<kbRows, kbLocals, kbHistory>>

Unwritten == [content |-> CHOOSE c \in Contents : TRUE, status |-> "absent", active |-> FALSE]

KbInit == /\ rule = [r \in Rules |-> [active |-> TRUE, effective |-> TRUE,
                                      ceiling |-> FixtureCeiling, review |-> "needs_review"]]
          /\ procedure = [p \in Procedures |-> Unwritten]
          /\ kbPc = [t \in Writers |-> "idle"]
          /\ editing = [t \in Writers |-> NoProcedure]
          /\ mine = [t \in Writers |-> Unwritten]
          /\ verdict = [t \in Writers |-> "pending"]
          /\ signedOff = [r \in Rules |-> FixtureCeiling]
          /\ alone = [t \in Writers |-> TRUE]
          /\ reworded = {} /\ unsettled = {}

-----------------------------------------------------------------------------
(* validate_procedure. *)

(* The first of rate, years, months that is given decides.  A straight-    *)
(* line life of n years implies 100/n percent a year; the ceiling may be   *)
(* passed by one hundredth.                                                *)
RateTooHigh(c, ceiling) ==
    \/ c.ratePct > ceiling + 1
    \/ c.ratePct = 0 /\ c.lifeYears # 0 /\ 10000 > (ceiling + 1) * c.lifeYears
    \/ c.ratePct = 0 /\ c.lifeYears = 0 /\ c.lifeMonths # 0
       /\ 120000 > (ceiling + 1) * c.lifeMonths

(* The caps are numbers in the code; the depreciation ceiling is the       *)
(* rule's, and no active rule means no check.                              *)
Judge(c) == IF \/ c.exceedsCap
               \/ /\ c.knownClass
                  /\ rule[RatesRule].active
                  /\ RateTooHigh(c, rule[RatesRule].ceiling)
            THEN "conflict" ELSE "validated"

HeldBy(p) == {t \in Writers : editing[t] = p}

(* A page, the admin or validate_procedures reads the row. *)
Take(t, p, next) ==
    /\ kbPc[t] = "idle"
    /\ procedure[p].status # "absent"
    /\ kbPc' = [kbPc EXCEPT ![t] = next]
    /\ editing' = [editing EXCEPT ![t] = p]
    /\ mine' = [mine EXCEPT ![t] = procedure[p]]
    /\ alone' = [u \in Writers |-> IF u = t THEN HeldBy(p) = {}
                                            ELSE alone[u] /\ editing[u] # p]
    /\ UNCHANGED <<kbRows, verdict, signedOff, reworded, unsettled>>

OpenProcedure(t, p) == Take(t, p, "editing")
Revalidate(t, p) == Take(t, p, "saved")

(* procedure_create: inserted as pending. *)
CreateProcedure(t, p, c) ==
    LET row == [content |-> c, status |-> "pending", active |-> TRUE] IN
    /\ kbPc[t] = "idle"
    /\ procedure[p].status = "absent"
    /\ procedure' = [procedure EXCEPT ![p] = row]
    /\ mine' = [mine EXCEPT ![t] = row]
    /\ editing' = [editing EXCEPT ![t] = p]
    /\ kbPc' = [kbPc EXCEPT ![t] = "saved"]
    /\ alone' = [alone EXCEPT ![t] = TRUE]
    /\ unsettled' = unsettled \cup {p}
    /\ UNCHANGED <<rule, verdict, signedOff, reworded>>

(* procedure_edit: the form on the copy, saved whole. *)
SaveProcedure(t, c, a) ==
    LET row == [mine[t] EXCEPT !.content = c, !.active = a] IN
    /\ kbPc[t] = "editing"
    /\ procedure' = [procedure EXCEPT ![editing[t]] = row]
    /\ mine' = [mine EXCEPT ![t] = row]
    /\ kbPc' = [kbPc EXCEPT ![t] = "saved"]
    /\ unsettled' = unsettled \cup {editing[t]}
    /\ UNCHANGED <<rule, editing, verdict, signedOff, reworded, alone>>

JudgeCopy(t) ==
    /\ kbPc[t] = "saved"
    /\ verdict' = [verdict EXCEPT ![t] = Judge(mine[t].content)]
    /\ kbPc' = [kbPc EXCEPT ![t] = "judged"]
    /\ UNCHANGED <<kbRows, editing, mine, kbHistory>>

Drop(t) == /\ kbPc' = [kbPc EXCEPT ![t] = "idle"]
           /\ editing' = [editing EXCEPT ![t] = NoProcedure]
           /\ mine' = [mine EXCEPT ![t] = Unwritten]
           /\ alone' = [alone EXCEPT ![t] = TRUE]
           /\ verdict' = [verdict EXCEPT ![t] = "pending"]

(* validate_and_apply: only the status (and notes) are written. *)
WithVerdict(row, v) == [row EXCEPT !.status = v]

ApplyVerdict(t) ==
    /\ kbPc[t] = "judged"
    /\ procedure' = [procedure EXCEPT ![editing[t]] = WithVerdict(@, verdict[t])]
    /\ unsettled' = IF alone[t] THEN unsettled \ {editing[t]}
                                ELSE unsettled \cup {editing[t]}
    /\ Drop(t)
    /\ UNCHANGED <<rule, signedOff, reworded>>

(* The request dies, or the validator raises on what it is given. *)
WriterDies(t) ==
    /\ kbPc[t] # "idle"
    /\ Drop(t)
    /\ UNCHANGED <<kbRows, signedOff, reworded, unsettled>>

-----------------------------------------------------------------------------
(* Rules: the admin's form and load_rules_from_file. *)

(* What was judged by the rates rule is judged by an older one now. *)
Outdate(r) ==
    IF r = RatesRule
    THEN /\ unsettled' = Procedures
         /\ alone' = [t \in Writers |-> alone[t] /\ kbPc[t] # "judged"]
    ELSE UNCHANGED <<unsettled, alone>>

EditRule(r, act, eff, c, rev) ==
    /\ rule' = [rule EXCEPT ![r] = [active |-> act, effective |-> eff, ceiling |-> c,
                                    review |-> rev]]
    /\ signedOff' = IF rev = "verified" /\ rule[r].review # "verified"
                    THEN [signedOff EXCEPT ![r] = c] ELSE signedOff
    /\ reworded' = IF c # rule[r].ceiling /\ rev = "verified" /\ rule[r].review = "verified"
                   THEN reworded \cup {r} ELSE reworded
    /\ Outdate(r)
    /\ UNCHANGED <<procedure, kbLocals>>

(* update_or_create: every field the fixture has, the review status among  *)
(* them; active and the dates are not in it.                               *)
FromFixtureKeepingReview(r) == [r EXCEPT !.ceiling = FixtureCeiling]
FromFixture(r) == [r EXCEPT !.ceiling = FixtureCeiling, !.review = "needs_review"]

LoadRule(r) == /\ rule' = [rule EXCEPT ![r] = FromFixture(@)]
               /\ Outdate(r)
               /\ reworded' = reworded \ {r}
               /\ UNCHANGED <<procedure, kbLocals, signedOff>>

KbNext ==
    \/ \E t \in Writers :
          \/ \E p \in Procedures : \/ OpenProcedure(t, p)
                                   \/ Revalidate(t, p)
                                   \/ \E c \in Contents : CreateProcedure(t, p, c)
          \/ \E c \in Contents, a \in BOOLEAN : SaveProcedure(t, c, a)
          \/ JudgeCopy(t) \/ ApplyVerdict(t) \/ WriterDies(t)
    \/ \E r \in Rules : \/ LoadRule(r)
                        \/ \E a, e \in BOOLEAN, c \in Ceilings, v \in {"needs_review", "verified"} :
                               EditRule(r, a, e, c, v)

KbSpec == KbInit /\ [][KbNext]_kbVars

-----------------------------------------------------------------------------
(* retrieve(query, tenant=..., k=...): the rules in force and the tenant's *)
(* own procedures that score at all, the best first; at the same score a   *)
(* procedure goes before a rule.  score is what the query's terms give.    *)

InForce(r) == rule[r].active /\ rule[r].effective

ProceduresOf(k) == {p \in Procedures : OwnerOf[p] = k /\ procedure[p].active}

Hits(k, score) == {d \in {r \in Rules : InForce(r)} \cup ProceduresOf(k) : score[d] > 0}

Outranks(d, e, score) == \/ score[d] > score[e]
                         \/ score[d] = score[e] /\ d \in Procedures /\ e \in Rules

(* Among the equal the slug decides: some choice of the same size. *)
Retrievals(k, score) ==
    {S \in SUBSET Hits(k, score) :
        /\ Cardinality(S) = IF Cardinality(Hits(k, score)) < MaxHits
                            THEN Cardinality(Hits(k, score)) ELSE MaxHits
        /\ \A d \in S, e \in Hits(k, score) \ S : ~Outranks(e, d, score)}

-----------------------------------------------------------------------------
(* Properties. *)

(* "edited content is re-checked against the framework": what a            *)
(* procedure's status says is what the validator would say of the content  *)
(* in the row now, from the validation that follows a save on, whoever     *)
(* reads, revalidates or gives up meanwhile.  Not so between the two       *)
(* writes of a save and after a request died there (the old status stays   *)
(* on the new content), after two requests held the row at once (the one's *)
(* content may end up with the other's verdict), nor after a change of the *)
(* rates rule; but the next save, or the next run of validate_procedures,  *)
(* that nothing disturbs puts it right again.                              *)
StatusIsTheVerdict ==
    \A p \in Procedures \ unsettled :
        procedure[p].status # "absent" => procedure[p].status = Judge(procedure[p].content)

(* What a retrieval hands the reviewer: rules in force and procedures of   *)
(* the very tenant, and nothing it leaves out would go before what it      *)
(* takes.  A procedure in conflict with the framework is handed over like  *)
(* any other.                                                              *)
RetrievedIsMineAndBest ==
    \A k \in TenantIds, score \in Queries :
        \A S \in Retrievals(k, score) :
            /\ \A r \in S \cap Rules : rule[r].active /\ rule[r].effective
            /\ \A p \in S \cap Procedures : OwnerOf[p] = k /\ procedure[p].active
            /\ Cardinality(S) <= MaxHits
            /\ \A p \in Procedures :
                   OwnerOf[p] = k /\ procedure[p].active /\ score[p] > 0 /\ p \notin S =>
                       /\ Cardinality(S) = MaxHits
                       /\ \A r \in S \cap Rules : score[r] > score[p]

(* "high-stakes rules stay needs_review until a human framework expert     *)
(* signs off": a rule that counts as verified says what the expert signed  *)
(* off; a reload of the fixtures takes the sign-off back with the text.    *)
(* Only a form that changes the text of a verified rule keeps it verified. *)
VerifiedAsSigned ==
    \A r \in Rules \ reworded :
        rule[r].review = "verified" => rule[r].ceiling = signedOff[r]

(* What the knowledge base tells the reviewer and the expert is so: marks  *)
(* are about the text they stand beside, hits are the tenant's and the     *)
(* best.                                                                   *)
KnowledgeIsTrue == StatusIsTheVerdict /\ VerifiedAsSigned /\ RetrievedIsMineAndBest
=============================================================================
