-------------------------- MODULE ApPipelineProofs --------------------------
(***************************************************************************)
(* Proofs about the accounts-payable agent, each for every value of the    *)
(* constants: it acts on its own only within what the tenant switched on   *)
(* and its plan allows, what the knowledge base says of a text is about    *)
(* that text, what intake answered for is there and linked, and what the   *)
(* pipeline leaves in the queue is what became of the bill.  The sums of   *)
(* amounts the last one rests on are those of the documents' totals, whose *)
(* theorem is therefore here too (DocumentAmounts).                        *)
(***************************************************************************)
EXTENDS ApPipeline, DocumentIntake, KnowledgeBase, DocumentAmounts, FiniteSetTheorems,
        FunctionTheorems, SequenceTheorems, WellFoundedInduction, TLAPS

-----------------------------------------------------------------------------
(* AutoAction. *)

TenantRow == [agentEnabled : BOOLEAN, plan : Plans]

SwitchTypeOK == /\ tenantRow \in TenantRow /\ tenantCopy \in TenantRow
                /\ subscription \in [active : BOOLEAN, cap : Nat]

(* CapacityEngine.check and AgentGate.check: whatever the switches and the *)
(* age of the instance they are read from, the agent acts on its own only  *)
(* in a subscribed department and within its ceiling.                      *)
THEOREM AgentActsWithinCap == SwitchSpec => []AutoOnlyWithinCap
  <1>1. SwitchInit => SwitchTypeOK
    BY DEF SwitchInit, SwitchTypeOK, TenantRow, NoRow
  <1>2. SwitchTypeOK /\ [SwitchNext]_switchVars => SwitchTypeOK'
    BY CapsAssumption DEF SwitchTypeOK, TenantRow, SwitchNext, SaveTenant, SaveSubscription, LoadTenant,
                          switchVars
  <1>3. SwitchTypeOK => AutoOnlyWithinCap
    <2> SUFFICES ASSUME SwitchTypeOK PROVE AutoOnlyWithinCap
      OBVIOUS
    <2>1. EffectiveCap \in Nat
      BY CapsAssumption DEF SwitchTypeOK, TenantRow, EffectiveCap
    <2>2. ASSUME NEW n \in Requested
          PROVE  Decision(n) = "auto_approve" <=> 0 < n /\ EffectiveCap # 0 /\ n <= EffectiveCap
      BY <2>1, CapsAssumption DEF Decision
    <2>3. EffectiveCap # 0 =>
             /\ subscription.active
             /\ subscription.cap > 0 => EffectiveCap = subscription.cap
             /\ subscription.cap = 0 => EffectiveCap = PlanCap[tenantCopy.plan]
      BY DEF EffectiveCap, IsSubscribed, SwitchTypeOK
    <2>4. QED
      BY <2>1, <2>2, <2>3, CapsAssumption DEF AutoOnlyWithinCap, GateOpen, IsSubscribed
  <1>4. QED
    BY <1>1, <1>2, <1>3, PTL DEF SwitchSpec

-----------------------------------------------------------------------------
(* KnowledgeBase. *)

KbPcs == {"idle", "editing", "saved", "judged"}
ProcedureRow == [content : Contents \cup {Unwritten.content}, active : BOOLEAN,
                 status : {"absent", "pending", "conflict", "validated"}]
RuleRow == [active : BOOLEAN, effective : BOOLEAN, ceiling : Ceilings,
            review : {"needs_review", "verified"}]

KbTypeOK ==
    /\ rule \in [Rules -> RuleRow]
    /\ procedure \in [Procedures -> ProcedureRow]
    /\ kbPc \in [Writers -> KbPcs]
    /\ editing \in [Writers -> Procedures \cup {NoProcedure}]
    /\ mine \in [Writers -> ProcedureRow]
    /\ verdict \in [Writers -> {"pending", "conflict", "validated"}]
    /\ signedOff \in [Rules -> Ceilings]
    /\ alone \in [Writers -> BOOLEAN]
    /\ unsettled \subseteq Procedures

(* A request at work holds a procedure that exists; one nothing came       *)
(* between holds it alone, has a true copy, and has judged it by the rates *)
(* rule as it is.                                                          *)
HandsInv ==
    \A t \in Writers :
        /\ kbPc[t] = "idle" => editing[t] = NoProcedure
        /\ kbPc[t] # "idle" => /\ editing[t] \in Procedures
                               /\ mine[t].status # "absent"
                               /\ procedure[editing[t]].status # "absent"
        /\ kbPc[t] # "idle" /\ alone[t] =>
              /\ HeldBy(editing[t]) = {t}
              /\ mine[t] = procedure[editing[t]]
              /\ kbPc[t] = "judged" => verdict[t] = Judge(mine[t].content)

KbInv == KbTypeOK /\ HandsInv /\ StatusIsTheVerdict /\ VerifiedAsSigned

LEMMA JudgeType == \A c : Judge(c) \in {"conflict", "validated"}
  BY DEF Judge

LEMMA TakeKbInv ==
  ASSUME KbInv, NEW t \in Writers, NEW p \in Procedures, NEW next \in {"editing", "saved"},
         Take(t, p, next)
  PROVE  KbInv'
  <1> USE DEF KbInv, Take, kbRows
  <1>1. KbTypeOK'
    BY DEF KbTypeOK, KbPcs, HeldBy
  <1>2. /\ HeldBy(p)' = HeldBy(p) \cup {t}
        /\ \A q \in Procedures \ {p} : HeldBy(q)' = HeldBy(q)
    BY KnowledgeAssumption DEF KbTypeOK, HandsInv, HeldBy
  <1>3. \A c : Judge(c)' = Judge(c)
    BY DEF Judge
  <1>4. HandsInv'
    <2> SUFFICES ASSUME NEW u \in Writers
                 PROVE  /\ kbPc'[u] = "idle" => editing'[u] = NoProcedure
                        /\ kbPc'[u] # "idle" => /\ editing'[u] \in Procedures
                                                /\ mine'[u].status # "absent"
                                                /\ procedure[editing'[u]].status # "absent"
                        /\ kbPc'[u] # "idle" /\ alone'[u] =>
                              /\ HeldBy(editing[u])' = {u}
                              /\ mine'[u] = procedure[editing'[u]]
                              /\ kbPc'[u] = "judged" => verdict[u] = Judge(mine'[u].content)
      BY <1>3 DEF HandsInv
    <2>1. CASE u = t
      BY <1>2, <2>1 DEF KbTypeOK
    <2>2. CASE u # t
      <3>1. /\ kbPc'[u] = kbPc[u] /\ editing'[u] = editing[u] /\ mine'[u] = mine[u]
            /\ alone'[u] = (alone[u] /\ editing[u] # p)
        BY <2>2 DEF KbTypeOK
      <3>2. QED
        BY <1>2, <3>1 DEF HandsInv
    <2>3. QED
      BY <2>1, <2>2
  <1>5. StatusIsTheVerdict'
    BY <1>2, <1>3 DEF StatusIsTheVerdict
  <1>6. QED
    BY <1>1, <1>4, <1>5 DEF VerifiedAsSigned

(* A form writes row over p, from the copy in the request's hands or as a  *)
(* new procedure; the request holds p from then on.                        *)
LEMMA WriteKbInv ==
  ASSUME KbInv, NEW t \in Writers, NEW p \in Procedures, NEW row \in ProcedureRow,
         row.status # "absent",
         \/ kbPc[t] = "idle" /\ procedure[p].status = "absent" /\ alone' = [alone EXCEPT ![t] = TRUE]
         \/ kbPc[t] = "editing" /\ editing[t] = p /\ alone' = alone,
         procedure' = [procedure EXCEPT ![p] = row],
         mine' = [mine EXCEPT ![t] = row],
         editing' = [editing EXCEPT ![t] = p],
         kbPc' = [kbPc EXCEPT ![t] = "saved"],
         unsettled' = unsettled \cup {p},
         UNCHANGED <<rule, verdict, signedOff, reworded>>
  PROVE  KbInv'
  <1> USE DEF KbInv
  <1>1. KbTypeOK'
    BY DEF KbTypeOK, KbPcs
  <1>2. /\ HeldBy(p)' = HeldBy(p) \cup {t}
        /\ \A q \in Procedures \ {p} : HeldBy(q)' = HeldBy(q)
        /\ kbPc[t] = "idle" => HeldBy(p) = {}
    BY KnowledgeAssumption DEF KbTypeOK, HandsInv, HeldBy
  <1>3. \A c : Judge(c)' = Judge(c)
    BY DEF Judge
  <1>4. HandsInv'
    <2> SUFFICES ASSUME NEW u \in Writers
                 PROVE  /\ kbPc'[u] = "idle" => editing'[u] = NoProcedure
                        /\ kbPc'[u] # "idle" => /\ editing'[u] \in Procedures
                                                /\ mine'[u].status # "absent"
                                                /\ procedure'[editing'[u]].status # "absent"
                        /\ kbPc'[u] # "idle" /\ alone'[u] =>
                              /\ HeldBy(editing[u])' = {u}
                              /\ mine'[u] = procedure'[editing'[u]]
                              /\ kbPc'[u] = "judged" => verdict[u] = Judge(mine'[u].content)
      BY <1>3 DEF HandsInv
    <2>1. CASE u = t
      <3>1. /\ kbPc'[u] = "saved" /\ editing'[u] = p /\ mine'[u] = row /\ procedure'[p] = row
        BY <2>1 DEF KbTypeOK
      <3>2. alone'[u] => HeldBy(p) \subseteq {t}
        BY <1>2, <2>1 DEF HandsInv, KbTypeOK
      <3>3. QED
        BY <1>2, <2>1, <3>1, <3>2
    <2>2. CASE u # t
      <3>1. /\ kbPc'[u] = kbPc[u] /\ editing'[u] = editing[u] /\ mine'[u] = mine[u]
            /\ alone'[u] = alone[u]
        BY <2>2 DEF KbTypeOK
      <3>2. ASSUME kbPc[u] # "idle", alone[u] PROVE editing[u] # p
        BY <1>2, <2>2, <3>2 DEF HandsInv, HeldBy
      <3>3. kbPc[u] # "idle" => /\ procedure'[editing[u]].status # "absent"
                                /\ editing[u] # p => procedure'[editing[u]] = procedure[editing[u]]
        BY DEF HandsInv, KbTypeOK
      <3>4. QED
        BY <1>2, <3>1, <3>2, <3>3 DEF HandsInv
    <2>3. QED
      BY <2>1, <2>2
  <1>5. StatusIsTheVerdict'
    BY <1>2, <1>3 DEF StatusIsTheVerdict, KbTypeOK
  <1>6. QED
    BY <1>1, <1>4, <1>5 DEF VerifiedAsSigned

LEMMA CreateKbInv ==
  ASSUME KbInv, NEW t \in Writers, NEW p \in Procedures, NEW c \in Contents,
         CreateProcedure(t, p, c)
  PROVE  KbInv'
  <1> DEFINE row == [content |-> c, status |-> "pending", active |-> TRUE]
  <1>1. row \in ProcedureRow /\ row.status # "absent"
    BY DEF ProcedureRow
  <1>2. QED
    BY <1>1, WriteKbInv DEF CreateProcedure

LEMMA SaveKbInv ==
  ASSUME KbInv, NEW t \in Writers, NEW c \in Contents, NEW a \in BOOLEAN, SaveProcedure(t, c, a)
  PROVE  KbInv'
  <1> DEFINE row == [mine[t] EXCEPT !.content = c, !.active = a]
  <1>1. mine[t] \in ProcedureRow /\ mine[t].status # "absent" /\ editing[t] \in Procedures
    BY DEF SaveProcedure, KbInv, KbTypeOK, HandsInv
  <1>2. row \in ProcedureRow /\ row.status # "absent"
    BY <1>1 DEF ProcedureRow
  <1>3. editing' = [editing EXCEPT ![t] = editing[t]]
    BY DEF SaveProcedure, KbInv, KbTypeOK
  <1> HIDE DEF row
  <1>4. /\ procedure' = [procedure EXCEPT ![editing[t]] = row]
        /\ mine' = [mine EXCEPT ![t] = row]
        /\ kbPc[t] = "editing" /\ kbPc' = [kbPc EXCEPT ![t] = "saved"]
        /\ unsettled' = unsettled \cup {editing[t]}
        /\ UNCHANGED <<rule, verdict, signedOff, reworded, alone>>
    BY DEF SaveProcedure, row
  <1>5. QED
    BY <1>1, <1>2, <1>3, <1>4, WriteKbInv

LEMMA JudgeKbInv ==
  ASSUME KbInv, NEW t \in Writers, JudgeCopy(t)
  PROVE  KbInv'
  <1> USE DEF KbInv, JudgeCopy, kbRows, kbHistory
  <1>1. KbTypeOK'
    BY JudgeType DEF KbTypeOK, KbPcs
  <1>2. \A q \in Procedures : HeldBy(q)' = HeldBy(q)
    BY DEF HeldBy
  <1>3. \A c : Judge(c)' = Judge(c)
    BY DEF Judge
  <1>4. HandsInv'
    BY <1>2, <1>3 DEF HandsInv, KbTypeOK
  <1>5. StatusIsTheVerdict'
    BY <1>2, <1>3 DEF StatusIsTheVerdict
  <1>6. QED
    BY <1>1, <1>4, <1>5 DEF VerifiedAsSigned

(* A request that is done with its procedure, settled or not.              *)
LEMMA DropKbInv ==
  ASSUME KbInv, NEW t \in Writers, ApplyVerdict(t) \/ WriterDies(t)
  PROVE  KbInv'
  <1> DEFINE p == editing[t]
  <1> USE DEF KbInv
  <1>1. Drop(t) /\ kbPc[t] # "idle" /\ p \in Procedures
    BY DEF ApplyVerdict, WriterDies, HandsInv
  <1>2. /\ \/ p \in unsettled'
           \/ alone[t] /\ kbPc[t] = "judged" /\ ApplyVerdict(t)
           \/ p \notin unsettled /\ UNCHANGED procedure
        /\ \A q \in Procedures \ {p} : q \in unsettled' <=> q \in unsettled
        /\ unsettled' \subseteq Procedures
    BY <1>1 DEF ApplyVerdict, WriterDies, KbTypeOK, kbRows
  <1>3. /\ \A q \in Procedures \ {p} : procedure'[q] = procedure[q]
        /\ procedure' \in [Procedures -> ProcedureRow]
        /\ procedure'[p].content = procedure[p].content
        /\ procedure'[p].status # "absent"
        /\ ApplyVerdict(t) => procedure'[p].status = verdict[t]
        /\ UNCHANGED <<rule, signedOff, reworded>>
    <2>1. ASSUME ApplyVerdict(t)
          PROVE  /\ \A q \in Procedures \ {p} : procedure'[q] = procedure[q]
                 /\ procedure' \in [Procedures -> ProcedureRow]
                 /\ procedure'[p].content = procedure[p].content
                 /\ procedure'[p].status # "absent"
                 /\ procedure'[p].status = verdict[t]
                 /\ UNCHANGED <<rule, signedOff, reworded>>
      <3>1. /\ procedure[p] \in ProcedureRow
            /\ verdict[t] \in {"conflict", "validated", "pending"}
        BY <1>1 DEF KbTypeOK
      <3>2. procedure' = [procedure EXCEPT ![p] = [procedure[p] EXCEPT !.status = verdict[t]]]
        BY <2>1 DEF ApplyVerdict, WithVerdict
      <3> DEFINE row == [procedure[p] EXCEPT !.status = verdict[t]]
      <3>3. row \in ProcedureRow /\ row.status = verdict[t] /\ row.content = procedure[p].content
        BY <3>1 DEF ProcedureRow
      <3> HIDE DEF row
      <3>4. procedure \in [Procedures -> ProcedureRow]
        BY DEF KbTypeOK
      <3>5. procedure' = [procedure EXCEPT ![p] = row]
        BY <3>2 DEF row
      <3>6. UNCHANGED <<rule, signedOff, reworded>>
        BY <2>1 DEF ApplyVerdict
      <3>7. QED
        BY <1>1, <3>1, <3>3, <3>4, <3>5, <3>6
    <2>2. CASE WriterDies(t)
      <3>1. UNCHANGED <<procedure, rule, signedOff, reworded>>
        BY <2>2 DEF WriterDies, kbRows
      <3>2. procedure[p].status # "absent" /\ procedure \in [Procedures -> ProcedureRow]
        BY <1>1 DEF HandsInv, KbTypeOK
      <3>3. QED
        BY <2>1, <3>1, <3>2
    <2>3. QED
      BY <2>1, <2>2
  <1>4. Unwritten \in ProcedureRow
    BY DEF Unwritten, ProcedureRow
  <1>5. KbTypeOK'
    BY <1>1, <1>2, <1>3, <1>4 DEF KbTypeOK, KbPcs, Drop
  <1>6. \A q \in Procedures : HeldBy(q)' = IF q = p THEN HeldBy(q) \ {t} ELSE HeldBy(q)
    <2>1. \A u \in Writers : editing'[u] = IF u = t THEN NoProcedure ELSE editing[u]
      BY <1>1 DEF Drop, KbTypeOK
    <2>2. NoProcedure \notin Procedures
      BY KnowledgeAssumption
    <2>3. QED
      BY <2>1, <2>2 DEF HeldBy
  <1>7. \A c : Judge(c)' = Judge(c)
    BY <1>3 DEF Judge
  <1>8. HandsInv'
    <2> SUFFICES ASSUME NEW u \in Writers
                 PROVE  /\ kbPc'[u] = "idle" => editing'[u] = NoProcedure
                        /\ kbPc'[u] # "idle" => /\ editing'[u] \in Procedures
                                                /\ mine'[u].status # "absent"
                                                /\ procedure'[editing'[u]].status # "absent"
                        /\ kbPc'[u] # "idle" /\ alone'[u] =>
                              /\ HeldBy(editing[u])' = {u}
                              /\ mine'[u] = procedure'[editing'[u]]
                              /\ kbPc'[u] = "judged" => verdict'[u] = Judge(mine'[u].content)
      BY <1>7 DEF HandsInv
    <2>1. CASE u = t
      BY <1>1, <2>1 DEF Drop, KbTypeOK
    <2>2. CASE u # t
      <3>1. /\ kbPc'[u] = kbPc[u] /\ editing'[u] = editing[u] /\ mine'[u] = mine[u]
            /\ alone'[u] = alone[u] /\ verdict'[u] = verdict[u]
        BY <1>1, <2>2 DEF Drop, KbTypeOK
      <3>2. ASSUME kbPc[u] # "idle", alone[u] PROVE editing[u] # p
        BY <1>1, <2>2, <3>2 DEF HandsInv, HeldBy
      <3>3. kbPc[u] # "idle" => /\ procedure'[editing[u]].status # "absent"
                                /\ editing[u] # p => procedure'[editing[u]] = procedure[editing[u]]
        BY <1>3 DEF HandsInv, KbTypeOK
      <3>4. QED
        BY <1>6, <3>1, <3>2, <3>3 DEF HandsInv
    <2>3. QED
      BY <2>1, <2>2
  <1>9. StatusIsTheVerdict'
    <2> SUFFICES ASSUME NEW q \in Procedures \ unsettled', procedure'[q].status # "absent"
                 PROVE  procedure'[q].status = Judge(procedure'[q].content)
      BY <1>7 DEF StatusIsTheVerdict
    <2>1. CASE q = p /\ alone[t] /\ kbPc[t] = "judged" /\ ApplyVerdict(t)
      <3>1. verdict[t] = Judge(procedure[p].content)
        BY <1>1, <2>1 DEF HandsInv
      <3>2. QED
        BY <1>3, <2>1, <3>1
    <2>2. CASE q # p
      BY <1>2, <1>3, <2>2 DEF StatusIsTheVerdict
    <2>3. CASE q = p /\ p \notin unsettled /\ UNCHANGED procedure
      BY <2>3 DEF StatusIsTheVerdict
    <2>4. QED
      BY <1>2, <2>1, <2>2, <2>3
  <1>10. QED
    BY <1>3, <1>5, <1>8, <1>9 DEF VerifiedAsSigned

(* The admin's form or the fixtures write a rule.                          *)
LEMMA RuleKbInv ==
  ASSUME KbInv, NEW r \in Rules,
         \/ LoadRule(r)
         \/ \E a, e \in BOOLEAN, c \in Ceilings, v \in {"needs_review", "verified"} :
               EditRule(r, a, e, c, v)
  PROVE  KbInv'
  <1> USE DEF KbInv
  <1>1. /\ rule' \in [Rules -> RuleRow]
        /\ signedOff' \in [Rules -> Ceilings]
        /\ \A s \in Rules \ {r} : rule'[s] = rule[s]
    <2>1. ASSUME NEW a \in BOOLEAN, NEW e \in BOOLEAN, NEW c \in Ceilings,
                 NEW v \in {"needs_review", "verified"}, EditRule(r, a, e, c, v)
          PROVE  <1>1!1 /\ <1>1!2 /\ <1>1!3
      BY <2>1 DEF EditRule, KbTypeOK, RuleRow
    <2>2. CASE LoadRule(r)
      BY <2>2, KnowledgeAssumption DEF LoadRule, FromFixture, KbTypeOK, RuleRow
    <2>3. QED
      BY <2>1, <2>2
  <1>2. /\ Outdate(r)
        /\ UNCHANGED <<procedure, kbPc, editing, mine, verdict>>
    BY DEF LoadRule, EditRule, kbLocals
  <1>3. KbTypeOK'
    BY <1>1, <1>2 DEF KbTypeOK, Outdate
  <1>4. /\ \A q : HeldBy(q)' = HeldBy(q)
        /\ r # RatesRule => \A c : Judge(c)' = Judge(c)
    BY <1>1, <1>2, KnowledgeAssumption DEF HeldBy, Judge
  <1>5. HandsInv'
    BY <1>2, <1>4 DEF HandsInv, Outdate, KbTypeOK
  <1>6. StatusIsTheVerdict'
    BY <1>2, <1>4 DEF StatusIsTheVerdict, Outdate
  <1>7. VerifiedAsSigned'
    <2>1. ASSUME NEW a \in BOOLEAN, NEW e \in BOOLEAN, NEW c \in Ceilings,
                 NEW v \in {"needs_review", "verified"}, EditRule(r, a, e, c, v)
          PROVE  VerifiedAsSigned'
      BY <2>1 DEF EditRule, KbTypeOK, VerifiedAsSigned
    <2>2. CASE LoadRule(r)
      BY <2>2 DEF LoadRule, FromFixture, KbTypeOK, RuleRow, VerifiedAsSigned
    <2>3. QED
      BY <2>1, <2>2
  <1>8. QED
    BY <1>3, <1>5, <1>6, <1>7

(* retrieve(): the hits are finitely many, so an answer that is as large   *)
(* as they are holds them all.                                             *)
LEMMA Retrieved == KbTypeOK => RetrievedIsMineAndBest
  <1> SUFFICES ASSUME KbTypeOK, NEW k \in TenantIds, NEW score \in Queries,
                      NEW S \in Retrievals(k, score)
               PROVE  /\ \A r \in S \cap Rules : rule[r].active /\ rule[r].effective
                      /\ \A p \in S \cap Procedures : OwnerOf[p] = k /\ procedure[p].active
                      /\ Cardinality(S) <= MaxHits
                      /\ \A p \in Procedures :
                             OwnerOf[p] = k /\ procedure[p].active /\ score[p] > 0 /\ p \notin S =>
                                 /\ Cardinality(S) = MaxHits
                                 /\ \A r \in S \cap Rules : score[r] > score[p]
    BY DEF RetrievedIsMineAndBest
  <1> DEFINE H == Hits(k, score)
  <1>1. score \in [Rules \cup Procedures -> Nat] /\ MaxHits \in Nat /\ Rules \cap Procedures = {}
    BY KnowledgeAssumption
  <1>2. IsFiniteSet(H)
    <2>1. IsFiniteSet(Rules \cup Procedures) /\ H \subseteq Rules \cup Procedures
      BY KnowledgeAssumption, FS_Union DEF Hits, ProceduresOf
    <2>2. QED
      BY <2>1, FS_Subset
  <1>3. /\ S \subseteq H
        /\ Cardinality(S) = IF Cardinality(H) < MaxHits THEN Cardinality(H) ELSE MaxHits
        /\ \A d \in S, e \in H \ S : ~Outranks(e, d, score)
    BY DEF Retrievals
  <1>4. /\ \A r \in H \cap Rules : rule[r].active /\ rule[r].effective
        /\ \A p \in H \cap Procedures : OwnerOf[p] = k /\ procedure[p].active
        /\ \A p \in Procedures : OwnerOf[p] = k /\ procedure[p].active /\ score[p] > 0 => p \in H
    BY <1>1 DEF Hits, InForce, ProceduresOf
  <1>5. Cardinality(H) \in Nat /\ (Cardinality(S) = Cardinality(H) => S = H)
    BY <1>2, <1>3, FS_CardinalityType, FS_Subset
  <1> HIDE DEF H
  <1>6. ASSUME NEW p \in Procedures, p \in H \ S
        PROVE  /\ Cardinality(S) = MaxHits
               /\ \A r \in S \cap Rules : score[r] > score[p]
    <2>1. Cardinality(S) = MaxHits
      BY <1>1, <1>3, <1>5, <1>6
    <2>2. \A r \in S \cap Rules : score[r] > score[p]
      BY <1>1, <1>3, <1>6 DEF Outranks
    <2>3. QED
      BY <2>1, <2>2
  <1>7. Cardinality(S) <= MaxHits
    BY <1>1, <1>3, <1>5
  <1>8. QED
    BY <1>3, <1>4, <1>6, <1>7

(* procedure_edit, validate_and_apply, the fixtures and retrieve(): marks  *)
(* are about the text they stand beside and hits are the tenant's and the  *)
(* best, unless two requests held a procedure at once, one died on it, or  *)
(* a form rewrote a verified rule.                                         *)
THEOREM KnowledgeBaseIsTrue == KbSpec => []KnowledgeIsTrue
  <1>1. KbInit => KbInv
    <2> SUFFICES ASSUME KbInit PROVE KbInv
      OBVIOUS
    <2>1. Unwritten \in ProcedureRow /\ Unwritten.status = "absent"
      BY DEF Unwritten, ProcedureRow
    <2>2. KbTypeOK
      BY <2>1, KnowledgeAssumption DEF KbInit, KbTypeOK, KbPcs, RuleRow
    <2>3. QED
      BY <2>1, <2>2 DEF KbInit, KbInv, HandsInv, StatusIsTheVerdict, VerifiedAsSigned
  <1>2. KbInv /\ [KbNext]_kbVars => KbInv'
    <2>1. ASSUME KbInv, UNCHANGED kbVars PROVE KbInv'
      BY <2>1 DEF kbVars, kbRows, kbLocals, kbHistory, KbInv, KbTypeOK, HandsInv, HeldBy, Judge,
                  StatusIsTheVerdict, VerifiedAsSigned
    <2>2. ASSUME KbInv, NEW t \in Writers, NEW p \in Procedures,
                 \/ OpenProcedure(t, p) \/ Revalidate(t, p)
                 \/ \E c \in Contents : CreateProcedure(t, p, c)
          PROVE  KbInv'
      BY <2>2, TakeKbInv, CreateKbInv DEF OpenProcedure, Revalidate
    <2>3. QED
      BY <2>1, <2>2, SaveKbInv, JudgeKbInv, DropKbInv, RuleKbInv DEF KbNext
  <1>3. KbInv => KnowledgeIsTrue
    BY Retrieved DEF KbInv, KnowledgeIsTrue
  <1>4. QED
    BY <1>1, <1>2, <1>3, PTL DEF KbSpec

-----------------------------------------------------------------------------
(* DocumentIntake. *)

IntakePcs == {"idle", "files", "stored", "emitted", "answered", "died"}
DocumentRow == [by : IntakeRequests, file : Nat, chain : Nat, busEvent : Nat]
EventRow == [document : Nat, chain : Nat]

IntakeTypeOK ==
    /\ documents \in Seq(DocumentRow)
    /\ events \in Seq(EventRow)
    /\ intakePc \in [IntakeRequests -> IntakePcs]
    /\ mail \in [IntakeRequests -> Seq(Files)]
    /\ position \in [IntakeRequests -> Nat \ {0}]
    /\ current \in [IntakeRequests -> Nat]
    /\ route \in [IntakeRequests -> BOOLEAN]

AtADocument(r) == intakePc[r] \in {"stored", "emitted"}

Linked(d) == /\ documents[d].busEvent \in 1 .. Len(events)
             /\ events[documents[d].busEvent].document = d
             /\ events[documents[d].busEvent].chain = documents[d].chain
Bare(d) == documents[d].busEvent = 0 /\ documents[d].chain = NoChain

(* The files of r that have a document if r lives.                         *)
Taken(r, k) == /\ k \in 1 .. Len(mail[r])
               /\ mail[r][k] = "bill"
               /\ k < position[r] \/ (AtADocument(r) /\ k = position[r])

(* A request that lives has one document for each acceptable file it has   *)
(* passed, linked but for the one it is writing.                           *)
PlaceOK(r) ==
    /\ ~route[r] => /\ intakePc[r] \in {"idle", "answered"}
                    /\ position[r] = 1
    /\ intakePc[r] = "idle" => position[r] = 1
    /\ intakePc[r] = "answered" /\ route[r] => position[r] > Len(mail[r])
    /\ AtADocument(r) => /\ position[r] \in 1 .. Len(mail[r])
                         /\ mail[r][position[r]] = "bill"
                         /\ current[r] \in 1 .. Len(documents)
                         /\ documents[current[r]].by = r
                         /\ documents[current[r]].file = position[r]
                         /\ Bare(current[r])
TakenHasDocument(r) ==
    \A k \in Nat : Taken(r, k) =>
        \E d \in 1 .. Len(documents) : documents[d].by = r /\ documents[d].file = k
DocumentWasTaken(r) ==
    \A d \in 1 .. Len(documents) : documents[d].by = r =>
        Taken(r, documents[d].file) /\ (Linked(d) \/ (AtADocument(r) /\ d = current[r]))
OnePerFile(r) ==
    \A c, d \in 1 .. Len(documents) :
        documents[c].by = r /\ documents[d].by = r /\ documents[c].file = documents[d].file =>
            c = d

RequestOK(r) == /\ PlaceOK(r)
                /\ intakePc[r] # "died" => TakenHasDocument(r) /\ DocumentWasTaken(r)
                /\ OnePerFile(r)

RequestsInv == \A r \in IntakeRequests : RequestOK(r)

(* An event is its document's only one, and unless the document leads back *)
(* to it its request died or is about to write the link.                   *)
EventTrue(e) ==
    LET d == events[e].document
        r == documents[d].by
    IN /\ events[e].chain = e
       /\ d \in 1 .. Len(documents)
       /\ documents[d].busEvent # e =>
             intakePc[r] = "died" \/ (intakePc[r] = "emitted" /\ current[r] = d)
EventsTrue == \A e \in 1 .. Len(events) : EventTrue(e)
OneEventEach == \A e, f \in 1 .. Len(events) : events[e].document = events[f].document => e = f
EventsOfRequests ==
    \A r \in IntakeRequests :
        /\ intakePc[r] = "stored" => \A e \in 1 .. Len(events) : events[e].document # current[r]
        /\ intakePc[r] = "emitted" => \E e \in 1 .. Len(events) : events[e].document = current[r]

EventsInv == /\ EventsTrue
             /\ OneEventEach
             /\ EventsOfRequests
             /\ \A d \in 1 .. Len(documents) : Linked(d) \/ Bare(d)

IntakeInv == IntakeTypeOK /\ RequestsInv /\ EventsInv

LEMMA IntakeRows ==
  ASSUME IntakeTypeOK
  PROVE  /\ Len(documents) \in Nat /\ DOMAIN documents = 1 .. Len(documents)
         /\ Len(events) \in Nat /\ DOMAIN events = 1 .. Len(events)
         /\ \A d \in 1 .. Len(documents) :
               /\ documents[d] \in DocumentRow
               /\ documents[d].by \in IntakeRequests /\ documents[d].file \in Nat
               /\ documents[d].chain \in Nat /\ documents[d].busEvent \in Nat
         /\ \A e \in 1 .. Len(events) : events[e].document \in Nat /\ events[e].chain \in Nat
         /\ \A r \in IntakeRequests : /\ Len(mail[r]) \in Nat /\ DOMAIN mail[r] = 1 .. Len(mail[r])
                                      /\ position[r] \in Nat /\ position[r] > 0
  <1>1. \A d \in 1 .. Len(documents) : documents[d] \in DocumentRow
    BY ElementOfSeq DEF IntakeTypeOK
  <1>2. \A e \in 1 .. Len(events) : events[e] \in EventRow
    BY ElementOfSeq DEF IntakeTypeOK
  <1>3. \A row \in DocumentRow : /\ row.by \in IntakeRequests /\ row.file \in Nat
                                 /\ row.chain \in Nat /\ row.busEvent \in Nat
    BY DEF DocumentRow
  <1>4. \A row \in EventRow : row.document \in Nat /\ row.chain \in Nat
    BY DEF EventRow
  <1>5. \A r \in IntakeRequests : mail[r] \in Seq(Files) /\ position[r] \in Nat \ {0}
    BY DEF IntakeTypeOK
  <1>6. documents \in Seq(DocumentRow) /\ events \in Seq(EventRow)
    BY DEF IntakeTypeOK
  <1>7. QED
    BY <1>1, <1>2, <1>3, <1>4, <1>5, <1>6, LenProperties

(* What a step does to the rows of a request that stays where it is.       *)
LEMMA RequestStays ==
  ASSUME IntakeTypeOK, NEW u \in IntakeRequests, RequestOK(u),
         \/ intakePc'[u] = intakePc[u]
         \/ intakePc[u] = "stored" /\ intakePc'[u] = "emitted",
         mail'[u] = mail[u], position'[u] = position[u], current'[u] = current[u],
         route'[u] = route[u],
         Len(documents') \in Nat, Len(documents) <= Len(documents'),
         \A d \in 1 .. Len(documents') :
            IF d \in 1 .. Len(documents)
            THEN /\ documents'[d].by = documents[d].by /\ documents'[d].file = documents[d].file
                 /\ documents[d].by = u => /\ Linked(d) => Linked(d)'
                                           /\ Bare(d) => Bare(d)'
            ELSE documents'[d].by # u
  PROVE  RequestOK(u)'
  <1>1. AtADocument(u)' <=> AtADocument(u)
    BY DEF AtADocument
  <1>2. \A k : Taken(u, k)' <=> Taken(u, k)
    BY <1>1 DEF Taken
  <1>3. Len(documents) \in Nat /\ 1 .. Len(documents) \subseteq 1 .. Len(documents')
    BY IntakeRows
  <1>4. PlaceOK(u)'
    BY <1>1, <1>3 DEF RequestOK, PlaceOK, AtADocument
  <1>5. TakenHasDocument(u) => TakenHasDocument(u)'
    BY <1>2, <1>3 DEF TakenHasDocument
  <1>6. DocumentWasTaken(u) => DocumentWasTaken(u)'
    BY <1>1, <1>2 DEF DocumentWasTaken
  <1>7. OnePerFile(u)'
    BY DEF RequestOK, OnePerFile
  <1>8. intakePc'[u] # "died" => intakePc[u] # "died"
    OBVIOUS
  <1>9. QED
    BY <1>4, <1>5, <1>6, <1>7, <1>8 DEF RequestOK

(* A step that writes neither documents nor events: request r moves on.    *)
LEMMA MoveIntakeInv ==
  ASSUME IntakeInv, NEW r \in IntakeRequests,
         \/ \E m \in Mails, known \in BOOLEAN : Receive(r, m, known)
         \/ SkipFile(r)
         \/ Answer(r)
         \/ DieInIntake(r)
  PROVE  IntakeInv'
  <1> USE DEF IntakeInv
  <1>2. UNCHANGED <<documents, events, current>>
    BY DEF Receive, SkipFile, Answer, DieInIntake
  <1>0. /\ \A d : Linked(d)' <=> Linked(d)
        /\ \A d : Bare(d)' <=> Bare(d)
    BY <1>2 DEF Linked, Bare
  <1>1. IntakeTypeOK'
    <2>1. intakePc' \in [IntakeRequests -> IntakePcs]
      BY DEF IntakeTypeOK, IntakePcs, Receive, SkipFile, Answer, DieInIntake
    <2>2. mail' \in [IntakeRequests -> Seq(Files)]
      BY IntakeAssumption DEF IntakeTypeOK, Receive, SkipFile, Answer, DieInIntake
    <2>3. position' \in [IntakeRequests -> Nat \ {0}]
      <3>1. position \in [IntakeRequests -> Nat \ {0}] /\ position[r] + 1 \in Nat \ {0}
        BY DEF IntakeTypeOK
      <3>2. position' = position \/ position' = [position EXCEPT ![r] = position[r] + 1]
        BY DEF Receive, SkipFile, Answer, DieInIntake
      <3>3. QED
        BY <3>1, <3>2
    <2>4. route' \in [IntakeRequests -> BOOLEAN]
      BY DEF IntakeTypeOK, Receive, SkipFile, Answer, DieInIntake
    <2>5. QED
      BY <1>2, <2>1, <2>2, <2>3, <2>4 DEF IntakeTypeOK
  <1>3. ASSUME NEW u \in IntakeRequests, u # r PROVE RequestOK(u)'
    <2>1. /\ intakePc'[u] = intakePc[u] /\ mail'[u] = mail[u] /\ position'[u] = position[u]
          /\ route'[u] = route[u]
      BY <1>3 DEF IntakeTypeOK, Receive, SkipFile, Answer, DieInIntake
    <2>2. QED
      BY <1>0, <1>2, <2>1, RequestStays, IntakeRows DEF RequestsInv
  <1>4. RequestOK(r)'
    <2>0. RequestOK(r)
      BY DEF RequestsInv
    <2>1. OnePerFile(r)'
      BY <1>2, <2>0 DEF RequestOK, OnePerFile
    <2>2. ASSUME intakePc'[r] # "died", intakePc[r] # "died",
                 ~AtADocument(r), \A k \in Nat : Taken(r, k)' <=> Taken(r, k)
          PROVE  TakenHasDocument(r)' /\ DocumentWasTaken(r)'
      BY <1>0, <1>2, <2>0, <2>2, IntakeRows DEF RequestOK, TakenHasDocument, DocumentWasTaken
    <2>3. CASE \E m \in Mails, known \in BOOLEAN : Receive(r, m, known)
      <3>1. /\ intakePc[r] = "idle" /\ position'[r] = position[r]
            /\ intakePc'[r] = IF route'[r] THEN "files" ELSE "answered"
        BY <2>3 DEF Receive, IntakeTypeOK
      <3>2. position[r] = 1
        BY <2>0, <3>1 DEF RequestOK, PlaceOK
      <3>3. \A k \in Nat : ~Taken(r, k) /\ ~Taken(r, k)'
        <4>1. Len(mail[r]) \in Nat /\ Len(mail'[r]) \in Nat
          BY <1>1 DEF IntakeTypeOK
        <4>2. QED
          BY <3>1, <3>2, <4>1 DEF Taken, AtADocument
      <3>4. PlaceOK(r)'
        BY <3>1, <3>2 DEF PlaceOK, AtADocument
      <3>5. QED
        BY <2>1, <2>2, <3>1, <3>3, <3>4 DEF RequestOK, AtADocument
    <2>4. CASE SkipFile(r)
      <3>1. /\ intakePc[r] = "files" /\ position[r] <= Len(mail[r]) /\ mail[r][position[r]] # "bill"
            /\ intakePc' = intakePc /\ mail' = mail /\ position'[r] = position[r] + 1
            /\ route' = route
        BY <2>4 DEF SkipFile, MoreFiles, Acceptable, Here, IntakeTypeOK
      <3>2. \A k \in Nat : Taken(r, k)' <=> Taken(r, k)
        BY <3>1, IntakeRows DEF Taken, AtADocument
      <3>3. PlaceOK(r)'
        BY <2>0, <3>1 DEF RequestOK, PlaceOK, AtADocument
      <3>4. QED
        BY <2>1, <2>2, <3>1, <3>2, <3>3 DEF RequestOK, AtADocument
    <2>5. CASE Answer(r) \/ DieInIntake(r)
      <3>1. /\ mail' = mail /\ position' = position /\ route' = route
            /\ intakePc[r] \in {"files", "stored", "emitted"} /\ intakePc'[r] \in {"answered", "died"}
            /\ intakePc'[r] = "answered" => intakePc[r] = "files" /\ position[r] > Len(mail[r])
        BY <2>5 DEF Answer, DieInIntake, IntakeTypeOK
      <3>2. intakePc'[r] = "answered" => \A k \in Nat : Taken(r, k)' <=> Taken(r, k)
        BY <3>1 DEF Taken, AtADocument
      <3>3. PlaceOK(r)'
        BY <2>0, <3>1 DEF RequestOK, PlaceOK, AtADocument
      <3>4. QED
        BY <2>1, <2>2, <3>1, <3>2, <3>3 DEF RequestOK, AtADocument
    <2>6. QED
      BY <2>3, <2>4, <2>5
  <1>5. EventsInv'
    <2>1. \A u \in IntakeRequests :
             /\ intakePc'[u] \in {"stored", "emitted"} => intakePc'[u] = intakePc[u]
             /\ intakePc[u] \in {"emitted", "died"} => intakePc'[u] \in {intakePc[u], "died"}
      BY DEF IntakeTypeOK, Receive, SkipFile, MoreFiles, Answer, DieInIntake
    <2>2. EventsTrue'
      <3> SUFFICES ASSUME NEW e \in 1 .. Len(events) PROVE EventTrue(e)'
        BY <1>2 DEF EventsTrue
      <3>1. EventTrue(e)
        BY DEF EventsInv, EventsTrue
      <3>2. documents[events[e].document].by \in IntakeRequests
        BY <3>1, IntakeRows DEF EventTrue
      <3>3. QED
        BY <1>2, <2>1, <3>1, <3>2 DEF EventTrue
    <2>3. EventsOfRequests'
      BY <1>2, <2>1 DEF EventsInv, EventsOfRequests
    <2>4. QED
      BY <1>0, <1>2, <2>2, <2>3 DEF EventsInv, OneEventEach
  <1>6. QED
    BY <1>1, <1>3, <1>4, <1>5 DEF RequestsInv

LEMMA StoreIntakeInv ==
  ASSUME IntakeInv, NEW r \in IntakeRequests, StoreDocument(r)
  PROVE  IntakeInv'
  <1> USE DEF IntakeInv
  <1> PICK n \in Nat : n = Len(documents) + 1
    BY IntakeRows
  <1> DEFINE row == [by |-> r, file |-> position[r], chain |-> NoChain, busEvent |-> 0]
  <1>1. /\ documents' = Append(documents, row)
        /\ intakePc[r] = "files" /\ position[r] <= Len(mail[r]) /\ mail[r][position[r]] = "bill"
        /\ intakePc' = [intakePc EXCEPT ![r] = "stored"]
        /\ current' = [current EXCEPT ![r] = n]
        /\ UNCHANGED <<events, mail, position, route>>
    BY DEF StoreDocument, MoreFiles, Acceptable, Here
  <1>2. /\ row \in DocumentRow
        /\ row.by = r /\ row.file = position[r] /\ row.chain = NoChain /\ row.busEvent = 0
        /\ NoChain = 0
    BY IntakeRows DEF NoChain, DocumentRow
  <1> HIDE DEF row
  <1>3. /\ documents' \in Seq(DocumentRow)
        /\ Len(documents') = n
        /\ \A d \in 1 .. Len(documents) : documents'[d] = documents[d]
        /\ documents'[n] = row
    BY <1>1, <1>2, AppendProperties DEF IntakeTypeOK
  <1>4. /\ n \in Nat /\ n \notin 1 .. Len(documents) /\ Len(documents) <= n
        /\ 1 .. n = (1 .. Len(documents)) \cup {n}
    BY IntakeRows
  <1>5. IntakeTypeOK'
    BY <1>1, <1>3, <1>4 DEF IntakeTypeOK, IntakePcs
  <1>6. \A d \in 1 .. Len(documents) : (Linked(d)' <=> Linked(d)) /\ (Bare(d)' <=> Bare(d))
    BY <1>1, <1>3 DEF Linked, Bare
  <1>7. Bare(n)'
    BY <1>2, <1>3 DEF Bare
  <1>8. \A u \in IntakeRequests :
           /\ intakePc'[u] = IF u = r THEN "stored" ELSE intakePc[u]
           /\ current'[u] = IF u = r THEN n ELSE current[u]
    BY <1>1 DEF IntakeTypeOK
  <1>9. ASSUME NEW u \in IntakeRequests, u # r PROVE RequestOK(u)'
    BY <1>1, <1>2, <1>3, <1>4, <1>6, <1>8, <1>9, RequestStays DEF RequestsInv
  <1>10. RequestOK(r)'
    <2>1. RequestOK(r) /\ position[r] \in 1 .. Len(mail[r]) /\ AtADocument(r)' /\ ~AtADocument(r)
      BY <1>1, <1>8, IntakeRows DEF RequestsInv, AtADocument
    <2>2. \A k \in Nat : Taken(r, k)' <=> Taken(r, k) \/ k = position[r]
      BY <1>1, <2>1, IntakeRows DEF Taken
    <2>3. ~Taken(r, position[r]) /\ position[r] \in Nat
      BY <2>1, IntakeRows DEF Taken
    <2>4. PlaceOK(r)'
      BY <1>1, <1>2, <1>3, <1>4, <1>7, <1>8, <2>1 DEF RequestOK, PlaceOK
    <2>5. TakenHasDocument(r)'
      BY <1>1, <1>2, <1>3, <1>4, <2>1, <2>2 DEF RequestOK, TakenHasDocument
    <2>6. ASSUME NEW d \in 1 .. n, documents'[d].by = r
          PROVE  /\ documents'[d].file \in Nat
                 /\ \A k \in Nat : k = documents'[d].file => Taken(r, k)'
                 /\ Linked(d)' \/ d = n
      <3>1. CASE d = n
        BY <1>2, <1>3, <2>2, <2>3, <3>1
      <3>2. CASE d # n
        <4>1. d \in 1 .. Len(documents) /\ documents[d].by = r /\ documents[d].file \in Nat
          BY <1>3, <1>4, <2>6, <3>2, IntakeRows
        <4>2. Taken(r, documents[d].file) /\ Linked(d)
          BY <1>1, <2>1, <4>1 DEF RequestOK, DocumentWasTaken
        <4>3. QED
          BY <1>3, <1>6, <2>2, <4>1, <4>2
      <3>3. QED
        BY <3>1, <3>2
    <2>7. DocumentWasTaken(r)'
      BY <1>3, <1>8, <2>1, <2>6 DEF DocumentWasTaken
    <2>8. ASSUME NEW d \in 1 .. Len(documents), documents[d].by = r
          PROVE  documents[d].file # position[r]
      BY <1>1, <2>1, <2>3, <2>8 DEF RequestOK, DocumentWasTaken
    <2>9. OnePerFile(r)'
      <3> SUFFICES ASSUME NEW c \in 1 .. n, NEW d \in 1 .. n, documents'[c].by = r,
                          documents'[d].by = r, documents'[c].file = documents'[d].file
                   PROVE  c = d
        BY <1>3 DEF OnePerFile
      <3>1. c = n <=> d = n
        BY <1>2, <1>3, <1>4, <2>8
      <3>2. QED
        BY <1>3, <1>4, <2>1, <3>1 DEF RequestOK, OnePerFile
    <2>10. QED
      BY <2>4, <2>5, <2>7, <2>9 DEF RequestOK
  <1>11. EventsInv'
    <2>1. \A e \in 1 .. Len(events) : /\ events[e].document \in 1 .. Len(documents)
                                      /\ events[e].document # n
      BY <1>4 DEF EventsInv, EventsTrue, EventTrue
    <2>2. EventsTrue'
      <3> SUFFICES ASSUME NEW e \in 1 .. Len(events)
                   PROVE  EventTrue(e)'
        BY <1>1 DEF EventsTrue
      <3>1. EventTrue(e)
        BY DEF EventsInv, EventsTrue
      <3> DEFINE d == events[e].document
      <3>2. /\ d \in 1 .. Len(documents) /\ documents'[d] = documents[d]
            /\ documents[d].by \in IntakeRequests
        BY <1>3, <2>1, IntakeRows
      <3>3. QED
        BY <1>1, <1>3, <1>4, <1>8, <3>1, <3>2 DEF EventTrue
    <2>3. EventsOfRequests'
      BY <1>1, <1>8, <2>1 DEF EventsInv, EventsOfRequests
    <2>4. \A d \in 1 .. Len(documents') : Linked(d)' \/ Bare(d)'
      BY <1>3, <1>4, <1>6, <1>7 DEF EventsInv
    <2>5. QED
      BY <1>1, <2>2, <2>3, <2>4 DEF EventsInv, OneEventEach
  <1>12. QED
    BY <1>5, <1>9, <1>10, <1>11 DEF RequestsInv

LEMMA EmitIntakeInv ==
  ASSUME IntakeInv, NEW r \in IntakeRequests, CreateEvent(r)
  PROVE  IntakeInv'
  <1> USE DEF IntakeInv
  <1> PICK n \in Nat : n = Len(events) + 1
    BY IntakeRows
  <1> DEFINE row == [document |-> current[r], chain |-> n]
  <1>1. /\ events' = Append(events, row)
        /\ intakePc[r] = "stored"
        /\ intakePc' = [intakePc EXCEPT ![r] = "emitted"]
        /\ UNCHANGED <<documents, mail, position, current, route>>
    BY DEF CreateEvent
  <1>2. row \in EventRow /\ row.document = current[r] /\ row.chain = n
    BY IntakeRows DEF EventRow, IntakeTypeOK
  <1> HIDE DEF row
  <1>3. /\ events' \in Seq(EventRow)
        /\ Len(events') = n
        /\ \A e \in 1 .. Len(events) : events'[e] = events[e]
        /\ events'[n] = row
    BY <1>1, <1>2, AppendProperties DEF IntakeTypeOK
  <1>4. /\ n \in Nat /\ n # 0 /\ n \notin 1 .. Len(events) /\ 1 .. n = (1 .. Len(events)) \cup {n}
    BY IntakeRows
  <1>5. IntakeTypeOK'
    BY <1>1, <1>3 DEF IntakeTypeOK, IntakePcs
  <1>6. \A d : (Linked(d) => Linked(d)') /\ (Bare(d) <=> Bare(d)')
    BY <1>1, <1>3, <1>4 DEF Linked, Bare
  <1>7. \A u \in IntakeRequests : intakePc'[u] = IF u = r THEN "emitted" ELSE intakePc[u]
    BY <1>1 DEF IntakeTypeOK
  <1>8. RequestsInv'
    BY <1>1, <1>6, <1>7, RequestStays, IntakeRows DEF RequestsInv
  <1>9. EventsInv'
    <2>1. /\ current[r] \in 1 .. Len(documents) /\ documents[current[r]].by = r
          /\ \A e \in 1 .. Len(events) : events[e].document # current[r]
      BY <1>1 DEF RequestsInv, RequestOK, PlaceOK, AtADocument, EventsInv, EventsOfRequests
    <2>2. EventsTrue'
      <3> SUFFICES ASSUME NEW e \in 1 .. n
                   PROVE  EventTrue(e)'
        BY <1>3 DEF EventsTrue
      <3>1. CASE e = n
        BY <1>1, <1>2, <1>3, <1>7, <2>1, <3>1 DEF EventTrue
      <3>2. CASE e # n
        <4>1. EventTrue(e) /\ events'[e] = events[e]
          BY <1>3, <1>4, <3>2 DEF EventsInv, EventsTrue
        <4>2. documents[events[e].document].by \in IntakeRequests
          BY <4>1, IntakeRows DEF EventTrue
        <4>3. QED
          BY <1>1, <1>7, <4>1, <4>2 DEF EventTrue
      <3>3. QED
        BY <3>1, <3>2
    <2>3. OneEventEach'
      BY <1>1, <1>2, <1>3, <1>4, <2>1 DEF EventsInv, OneEventEach
    <2>4. EventsOfRequests'
      <3> SUFFICES ASSUME NEW u \in IntakeRequests
                   PROVE  /\ intakePc'[u] = "stored" =>
                                \A e \in 1 .. n : events'[e].document # current[u]
                          /\ intakePc'[u] = "emitted" =>
                                \E e \in 1 .. n : events'[e].document = current[u]
        BY <1>1, <1>3 DEF EventsOfRequests
      <3>1. CASE u = r
        BY <1>2, <1>3, <1>4, <1>7, <3>1
      <3>2. CASE u # r
        <4>1. intakePc[u] = "stored" => current[u] # current[r]
          BY <2>1, <3>2 DEF RequestsInv, RequestOK, PlaceOK, AtADocument
        <4>2. QED
          BY <1>2, <1>3, <1>4, <1>7, <3>2, <4>1 DEF EventsInv, EventsOfRequests
      <3>3. QED
        BY <3>1, <3>2
    <2>5. QED
      BY <1>1, <1>6, <2>2, <2>3, <2>4 DEF EventsInv
  <1>10. QED
    BY <1>5, <1>8, <1>9

LEMMA LinkIntakeInv ==
  ASSUME IntakeInv, NEW r \in IntakeRequests, LinkDocument(r)
  PROVE  IntakeInv'
  <1> USE DEF IntakeInv
  <1> PICK c \in Nat : c = current[r]
    BY DEF IntakeTypeOK
  <1> DEFINE e == EventOf(r)
             row == [documents[c] EXCEPT !.chain = events[e].chain, !.busEvent = e]
  <1>1. /\ RequestOK(r) /\ intakePc[r] = "emitted" /\ AtADocument(r)
        /\ c \in 1 .. Len(documents) /\ documents[c].by = r /\ documents[c].file = position[r]
        /\ position[r] \in 1 .. Len(mail[r]) /\ mail[r][position[r]] = "bill" /\ route[r]
    BY DEF LinkDocument, RequestsInv, RequestOK, PlaceOK, AtADocument
  <1>2. /\ e \in 1 .. Len(events) /\ events[e].document = c /\ events[e].chain = e /\ e \in Nat
    <2>1. \E f \in DOMAIN events : events[f].document = current[r]
      BY <1>1, IntakeRows DEF EventsInv, EventsOfRequests
    <2>2. e \in DOMAIN events /\ events[e].document = current[r]
      BY <2>1 DEF EventOf
    <2>3. QED
      BY <2>2, IntakeRows DEF EventsInv, EventsTrue, EventTrue
  <1>3. /\ documents' = [documents EXCEPT ![c] = row]
        /\ position' = [position EXCEPT ![r] = position[r] + 1]
        /\ intakePc' = [intakePc EXCEPT ![r] = "files"]
        /\ UNCHANGED <<events, mail, current, route>>
    BY <1>1, IntakeRows DEF LinkDocument, IntakeTypeOK
  <1>4. /\ row \in DocumentRow
        /\ row.by = r /\ row.file = position[r] /\ row.chain = e /\ row.busEvent = e
    <2>1. documents[c] \in DocumentRow
      BY <1>1, IntakeRows
    <2>2. QED
      BY <1>1, <1>2, <2>1 DEF DocumentRow
  <1> HIDE DEF row, e
  <1>5. /\ documents' \in Seq(DocumentRow)
        /\ Len(documents') = Len(documents)
        /\ \A d \in 1 .. Len(documents) : documents'[d] = IF d = c THEN row ELSE documents[d]
    BY <1>1, <1>3, <1>4, ExceptSeq DEF IntakeTypeOK
  <1>6. IntakeTypeOK'
    BY <1>3, <1>5 DEF IntakeTypeOK, IntakePcs
  <1>7. /\ Linked(c)'
        /\ \A d \in 1 .. Len(documents) : d # c => (Linked(d)' <=> Linked(d)) /\ (Bare(d)' <=> Bare(d))
        /\ \A d \in 1 .. Len(documents) : /\ documents'[d].by = documents[d].by
                                          /\ documents'[d].file = documents[d].file
    BY <1>1, <1>2, <1>3, <1>4, <1>5 DEF Linked, Bare
  <1>8. \A u \in IntakeRequests : intakePc'[u] = IF u = r THEN "files" ELSE intakePc[u]
    BY <1>3 DEF IntakeTypeOK
  <1>9. ASSUME NEW u \in IntakeRequests, u # r PROVE RequestOK(u)'
    <2>1. intakePc'[u] = intakePc[u] /\ position'[u] = position[u]
      BY <1>3, <1>9 DEF IntakeTypeOK
    <2>2. Len(documents) \in Nat
      BY IntakeRows
    <2>3. QED
      BY <1>1, <1>3, <1>5, <1>7, <1>9, <2>1, <2>2, RequestStays DEF RequestsInv
  <1>10. RequestOK(r)'
    <2>1. intakePc'[r] = "files" /\ position'[r] = position[r] + 1 /\ ~AtADocument(r)'
      BY <1>3, <1>8 DEF AtADocument, IntakeTypeOK
    <2>2. \A k \in Nat : Taken(r, k)' <=> Taken(r, k)
      BY <1>1, <1>3, <2>1, IntakeRows DEF Taken
    <2>3. PlaceOK(r)'
      BY <1>1, <1>3, <2>1 DEF PlaceOK
    <2>4. TakenHasDocument(r)'
      BY <1>1, <1>5, <1>7, <2>2 DEF RequestOK, TakenHasDocument
    <2>5. DocumentWasTaken(r)'
      <3> SUFFICES ASSUME NEW d \in 1 .. Len(documents), documents[d].by = r
                   PROVE  Linked(d)' /\ \A k \in Nat : k = documents[d].file => Taken(r, k)'
        BY <1>5, <1>7, IntakeRows DEF DocumentWasTaken
      <3>1. Taken(r, documents[d].file) /\ (Linked(d) \/ d = c)
        BY <1>1 DEF RequestOK, DocumentWasTaken
      <3>2. QED
        BY <1>7, <2>2, <3>1
    <2>6. OnePerFile(r)'
      BY <1>1, <1>5, <1>7 DEF RequestOK, OnePerFile
    <2>7. QED
      BY <2>3, <2>4, <2>5, <2>6 DEF RequestOK
  <1>11. EventsInv'
    <2>1. \A f \in 1 .. Len(events) : events[f].document = c => f = e
      BY <1>2 DEF EventsInv, OneEventEach
    <2>2. EventsTrue'
      <3> SUFFICES ASSUME NEW f \in 1 .. Len(events)
                   PROVE  EventTrue(f)'
        BY <1>3 DEF EventsTrue
      <3> DEFINE d == events[f].document
                 u == documents[d].by
      <3>1. /\ EventTrue(f) /\ d \in 1 .. Len(documents)
            /\ u \in IntakeRequests /\ documents'[d].by = u
        BY <1>7, IntakeRows DEF EventsInv, EventsTrue, EventTrue
      <3>2. CASE d = c
        BY <1>3, <1>4, <1>5, <2>1, <3>1, <3>2 DEF EventTrue
      <3>3. CASE d # c
        <4>1. documents'[d] = documents[d] /\ (u = r => current[u] # d)
          BY <1>5, <3>1, <3>3
        <4>2. u = r => documents[d].busEvent = f
          BY <1>1, <3>1, <4>1 DEF EventTrue
        <4>3. QED
          BY <1>3, <1>5, <1>8, <3>1, <4>1, <4>2 DEF EventTrue
      <3>4. QED
        BY <3>2, <3>3
    <2>3. EventsOfRequests'
      BY <1>3, <1>8 DEF EventsInv, EventsOfRequests
    <2>4. \A d \in 1 .. Len(documents') : Linked(d)' \/ Bare(d)'
      BY <1>5, <1>7 DEF EventsInv
    <2>5. QED
      BY <1>3, <2>2, <2>3, <2>4 DEF EventsInv, OneEventEach
  <1>12. QED
    BY <1>6, <1>9, <1>10, <1>11 DEF RequestsInv

LEMMA IntakeComplete == IntakeInv => AnsweredIsComplete
  <1> SUFFICES ASSUME IntakeInv, NEW r \in IntakeRequests, intakePc[r] = "answered"
               PROVE  LET own == {d \in DOMAIN documents : documents[d].by = r}
                          wanted == {k \in DOMAIN mail[r] : route[r] /\ mail[r][k] = "bill"}
                      IN /\ {documents[d].file : d \in own} = wanted
                         /\ Cardinality(own) = Cardinality(wanted)
                         /\ \A d \in own : /\ documents[d].busEvent # 0
                                           /\ events[documents[d].busEvent].document = d
                                           /\ events[documents[d].busEvent].chain = documents[d].chain
    BY DEF AnsweredIsComplete
  <1> DEFINE own == {d \in DOMAIN documents : documents[d].by = r}
             wanted == {k \in DOMAIN mail[r] : route[r] /\ mail[r][k] = "bill"}
             fileOf == [d \in own |-> documents[d].file]
  <1>1. /\ DOMAIN documents = 1 .. Len(documents) /\ DOMAIN mail[r] = 1 .. Len(mail[r])
        /\ Len(documents) \in Nat /\ Len(mail[r]) \in Nat /\ position[r] \in Nat
        /\ \A d \in 1 .. Len(documents) : documents[d].file \in Nat
    BY IntakeRows DEF IntakeInv
  <1>2. RequestOK(r) /\ ~AtADocument(r)
    BY DEF IntakeInv, RequestsInv, AtADocument
  <1>3. \A k \in Nat : Taken(r, k) <=> k \in wanted
    BY <1>1, <1>2 DEF Taken, RequestOK, PlaceOK, AtADocument
  <1>4. \A d \in own : Linked(d) /\ Taken(r, documents[d].file)
    BY <1>1, <1>2 DEF RequestOK, DocumentWasTaken
  <1>5. /\ \A d \in own : documents[d].file \in wanted
        /\ \A k \in wanted : \E d \in own : documents[d].file = k
    BY <1>1, <1>2, <1>3, <1>4 DEF RequestOK, TakenHasDocument
  <1>6. \A x, y \in own : documents[x].file = documents[y].file => x = y
    BY <1>1, <1>2 DEF RequestOK, OnePerFile
  <1>7. fileOf \in Bijection(own, wanted)
    <2>1. fileOf \in [own -> wanted]
      BY <1>5
    <2>2. QED
      BY <1>5, <1>6, <2>1, Fun_IsBij
  <1>8. IsFiniteSet(own)
    <2>1. own \subseteq 1 .. Len(documents) /\ IsFiniteSet(1 .. Len(documents))
      BY <1>1, FS_Interval
    <2>2. QED
      BY <2>1, FS_Subset
  <1>9. Cardinality(own) = Cardinality(wanted)
    BY <1>7, <1>8, FS_Bijection DEF ExistsBijection
  <1>10. \A d \in own : /\ documents[d].busEvent # 0
                        /\ events[documents[d].busEvent].document = d
                        /\ events[documents[d].busEvent].chain = documents[d].chain
    BY <1>4 DEF Linked
  <1>11. {documents[d].file : d \in own} = wanted
    BY <1>5
  <1>12. QED
    BY <1>9, <1>10, <1>11

(* ap_inbox and ap_email_webhook: whatever is sent, in whatever order the  *)
(* requests run and wherever they die, what an answered request took is    *)
(* there once, linked to its own event, in a chain of its own.             *)
THEOREM IntakeTakesWhatItAnswers == IntakeSpec => []IntakeIsComplete
  <1>1. IntakeInit => IntakeInv
    <2> SUFFICES ASSUME IntakeInit PROVE IntakeInv
      OBVIOUS
    <2>1. /\ documents = <<>> /\ events = <<>> /\ Len(documents) = 0 /\ Len(events) = 0
          /\ \A r \in IntakeRequests : /\ intakePc[r] = "idle" /\ mail[r] = <<>> /\ position[r] = 1
                                       /\ route[r] = FALSE /\ current[r] = 0 /\ Len(mail[r]) = 0
      BY DEF IntakeInit
    <2>2. IntakeTypeOK
      BY DEF IntakeInit, IntakeTypeOK, IntakePcs
    <2>3. RequestsInv
      BY <2>1 DEF RequestsInv, RequestOK, PlaceOK, TakenHasDocument, DocumentWasTaken, OnePerFile,
                   AtADocument, Taken
    <2>4. EventsInv
      BY <2>1 DEF EventsInv, EventsTrue, OneEventEach, EventsOfRequests
    <2>5. QED
      BY <2>2, <2>3, <2>4 DEF IntakeInv
  <1>2. IntakeInv /\ [IntakeNext]_intakeVars => IntakeInv'
    <2>1. ASSUME IntakeInv, UNCHANGED intakeVars PROVE IntakeInv'
      BY <2>1 DEF intakeVars, IntakeInv, IntakeTypeOK, RequestsInv, RequestOK, PlaceOK,
                  TakenHasDocument, DocumentWasTaken, OnePerFile, EventsInv, EventsTrue, EventTrue,
                  OneEventEach, EventsOfRequests, AtADocument, Taken, Linked, Bare
    <2>2. QED
      BY <2>1, MoveIntakeInv, StoreIntakeInv, EmitIntakeInv, LinkIntakeInv DEF IntakeNext
  <1>3. IntakeInv => ChainsLeadToOneBill
    <2> SUFFICES ASSUME IntakeInv PROVE ChainsLeadToOneBill
      OBVIOUS
    <2>1. DOMAIN documents = 1 .. Len(documents) /\ DOMAIN events = 1 .. Len(events)
      BY IntakeRows DEF IntakeInv
    <2>2. ASSUME NEW c \in 1 .. Len(documents), NEW d \in 1 .. Len(documents), c # d,
                 documents[c].chain # NoChain
          PROVE  documents[c].chain # documents[d].chain
      <3>1. Linked(c) /\ (Linked(d) \/ documents[d].chain = NoChain)
        BY <2>2 DEF IntakeInv, EventsInv, Bare
      <3>2. QED
        BY <2>2, <3>1 DEF Linked, IntakeInv, EventsInv, EventsTrue, EventTrue
    <2>3. QED
      BY <2>1, <2>2 DEF ChainsLeadToOneBill, IntakeInv, EventsInv, EventsTrue, EventTrue
  <1>4. QED
    BY <1>1, <1>2, <1>3, IntakeComplete, PTL DEF IntakeSpec, IntakeIsComplete

-----------------------------------------------------------------------------
(* What is computed one step after another: the recursive functions of     *)
(* Money and CandidateEntry.  Induction over the number of steps is the    *)
(* well-foundedness of < on the naturals.                                  *)

Less == {p \in Nat \X Nat : p[1] < p[2]}

LEMMA LessIsWellFounded == IsWellFoundedOn(Less, Nat)
  <1>1. OpToRel(<, Nat) = Less
    BY DEF OpToRel, Less
  <1>2. QED
    BY <1>1, NatLessThanWellFounded

(* A set with 0 and with every successor up to N of its members has all    *)
(* the numbers up to N.                                                    *)
LEMMA UpTo ==
  ASSUME NEW N \in Nat, NEW S, 0 \in S, \A n \in 0 .. N - 1 : n \in S => n + 1 \in S
  PROVE  \A n \in 0 .. N : n \in S
  <1> DEFINE T == {n \in 0 .. N : n \notin S}
  <1> SUFFICES ASSUME T # {} PROVE FALSE
    OBVIOUS
  <1>1. PICK x \in T : \A y \in T : ~ (<<y, x>> \in Less)
    <2>1. T \subseteq Nat
      OBVIOUS
    <2> HIDE DEF T
    <2>2. QED
      BY <2>1, LessIsWellFounded, WFMin
  <1>2. x # 0 /\ x \in 0 .. N
    OBVIOUS
  <1>3. x - 1 \in 0 .. N - 1 /\ x - 1 \notin S
    BY <1>2
  <1>4. <<x - 1, x>> \in Less
    BY <1>2 DEF Less
  <1>5. QED
    BY <1>1, <1>3, <1>4

StaysIn(step, N, V) == \A n \in 1 .. N : \A x \in V : step[n][x] \in V
Follows(f, step, N, v) == f[0] = v /\ \A n \in 1 .. N : f[n] = step[n][f[n - 1]]

(* From a value in V and N steps that stay in V there is the function of   *)
(* all the values on the way.                                              *)
LEMMA Recursion ==
  ASSUME NEW N \in Nat, NEW V, NEW v \in V, NEW step, StaysIn(step, N, V)
  PROVE  \E f \in [0 .. N -> V] : Follows(f, step, N, v)
  <1> USE DEF StaysIn, Follows
  <1> DEFINE Is(f, m) == Follows(f, step, m, v)
             S == {m \in 0 .. N : \E f \in [0 .. m -> V] : Is(f, m)}
  <1>1. 0 \in S
    <2> DEFINE f == [n \in 0 .. 0 |-> v]
    <2>1. f \in [0 .. 0 -> V] /\ Is(f, 0)
      OBVIOUS
    <2> HIDE DEF f
    <2>2. QED
      BY <2>1
  <1>2. ASSUME NEW m \in 0 .. N - 1, m \in S
        PROVE  m + 1 \in S
    <2>1. PICK f \in [0 .. m -> V] : Is(f, m)
      BY <1>2
    <2> DEFINE g == [n \in 0 .. m + 1 |-> IF n = m + 1 THEN step[m + 1][f[m]] ELSE f[n]]
    <2>2. step[m + 1][f[m]] \in V
      <3>1. m + 1 \in 1 .. N /\ f[m] \in V
        OBVIOUS
      <3>2. QED
        BY <3>1
    <2>3. g \in [0 .. m + 1 -> V]
      BY <2>2
    <2>4. ASSUME NEW n \in 1 .. m + 1
          PROVE  g[n] = step[n][g[n - 1]]
      <3>1. CASE n = m + 1
        BY <3>1
      <3>2. CASE n # m + 1
        <4>1. n \in 1 .. m /\ g[n] = f[n] /\ g[n - 1] = f[n - 1]
          BY <3>2
        <4>2. f[n] = step[n][f[n - 1]]
          BY <2>1, <4>1
        <4>3. QED
          BY <4>1, <4>2
      <3>3. QED
        BY <3>1, <3>2
    <2>5. g[0] = v
      BY <2>1
    <2>6. Is(g, m + 1)
      BY <2>4, <2>5
    <2>7. m + 1 \in 0 .. N
      OBVIOUS
    <2> HIDE DEF g, Is
    <2>8. QED
      BY <2>3, <2>6, <2>7
  <1>3. N \in S
    <2>1. \A m \in 0 .. N - 1 : m \in S => m + 1 \in S
      BY <1>2
    <2> HIDE DEF S
    <2>2. \A m \in 0 .. N : m \in S
      BY <1>1, <2>1, UpTo
    <2>3. QED
      BY <2>2
  <1>4. QED
    BY <1>3

SameSteps(f, g, N) == /\ f[0] = g[0]
                      /\ \A n \in 1 .. N : f[n - 1] = g[n - 1] => f[n] = g[n]

(* There is only one such function. *)
LEMMA OneRun ==
  ASSUME NEW N \in Nat, NEW f, NEW g, SameSteps(f, g, N)
  PROVE  \A n \in 0 .. N : f[n] = g[n]
  <1> USE DEF SameSteps
  <1> DEFINE S == {n \in 0 .. N : f[n] = g[n]}
  <1>1. 0 \in S
    OBVIOUS
  <1>2. ASSUME NEW n \in 0 .. N - 1, n \in S PROVE n + 1 \in S
    <2>1. n + 1 \in 1 .. N /\ (n + 1) - 1 = n
      OBVIOUS
    <2>2. QED
      BY <1>2, <2>1
  <1>3. \A n \in 0 .. N - 1 : n \in S => n + 1 \in S
    BY <1>2
  <1>4. \A n \in 0 .. N : n \in S
    <2> HIDE DEF S
    <2>1. QED
      BY <1>1, <1>3, UpTo
  <1>5. QED
    BY <1>4

(* SumSeq(s) is the last of the partial sums of s. *)
LEMMA SumIs ==
  ASSUME NEW s \in Seq(Int)
  PROVE  \E f \in [0 .. Len(s) -> Int] :
            /\ f[0] = 0
            /\ \A n \in 1 .. Len(s) : f[n] = f[n - 1] + s[n]
            /\ SumSeq(s) = f[Len(s)]
  <1> DEFINE N == Len(s)
             step == [n \in 1 .. N |-> [x \in Int |-> x + s[n]]]
             Is(f) == f = [n \in 0 .. N |-> IF n = 0 THEN 0 ELSE f[n - 1] + s[n]]
             sum == CHOOSE f : Is(f)
  <1>1. N \in Nat /\ 0 \in Int
    OBVIOUS
  <1>2. \A n \in 1 .. N : \A x \in Int : step[n][x] = x + s[n] /\ step[n][x] \in Int
    OBVIOUS
  <1>3. PICK f \in [0 .. N -> Int] : f[0] = 0 /\ \A n \in 1 .. N : f[n] = step[n][f[n - 1]]
    <2>1. StaysIn(step, N, Int)
      BY <1>2 DEF StaysIn
    <2> HIDE DEF step, N
    <2>2. \E f \in [0 .. N -> Int] : Follows(f, step, N, 0)
      BY <1>1, <2>1, Recursion
    <2>3. QED
      BY <2>2 DEF Follows
  <1>4. Is(f)
    <2>1. ASSUME NEW n \in 0 .. N PROVE f[n] = IF n = 0 THEN 0 ELSE f[n - 1] + s[n]
      <3>1. n # 0 => n \in 1 .. N /\ n - 1 \in 0 .. N
        OBVIOUS
      <3> HIDE DEF step, N
      <3>2. QED
        BY <1>2, <1>3, <3>1
    <2>2. QED
      BY <2>1
  <1>5. Is(sum)
    BY <1>4
  <1>6. sum[N] = f[N]
    <2>1. ASSUME NEW n \in 1 .. N, sum[n - 1] = f[n - 1] PROVE sum[n] = f[n]
      <3>1. n \in 0 .. N /\ n # 0
        OBVIOUS
      <3> HIDE DEF sum
      <3>2. sum[n] = sum[n - 1] + s[n] /\ f[n] = f[n - 1] + s[n]
        BY <1>4, <1>5, <3>1
      <3>3. QED
        BY <2>1, <3>2
    <2>2. sum[0] = 0
      <3> HIDE DEF sum
      <3>1. QED
        BY <1>5
    <2>3. SameSteps(sum, f, N)
      <3> HIDE DEF sum
      <3>1. QED
        BY <1>3, <2>1, <2>2 DEF SameSteps
    <2> HIDE DEF sum, step, N
    <2>4. \A n \in 0 .. N : sum[n] = f[n]
      BY <1>1, <2>3, OneRun
    <2>5. QED
      BY <1>1, <2>4
  <1>7. SumSeq(s) = sum[N]
    BY DEF SumSeq
  <1>8. \A n \in 1 .. N : f[n] = f[n - 1] + s[n]
    BY <1>4
  <1> HIDE DEF sum, Is, step
  <1>9. QED
    BY <1>3, <1>6, <1>7, <1>8

LEMMA SumInt ==
  ASSUME NEW s \in Seq(Int)
  PROVE  SumSeq(s) \in Int
  <1>1. Len(s) \in 0 .. Len(s)
    OBVIOUS
  <1>2. QED
    BY <1>1, SumIs

LEMMA SumEmpty == SumSeq(<<>>) = 0
  <1>1. <<>> \in Seq(Int) /\ Len(<<>>) = 0
    OBVIOUS
  <1>2. QED
    BY <1>1, SumIs

(* Sums of amounts that are not negative are not negative, and are at      *)
(* least the length when the amounts are positive.                         *)
LEMMA SumAtLeast ==
  ASSUME NEW s \in Seq(Int), NEW c \in {0, 1}, \A n \in DOMAIN s : s[n] >= c
  PROVE  SumSeq(s) >= c * Len(s)
  <1>1. PICK f \in [0 .. Len(s) -> Int] :
            /\ f[0] = 0
            /\ \A n \in 1 .. Len(s) : f[n] = f[n - 1] + s[n]
            /\ SumSeq(s) = f[Len(s)]
    BY SumIs
  <1> DEFINE S == {n \in 0 .. Len(s) : f[n] >= c * n}
  <1>2. Len(s) \in Nat
    OBVIOUS
  <1>3. 0 \in S
    BY <1>1
  <1>4. ASSUME NEW n \in 0 .. Len(s) - 1, n \in S PROVE n + 1 \in S
    <2>1. n + 1 \in 1 .. Len(s) /\ (n + 1) - 1 = n
      OBVIOUS
    <2>2. f[n + 1] = f[n] + s[n + 1] /\ f[n] \in Int /\ s[n + 1] \in Int /\ s[n + 1] >= c
      BY <1>1, <2>1
    <2>3. CASE c = 0
      BY <1>4, <2>1, <2>2, <2>3
    <2>4. CASE c = 1
      BY <1>4, <2>1, <2>2, <2>4
    <2>5. QED
      BY <2>3, <2>4
  <1>5. \A n \in 0 .. Len(s) - 1 : n \in S => n + 1 \in S
    BY <1>4
  <1>6. \A n \in 0 .. Len(s) : n \in S
    <2> HIDE DEF S
    <2>1. QED
      BY <1>2, <1>3, <1>5, UpTo
  <1>7. QED
    BY <1>1, <1>2, <1>6

LEMMA SumConcat ==
  ASSUME NEW s \in Seq(Int), NEW t \in Seq(Int)
  PROVE  SumSeq(s \o t) = SumSeq(s) + SumSeq(t)
  <1>1. /\ s \o t \in Seq(Int) /\ Len(s \o t) = Len(s) + Len(t)
        /\ Len(s) \in Nat /\ Len(t) \in Nat
    OBVIOUS
  <1>2. PICK f \in [0 .. Len(s) -> Int] :
            /\ f[0] = 0
            /\ \A n \in 1 .. Len(s) : f[n] = f[n - 1] + s[n]
            /\ SumSeq(s) = f[Len(s)]
    BY SumIs
  <1>3. PICK g \in [0 .. Len(t) -> Int] :
            /\ g[0] = 0
            /\ \A n \in 1 .. Len(t) : g[n] = g[n - 1] + t[n]
            /\ SumSeq(t) = g[Len(t)]
    BY SumIs
  <1>4. PICK h \in [0 .. Len(s) + Len(t) -> Int] :
            /\ h[0] = 0
            /\ \A n \in 1 .. Len(s) + Len(t) : h[n] = h[n - 1] + (s \o t)[n]
            /\ SumSeq(s \o t) = h[Len(s) + Len(t)]
    BY <1>1, SumIs
  <1>5. h[Len(s)] = f[Len(s)]
    <2> DEFINE S == {n \in 0 .. Len(s) : h[n] = f[n]}
    <2>1. 0 \in S
      BY <1>2, <1>4
    <2>2. ASSUME NEW n \in 0 .. Len(s) - 1, n \in S PROVE n + 1 \in S
      <3>1. /\ n + 1 \in 1 .. Len(s) /\ (n + 1) - 1 = n
            /\ n + 1 \in 1 .. Len(s) + Len(t)
        BY <1>1
      <3> DEFINE m == n + 1
      <3>4. (s \o t)[m] = s[m]
        <4> HIDE DEF m
        <4>1. QED
          BY <3>1 DEF m
      <3>2. h[n + 1] = h[n] + s[n + 1] /\ f[n + 1] = f[n] + s[n + 1]
        BY <1>2, <1>4, <3>1, <3>4
      <3>3. QED
        BY <2>2, <3>1, <3>2
    <2>3. \A n \in 0 .. Len(s) - 1 : n \in S => n + 1 \in S
      BY <2>2
    <2>4. \A n \in 0 .. Len(s) : n \in S
      <3> HIDE DEF S
      <3>1. QED
        BY <1>1, <2>1, <2>3, UpTo
    <2>5. QED
      BY <1>1, <2>4
  <1>6. h[Len(s) + Len(t)] = f[Len(s)] + g[Len(t)]
    <2> DEFINE S == {n \in 0 .. Len(t) : h[Len(s) + n] = f[Len(s)] + g[n]}
    <2>1. 0 \in S
      <3>1. 0 \in 0 .. Len(t) /\ Len(s) + 0 = Len(s) /\ f[Len(s)] \in Int
        BY <1>1
      <3>2. f[Len(s)] + g[0] = f[Len(s)]
        BY <1>3, <3>1
      <3>3. QED
        BY <1>5, <3>1, <3>2
    <2>2. ASSUME NEW n \in 0 .. Len(t) - 1, n \in S PROVE n + 1 \in S
      <3>1. /\ n + 1 \in 1 .. Len(t) /\ (n + 1) - 1 = n
            /\ Len(s) + (n + 1) \in 1 .. Len(s) + Len(t)
            /\ (Len(s) + (n + 1)) - 1 = Len(s) + n
        BY <1>1
      <3>4. (s \o t)[Len(s) + (n + 1)] = t[n + 1]
        BY <1>1, <3>1
      <3>2. /\ h[Len(s) + (n + 1)] = h[Len(s) + n] + t[n + 1]
            /\ g[n + 1] = g[n] + t[n + 1]
        BY <1>3, <1>4, <3>1, <3>4
      <3>3. f[Len(s)] \in Int /\ g[n] \in Int /\ t[n + 1] \in Int
        <4>1. Len(s) \in 0 .. Len(s) /\ n \in 0 .. Len(t)
          BY <1>1, <3>1
        <4>2. QED
          BY <3>1, <4>1
      <3>5. QED
        BY <2>2, <3>1, <3>2, <3>3
    <2>3. \A n \in 0 .. Len(t) - 1 : n \in S => n + 1 \in S
      BY <2>2
    <2>4. \A n \in 0 .. Len(t) : n \in S
      <3> HIDE DEF S
      <3>1. QED
        BY <1>1, <2>1, <2>3, UpTo
    <2>5. QED
      BY <1>1, <2>4
  <1>7. QED
    BY <1>2, <1>3, <1>4, <1>6

LEMMA SumOne ==
  ASSUME NEW x \in Int
  PROVE  SumSeq(<<x>>) = x
  <1>1. <<x>> \in Seq(Int) /\ Len(<<x>>) = 1 /\ 1 \in 1 .. 1
    OBVIOUS
  <1>2. PICK f \in [0 .. 1 -> Int] :
            f[0] = 0 /\ (\A n \in 1 .. 1 : f[n] = f[n - 1] + <<x>>[n]) /\ SumSeq(<<x>>) = f[1]
    BY <1>1, SumIs
  <1>3. f[1] = f[1 - 1] + <<x>>[1]
    BY <1>1, <1>2
  <1>4. QED
    BY <1>2, <1>3

(* When every s[n] is within half of t[n]/10, the sums are as many halves  *)
(* apart as they have terms, at most.                                      *)
LEMMA SumNear ==
  ASSUME NEW s \in Seq(Int), NEW t \in Seq(Int), Len(s) = Len(t),
         \A n \in 1 .. Len(s) : 2 * (t[n] - 10 * s[n]) <= 10 /\ 2 * (10 * s[n] - t[n]) <= 10
  PROVE  /\ 2 * (SumSeq(t) - 10 * SumSeq(s)) <= 10 * Len(s)
         /\ 2 * (10 * SumSeq(s) - SumSeq(t)) <= 10 * Len(s)
  <1>1. PICK f \in [0 .. Len(s) -> Int] :
            /\ f[0] = 0
            /\ \A n \in 1 .. Len(s) : f[n] = f[n - 1] + s[n]
            /\ SumSeq(s) = f[Len(s)]
    BY SumIs
  <1>2. PICK g \in [0 .. Len(s) -> Int] :
            /\ g[0] = 0
            /\ \A n \in 1 .. Len(s) : g[n] = g[n - 1] + t[n]
            /\ SumSeq(t) = g[Len(s)]
    BY SumIs
  <1> DEFINE S == {n \in 0 .. Len(s) : /\ 2 * (g[n] - 10 * f[n]) <= 10 * n
                                       /\ 2 * (10 * f[n] - g[n]) <= 10 * n}
  <1>3. Len(s) \in Nat
    OBVIOUS
  <1>4. 0 \in S
    BY <1>1, <1>2
  <1>9. \A n \in 1 .. Len(s) : /\ s[n] \in Int /\ t[n] \in Int
                               /\ 2 * (t[n] - 10 * s[n]) <= 10 /\ 2 * (10 * s[n] - t[n]) <= 10
    <2>1. \A n \in 1 .. Len(s) : s[n] \in Int /\ t[n] \in Int
      OBVIOUS
    <2>2. QED
      BY <2>1
  <1>5. ASSUME NEW n \in 0 .. Len(s) - 1, n \in S PROVE n + 1 \in S
    <2>1. n + 1 \in 1 .. Len(s) /\ (n + 1) - 1 = n /\ n \in 0 .. Len(s) /\ n \in Int
      OBVIOUS
    <2>2. f[n + 1] = f[n] + s[n + 1] /\ g[n + 1] = g[n] + t[n + 1]
      BY <1>1, <1>2, <2>1
    <2>3. f[n] \in Int /\ g[n] \in Int
      BY <1>3, <2>1
    <2>4. /\ s[n + 1] \in Int /\ t[n + 1] \in Int
          /\ 2 * (t[n + 1] - 10 * s[n + 1]) <= 10 /\ 2 * (10 * s[n + 1] - t[n + 1]) <= 10
      BY <1>9, <2>1
    <2>5. 2 * (g[n] - 10 * f[n]) <= 10 * n /\ 2 * (10 * f[n] - g[n]) <= 10 * n
      BY <1>5
    <2>6. /\ 2 * ((g[n] + t[n + 1]) - 10 * (f[n] + s[n + 1])) <= 10 * (n + 1)
          /\ 2 * (10 * (f[n] + s[n + 1]) - (g[n] + t[n + 1])) <= 10 * (n + 1)
      <3>1. ASSUME NEW a \in Int, NEW b \in Int, NEW x \in Int, NEW y \in Int, NEW k \in Int,
                   2 * (a - 10 * b) <= 10 * k, 2 * (10 * b - a) <= 10 * k,
                   2 * (x - 10 * y) <= 10, 2 * (10 * y - x) <= 10
            PROVE  /\ 2 * ((a + x) - 10 * (b + y)) <= 10 * (k + 1)
                   /\ 2 * (10 * (b + y) - (a + x)) <= 10 * (k + 1)
        BY <3>1
      <3> HIDE DEF S
      <3>2. QED
        BY <2>1, <2>3, <2>4, <2>5, <3>1
    <2>7. QED
      BY <2>1, <2>2, <2>6
  <1>6. \A n \in 0 .. Len(s) - 1 : n \in S => n + 1 \in S
    BY <1>5
  <1>7. \A n \in 0 .. Len(s) : n \in S
    <2> HIDE DEF S
    <2>1. QED
      BY <1>3, <1>4, <1>6, UpTo
  <1>8. QED
    BY <1>1, <1>2, <1>3, <1>7

(* Rounding: to an integer, at most half away. *)
LEMMA QuantizeInt ==
  ASSUME NEW n \in Int
  PROVE  Quantize(n, 10) \in Int /\ Quantize(n, 100) \in Int /\ Quantize(n, 10000) \in Int
  BY DEF Quantize

LEMMA QuantizeNear ==
  ASSUME NEW n \in Int
  PROVE  2 * (n - 10 * Quantize(n, 10)) <= 10 /\ 2 * (10 * Quantize(n, 10) - n) <= 10
  <1> DEFINE q == n \div 10
             r == n % 10
  <1>1. n = 10 * q + r
    OBVIOUS
  <1>2. r \in 0 .. 9
    OBVIOUS
  <1>3. q \in Int
    OBVIOUS
  <1>4. Quantize(n, 10) = IF 2 * r < 10 \/ (2 * r = 10 /\ q % 2 = 0) THEN q ELSE q + 1
    BY DEF Quantize
  <1> HIDE DEF q, r
  <1>5. QED
    BY <1>1, <1>2, <1>3, <1>4

(* The elements of a concatenation. *)
LEMMA ConcatElements ==
  ASSUME NEW S, NEW s \in Seq(S), NEW t \in Seq(S)
  PROVE  /\ s \o t \in Seq(S)
         /\ Len(s) \in Nat /\ Len(t) \in Nat /\ Len(s \o t) = Len(s) + Len(t)
         /\ DOMAIN (s \o t) = 1 .. Len(s) + Len(t)
         /\ \A k \in 1 .. Len(s) : (s \o t)[k] = s[k]
         /\ \A k \in 1 .. Len(t) : (s \o t)[Len(s) + k] = t[k]
  <1>1. \A k \in 1 .. Len(t) : Len(s) + k \in Len(s) + 1 .. Len(s) + Len(t) /\ (Len(s) + k) - Len(s) = k
    OBVIOUS
  <1>2. QED
    BY <1>1

(* A property all elements of two sequences have. *)
LEMMA ConcatAllPositive ==
  ASSUME NEW s \in Seq(Int), NEW t \in Seq(Int)
  PROVE  (\A k \in DOMAIN (s \o t) : (s \o t)[k] > 0)
            <=> (\A k \in DOMAIN s : s[k] > 0) /\ (\A k \in DOMAIN t : t[k] > 0)
  <1>1. Len(s) \in Nat /\ Len(t) \in Nat /\ DOMAIN s = 1 .. Len(s) /\ DOMAIN t = 1 .. Len(t)
    OBVIOUS
  <1>2. /\ DOMAIN (s \o t) = 1 .. Len(s) + Len(t)
        /\ \A k \in 1 .. Len(s) : (s \o t)[k] = s[k]
        /\ \A k \in 1 .. Len(t) : (s \o t)[Len(s) + k] = t[k]
    BY ConcatElements
  <1> DEFINE u == s \o t
  <1>3. \A k \in 1 .. Len(s) : k \in DOMAIN u /\ u[k] = s[k]
    BY <1>1, <1>2
  <1>4. \A k \in 1 .. Len(t) : Len(s) + k \in DOMAIN u /\ u[Len(s) + k] = t[k]
    BY <1>1, <1>2
  <1>5. \A k \in DOMAIN u : \/ k \in 1 .. Len(s)
                            \/ k - Len(s) \in 1 .. Len(t) /\ k = Len(s) + (k - Len(s))
    BY <1>1, <1>2
  <1> HIDE DEF u
  <1>6. (\A k \in DOMAIN u : u[k] > 0)
           <=> (\A k \in 1 .. Len(s) : s[k] > 0) /\ (\A k \in 1 .. Len(t) : t[k] > 0)
    BY <1>3, <1>4, <1>5
  <1>7. QED
    BY <1>1, <1>6 DEF u

-----------------------------------------------------------------------------
(* DocumentAmounts. *)

DocLine == [quantity : Int, price : Int, rate : Int]

AmountsTypeOK == docLines \in Seq(DocLine) /\ withholding \in Int

LEMMA AmountsTypeInv == AmountsSpec => []AmountsTypeOK
  <1>1. AmountsInit => AmountsTypeOK
    BY DEF AmountsInit, AmountsTypeOK
  <1>2. AmountsTypeOK /\ [AmountsNext]_amountVars => AmountsTypeOK'
    <2> SUFFICES ASSUME AmountsTypeOK, [AmountsNext]_amountVars PROVE AmountsTypeOK'
      OBVIOUS
    <2>1. ASSUME NEW q \in Quantities, NEW p \in Prices, NEW r \in TaxRates, AddDocLine(q, p, r)
          PROVE  AmountsTypeOK'
      BY <2>1, AmountsAssumption DEF AmountsTypeOK, AddDocLine, DocLine
    <2>2. ASSUME NEW w \in WithholdingRates, SetWithholding(w) PROVE AmountsTypeOK'
      BY <2>2, AmountsAssumption DEF AmountsTypeOK, SetWithholding
    <2>3. CASE UNCHANGED amountVars
      BY <2>3 DEF AmountsTypeOK, amountVars
    <2>4. QED
      BY <2>1, <2>2, <2>3 DEF AmountsNext
  <1>3. QED
    BY <1>1, <1>2, PTL DEF AmountsSpec

LEMMA LineAmountsInt ==
  ASSUME AmountsTypeOK
  PROVE  /\ Len(docLines) \in Nat /\ DOMAIN docLines = 1 .. Len(docLines)
         /\ \A k \in 1 .. Len(docLines) : /\ AmountUntaxed(docLines[k]) \in Int
                                          /\ AmountTax(docLines[k]) \in Int
  <1>1. Len(docLines) \in Nat /\ DOMAIN docLines = 1 .. Len(docLines)
    BY DEF AmountsTypeOK
  <1>2. ASSUME NEW k \in 1 .. Len(docLines)
        PROVE  AmountUntaxed(docLines[k]) \in Int /\ AmountTax(docLines[k]) \in Int
    <2>1. docLines[k] \in DocLine
      BY DEF AmountsTypeOK
    <2>2. docLines[k].quantity * docLines[k].price \in Int /\ docLines[k].rate \in Int
      BY <2>1 DEF DocLine
    <2>3. \A m \in Int : Quantize(m, 100) \in Int /\ Quantize(m, 10000) \in Int
      BY DEF Quantize
    <2> DEFINE p == docLines[k].quantity * docLines[k].price
               q == AmountUntaxed(docLines[k]) * docLines[k].rate
    <2>4. AmountUntaxed(docLines[k]) = Quantize(p, 100) /\ AmountTax(docLines[k]) = Quantize(q, 10000)
      BY Zenon DEF AmountUntaxed, AmountTax
    <2>5. Quantize(p, 100) \in Int
      <3> HIDE DEF p
      <3>1. p \in Int
        BY <2>2 DEF p
      <3>2. QED
        BY <2>3, <3>1
    <2>6. q \in Int
      BY <2>2, <2>4, <2>5
    <2>7. Quantize(q, 10000) \in Int
      <3> HIDE DEF q
      <3>1. QED
        BY <2>3, <2>6
    <2>8. QED
      BY <2>4, <2>5, <2>7
  <1>3. QED
    BY <1>1, <1>2

(* The amounts a document is made of are integers and add up: the net and  *)
(* what is withheld to the total, and the total to the lines and the tax.  *)
LEMMA TotalsAddUp ==
  ASSUME AmountsTypeOK
  PROVE  /\ Subtotal \in Int /\ Tax \in Int /\ Total \in Int /\ Withheld \in Int /\ Net \in Int
         /\ Total = Subtotal + Tax
         /\ Total = Net + Withheld
  <1>1. Subtotal \in Int /\ Tax \in Int
    <2>1. /\ [k \in DOMAIN docLines |-> AmountUntaxed(docLines[k])] \in Seq(Int)
          /\ [k \in DOMAIN docLines |-> AmountTax(docLines[k])] \in Seq(Int)
      BY LineAmountsInt
    <2>2. QED
      BY <2>1, SumInt DEF Subtotal, Tax
  <1>2. Total \in Int /\ Total * withholding \in Int
    BY <1>1 DEF Total, AmountsTypeOK
  <1>3. Withheld \in Int
    BY <1>2, QuantizeInt DEF Withheld
  <1>4. QED
    BY <1>1, <1>2, <1>3 DEF Total, Net

(* The two sides of the entry: their sums, and when all of a side's lines  *)
(* are positive.                                                           *)
LEMMA SidesAddUp ==
  ASSUME AmountsTypeOK
  PROVE  /\ SumSeq(PartnerSide) = Net + (IF Withheld > 0 THEN Withheld ELSE 0)
         /\ SumSeq(LineSide) = Subtotal + (IF Tax > 0 THEN Tax ELSE 0)
         /\ (\A k \in DOMAIN PartnerSide : PartnerSide[k] > 0) <=> Net > 0
         /\ (\A k \in DOMAIN LineSide : LineSide[k] > 0)
               <=> \A k \in DOMAIN docLines : AmountUntaxed(docLines[k]) > 0
  <1> DEFINE untaxed == [k \in DOMAIN docLines |-> AmountUntaxed(docLines[k])]
             wht == IF Withheld > 0 THEN <<Withheld>> ELSE <<>>
             vat == IF Tax > 0 THEN <<Tax>> ELSE <<>>
  <1>1. Net \in Int /\ Withheld \in Int /\ Tax \in Int
    BY TotalsAddUp
  <1>2. /\ untaxed \in Seq(Int) /\ Len(untaxed) = Len(docLines)
        /\ \A k \in DOMAIN docLines : untaxed[k] = AmountUntaxed(docLines[k])
    BY LineAmountsInt
  <1>3. /\ wht \in Seq(Int) /\ SumSeq(wht) = (IF Withheld > 0 THEN Withheld ELSE 0)
        /\ \A k \in DOMAIN wht : wht[k] > 0
    <2>1. CASE Withheld > 0
      BY <1>1, <2>1, SumOne
    <2>2. CASE ~(Withheld > 0)
      BY <2>2, SumEmpty
    <2>3. QED
      BY <2>1, <2>2
  <1>4. /\ vat \in Seq(Int) /\ SumSeq(vat) = (IF Tax > 0 THEN Tax ELSE 0)
        /\ \A k \in DOMAIN vat : vat[k] > 0
    <2>1. CASE Tax > 0
      BY <1>1, <2>1, SumOne
    <2>2. CASE ~(Tax > 0)
      BY <2>2, SumEmpty
    <2>3. QED
      BY <2>1, <2>2
  <1>5. PartnerSide = <<Net>> \o wht /\ LineSide = untaxed \o vat
    BY DEF PartnerSide, LineSide
  <1>6. <<Net>> \in Seq(Int) /\ SumSeq(<<Net>>) = Net
    BY <1>1, SumOne
  <1>7. Subtotal = SumSeq(untaxed)
    BY DEF Subtotal
  <1>8. Len(docLines) \in Nat /\ DOMAIN docLines = 1 .. Len(docLines)
    BY LineAmountsInt
  <1> HIDE DEF untaxed, wht, vat
  <1>9. SumSeq(PartnerSide) = Net + SumSeq(wht) /\ SumSeq(LineSide) = Subtotal + SumSeq(vat)
    BY <1>2, <1>3, <1>4, <1>5, <1>6, <1>7, SumConcat
  <1>10. (\A k \in DOMAIN PartnerSide : PartnerSide[k] > 0) <=> Net > 0
    <2>1. (\A k \in DOMAIN <<Net>> : <<Net>>[k] > 0) <=> Net > 0
      BY <1>1
    <2>2. QED
      BY <1>3, <1>5, <1>6, <2>1, ConcatAllPositive
  <1>11. (\A k \in DOMAIN LineSide : LineSide[k] > 0)
           <=> \A k \in DOMAIN docLines : AmountUntaxed(docLines[k]) > 0
    <2>1. DOMAIN untaxed = DOMAIN docLines
      BY <1>2, <1>8
    <2>2. QED
      BY <1>2, <1>4, <1>5, <2>1, ConcatAllPositive
  <1>12. QED
    BY <1>3, <1>4, <1>9, <1>10, <1>11

(* The rounding of lines, tax and withholding never stops a regular        *)
(* document from being posted (CustomerInvoice.post, SupplierBill.post),   *)
(* and nothing else is posted but a document whose negative tax and        *)
(* withholding cancel.                                                     *)
THEOREM RegularDocumentsArePosted == AmountsSpec => []RegularDocumentsPost
  <1>1. AmountsTypeOK => RegularDocumentsPost
    <2> SUFFICES ASSUME AmountsTypeOK PROVE RegularDocumentsPost
      OBVIOUS
    <2>1. /\ Subtotal \in Int /\ Tax \in Int /\ Total \in Int /\ Withheld \in Int /\ Net \in Int
          /\ Total = Subtotal + Tax /\ Total = Net + Withheld
      BY TotalsAddUp
    <2>2. \A k \in DOMAIN docLines : AmountUntaxed(docLines[k]) \in Int
      BY LineAmountsInt
    <2>3. Regular => PostAccepted
      <3> SUFFICES ASSUME Regular PROVE PostAccepted
        OBVIOUS
      <3>1. Total > 0
        BY <2>1 DEF Regular
      <3>2. \A k \in DOMAIN docLines : AmountUntaxed(docLines[k]) > 0
        BY <2>2 DEF Regular
      <3>3. SumSeq(PartnerSide) = SumSeq(LineSide)
        BY <2>1, SidesAddUp DEF Regular
      <3>4. QED
        BY <2>1, <3>1, <3>2, <3>3, SidesAddUp DEF Regular, PostAccepted, EntryAccepted
    <2>4. PostAccepted => Regular \/ (Tax < 0 /\ Withheld = Tax)
      <3> SUFFICES ASSUME PostAccepted PROVE Regular \/ (Tax < 0 /\ Withheld = Tax)
        OBVIOUS
      <3>1. \A k \in DOMAIN docLines : AmountUntaxed(docLines[k]) >= 1
        BY <2>2, SidesAddUp DEF PostAccepted, EntryAccepted
      <3>2. Net >= 1
        BY <2>1, SidesAddUp DEF PostAccepted, EntryAccepted
      <3>3. Net + (IF Withheld > 0 THEN Withheld ELSE 0) = Subtotal + (IF Tax > 0 THEN Tax ELSE 0)
        BY SidesAddUp DEF PostAccepted, EntryAccepted
      <3>4. (Tax >= 0 /\ Withheld >= 0) \/ (Tax < 0 /\ Withheld = Tax)
        BY <2>1, <3>3
      <3>5. QED
        BY <3>1, <3>2, <3>4 DEF Regular, PostAccepted
    <2>5. QED
      BY <2>3, <2>4 DEF RegularDocumentsPost
  <1>2. QED
    BY <1>1, AmountsTypeInv, PTL

-----------------------------------------------------------------------------
(* CandidateEntry. *)

Grows(f, s, c) == /\ f[0] = <<>>
                  /\ \A n \in 1 .. Len(s) :
                        f[n] = IF Usable(s[n], c) THEN Append(f[n - 1], s[n]) ELSE f[n - 1]

(* UsableLines is the last of the lists the loop grows. *)
LEMMA UsableLinesIs ==
  ASSUME NEW R, NEW s \in Seq(R), NEW c
  PROVE  \E f \in [0 .. Len(s) -> Seq(R)] :
            Grows(f, s, c) /\ UsableLines(s, c) = f[Len(s)]
  <1> DEFINE N == Len(s)
             step == [n \in 1 .. N |->
                         [x \in Seq(R) |-> IF Usable(s[n], c) THEN Append(x, s[n]) ELSE x]]
             Is(f) == f = [n \in 0 .. N |->
                              IF n = 0 THEN <<>>
                              ELSE IF Usable(s[n], c) THEN Append(f[n - 1], s[n])
                              ELSE f[n - 1]]
             lines == CHOOSE f : Is(f)
  <1>1. N \in Nat /\ <<>> \in Seq(R)
    OBVIOUS
  <1>2. \A n \in 1 .. N : \A x \in Seq(R) :
            /\ step[n][x] = IF Usable(s[n], c) THEN Append(x, s[n]) ELSE x
            /\ step[n][x] \in Seq(R)
    OBVIOUS
  <1>3. PICK f \in [0 .. N -> Seq(R)] :
            f[0] = <<>> /\ \A n \in 1 .. N : f[n] = step[n][f[n - 1]]
    <2>1. StaysIn(step, N, Seq(R))
      BY <1>2 DEF StaysIn
    <2> HIDE DEF step, N
    <2>2. \E f \in [0 .. N -> Seq(R)] : Follows(f, step, N, <<>>)
      BY <1>1, <2>1, Recursion
    <2>3. QED
      BY <2>2 DEF Follows
  <1>4. Is(f)
    <2>1. ASSUME NEW n \in 0 .. N
          PROVE  f[n] = IF n = 0 THEN <<>>
                        ELSE IF Usable(s[n], c) THEN Append(f[n - 1], s[n]) ELSE f[n - 1]
      <3>1. n # 0 => n \in 1 .. N /\ n - 1 \in 0 .. N
        OBVIOUS
      <3> HIDE DEF step, N
      <3>2. QED
        BY <1>2, <1>3, <3>1
    <2> HIDE DEF N
    <2>2. QED
      BY <2>1
  <1>5. Is(lines)
    <2> HIDE DEF Is
    <2>1. QED
      BY <1>4
  <1>6. lines[N] = f[N]
    <2>1. ASSUME NEW n \in 1 .. N, lines[n - 1] = f[n - 1] PROVE lines[n] = f[n]
      <3>1. n \in 0 .. N /\ n # 0
        OBVIOUS
      <3> HIDE DEF lines, N
      <3>2. /\ lines[n] = IF Usable(s[n], c) THEN Append(lines[n - 1], s[n]) ELSE lines[n - 1]
            /\ f[n] = IF Usable(s[n], c) THEN Append(f[n - 1], s[n]) ELSE f[n - 1]
        BY <1>4, <1>5, <3>1
      <3>3. QED
        BY <2>1, <3>2
    <2>2. lines[0] = <<>>
      <3> HIDE DEF lines
      <3>1. QED
        BY <1>5
    <2>3. SameSteps(lines, f, N)
      <3> HIDE DEF lines
      <3>1. QED
        BY <1>3, <2>1, <2>2 DEF SameSteps
    <2> HIDE DEF lines, step, N
    <2>4. \A n \in 0 .. N : lines[n] = f[n]
      BY <1>1, <2>3, OneRun
    <2>5. QED
      BY <1>1, <2>4
  <1>7. UsableLines(s, c) = lines[N]
    BY DEF UsableLines
  <1>8. ASSUME NEW n \in 1 .. Len(s)
        PROVE  f[n] = IF Usable(s[n], c) THEN Append(f[n - 1], s[n]) ELSE f[n - 1]
    <2>1. n \in 0 .. N /\ n # 0
      OBVIOUS
    <2> HIDE DEF N
    <2>2. QED
      BY <1>4, <2>1
  <1>9. UsableLines(s, c) = f[Len(s)] /\ f \in [0 .. Len(s) -> Seq(R)] /\ f[0] = <<>>
    BY <1>3, <1>6, <1>7
  <1>10. Grows(f, s, c)
    BY <1>8, <1>9 DEF Grows
  <1> HIDE DEF lines, Is, step, N
  <1>11. QED
    BY <1>9, <1>10

(* The lines that are used are lines of the bill, all of them usable. *)
LEMMA UsableLinesType ==
  ASSUME NEW R, NEW s \in Seq(R), NEW c
  PROVE  UsableLines(s, c) \in Seq({l \in R : Usable(l, c)})
  <1> DEFINE U == {l \in R : Usable(l, c)}
  <1>1. PICK f \in [0 .. Len(s) -> Seq(R)] :
            Grows(f, s, c) /\ UsableLines(s, c) = f[Len(s)]
    BY UsableLinesIs
  <1> DEFINE S == {n \in 0 .. Len(s) : f[n] \in Seq(U)}
  <1>2. Len(s) \in Nat
    OBVIOUS
  <1>3. 0 \in S
    BY <1>1 DEF Grows
  <1>4. ASSUME NEW n \in 0 .. Len(s) - 1, n \in S PROVE n + 1 \in S
    <2>1. n + 1 \in 1 .. Len(s) /\ (n + 1) - 1 = n
      OBVIOUS
    <2>2. f[n + 1] = IF Usable(s[n + 1], c) THEN Append(f[n], s[n + 1]) ELSE f[n]
      BY <1>1, <2>1 DEF Grows
    <2>3. Usable(s[n + 1], c) => s[n + 1] \in U
      BY <2>1
    <2>4. f[n] \in Seq(U)
      BY <1>4
    <2> HIDE DEF U
    <2>5. f[n + 1] \in Seq(U)
      BY <2>2, <2>3, <2>4
    <2>6. QED
      BY <2>1, <2>5
  <1>5. \A n \in 0 .. Len(s) - 1 : n \in S => n + 1 \in S
    BY <1>4
  <1>6. \A n \in 0 .. Len(s) : n \in S
    <2> HIDE DEF S
    <2>1. QED
      BY <1>2, <1>3, <1>5, UpTo
  <1>7. QED
    BY <1>1, <1>2, <1>6

(* When every line is usable they are all used, in their order. *)
LEMMA AllUsable ==
  ASSUME NEW R, NEW s \in Seq(R), NEW c, \A n \in DOMAIN s : Usable(s[n], c)
  PROVE  UsableLines(s, c) = s
  <1>1. PICK f \in [0 .. Len(s) -> Seq(R)] :
            Grows(f, s, c) /\ UsableLines(s, c) = f[Len(s)]
    BY UsableLinesIs
  <1> DEFINE S == {n \in 0 .. Len(s) : Len(f[n]) = n /\ \A k \in 1 .. n : f[n][k] = s[k]}
  <1>2. Len(s) \in Nat
    OBVIOUS
  <1>3. 0 \in S
    BY <1>1 DEF Grows
  <1>4. ASSUME NEW n \in 0 .. Len(s) - 1, n \in S PROVE n + 1 \in S
    <2>1. n + 1 \in 1 .. Len(s) /\ (n + 1) - 1 = n /\ n \in 0 .. Len(s) /\ s[n + 1] \in R
      OBVIOUS
    <2>2. f[n + 1] = Append(f[n], s[n + 1])
      <3>1. Usable(s[n + 1], c)
        BY <2>1
      <3>2. QED
        BY <1>1, <2>1, <3>1 DEF Grows
    <2>3. f[n] \in Seq(R) /\ Len(f[n]) = n /\ \A k \in 1 .. n : f[n][k] = s[k]
      BY <1>4, <2>1
    <2>4. Len(f[n + 1]) = n + 1 /\ \A k \in 1 .. n + 1 : f[n + 1][k] = s[k]
      BY <2>1, <2>2, <2>3
    <2>5. QED
      BY <2>1, <2>4
  <1>5. \A n \in 0 .. Len(s) - 1 : n \in S => n + 1 \in S
    BY <1>4
  <1>6. \A n \in 0 .. Len(s) : n \in S
    <2> HIDE DEF S
    <2>1. QED
      BY <1>2, <1>3, <1>5, UpTo
  <1>7. f[Len(s)] \in Seq(R) /\ Len(f[Len(s)]) = Len(s) /\ \A k \in 1 .. Len(s) : f[Len(s)][k] = s[k]
    BY <1>2, <1>6
  <1>8. f[Len(s)] = s
    <2> HIDE DEF S
    <2> DEFINE t == f[Len(s)]
    <2>1. t \in Seq(R) /\ Len(t) = Len(s) /\ \A k \in 1 .. Len(s) : t[k] = s[k]
      BY <1>7
    <2> HIDE DEF t
    <2>2. t = s
      BY <2>1, SeqEqual
    <2>3. QED
      BY <2>2 DEF t
  <1>9. QED
    BY <1>1, <1>8

JournalLine(c) == [account : c \cup {SupplierCode, VatCode}, debit : Int, credit : Int]

(* The amounts an entry is made of: those of the used lines, and the tax.  *)
Amounts(b, s, c) == [k \in DOMAIN UsableLines(s, c) |-> UsableLines(s, c)[k].amount]
                    \o (IF VatBooked(b, c) THEN <<b.tax>> ELSE <<>>)

HaveAmounts(R) == \A l \in R : l.amount \in Int

LEMMA AmountsInt ==
  ASSUME NEW R, HaveAmounts(R), NEW s \in Seq(R), NEW b \in BillRow, NEW c
  PROVE  /\ Amounts(b, s, c) \in Seq(Int)
         /\ Len(Amounts(b, s, c)) = Len(UsableLines(s, c)) + (IF VatBooked(b, c) THEN 1 ELSE 0)
         /\ \A k \in DOMAIN UsableLines(s, c) :
               Amounts(b, s, c)[k] = UsableLines(s, c)[k].amount
         /\ VatBooked(b, c) => Amounts(b, s, c)[Len(UsableLines(s, c)) + 1] = b.tax
         /\ Credited(b, s, c) = SumSeq(Amounts(b, s, c))
         /\ Credited(b, s, c) \in Int
  <1> DEFINE u == UsableLines(s, c)
             a == [k \in DOMAIN u |-> u[k].amount]
             v == IF VatBooked(b, c) THEN <<b.tax>> ELSE <<>>
  <1>1. /\ u \in Seq({l \in R : Usable(l, c)})
        /\ DOMAIN u = 1 .. Len(u) /\ Len(u) \in Nat
    <2>1. u \in Seq({l \in R : Usable(l, c)})
      BY UsableLinesType
    <2> HIDE DEF u
    <2>2. QED
      BY <2>1
  <1>2. a \in Seq(Int) /\ Len(a) = Len(u) /\ \A k \in DOMAIN u : a[k] = u[k].amount
    <2> HIDE DEF u
    <2>1. \A k \in 1 .. Len(u) : u[k].amount \in Int
      BY <1>1 DEF HaveAmounts
    <2>2. QED
      BY <1>1, <2>1
  <1>3. b.tax \in Int
    BY DEF BillRow
  <1>4. /\ v \in Seq(Int) /\ Len(v) = (IF VatBooked(b, c) THEN 1 ELSE 0)
        /\ VatBooked(b, c) => v[1] = b.tax
        /\ SumSeq(v) = (IF VatBooked(b, c) THEN b.tax ELSE 0)
    <2>1. CASE VatBooked(b, c)
      BY <1>3, <2>1, SumOne
    <2>2. CASE ~VatBooked(b, c)
      BY <2>2, SumEmpty
    <2>3. QED
      BY <2>1, <2>2
  <1>5. Amounts(b, s, c) = a \o v
    BY DEF Amounts
  <1>6. Credited(b, s, c) = SumSeq(a) + SumSeq(v)
    BY <1>4 DEF Credited
  <1> HIDE DEF u, a, v
  <1>7. /\ a \o v \in Seq(Int) /\ Len(a \o v) = Len(a) + Len(v)
        /\ \A k \in 1 .. Len(a) : (a \o v)[k] = a[k]
        /\ \A k \in 1 .. Len(v) : (a \o v)[Len(a) + k] = v[k]
    <2>1. a \in Seq(Int) /\ v \in Seq(Int)
      BY <1>2, <1>4
    <2>2. QED
      BY <2>1, ConcatElements
  <1>8. Credited(b, s, c) = SumSeq(a \o v) /\ SumSeq(a \o v) \in Int
    BY <1>2, <1>4, <1>6, <1>7, SumConcat, SumInt
  <1>9. VatBooked(b, c) => (a \o v)[Len(u) + 1] = b.tax
    BY <1>1, <1>2, <1>4, <1>7
  <1>10. QED
    BY <1>1, <1>2, <1>4, <1>5, <1>7, <1>8, <1>9 DEF u

LEMMA DebitLineType ==
  ASSUME NEW c, NEW a \in c \cup {SupplierCode, VatCode}, NEW n \in Int
  PROVE  /\ DebitLine(a, n) \in JournalLine(c) /\ CreditLine(a, n) \in JournalLine(c)
         /\ DebitLine(a, n).debit = Cents(n) /\ DebitLine(a, n).credit = 0
         /\ CreditLine(a, n).debit = 0 /\ CreditLine(a, n).credit = Cents(n)
         /\ Cents(n) \in Int
  <1>1. Cents(n) \in Int
    BY QuantizeInt DEF Cents
  <1>2. QED
    BY <1>1 DEF DebitLine, CreditLine, JournalLine

(* An entry: a debit for each amount, then the credit of their sum. *)
LEMMA EntryShape ==
  ASSUME NEW R, HaveAmounts(R), NEW s \in Seq(R), NEW b \in BillRow, NEW c
  PROVE  LET ls == EntryLines(b, s, c)
             x == Amounts(b, s, c)
         IN /\ ls \in Seq(JournalLine(c)) /\ Len(ls) = Len(x) + 1 /\ Len(x) \in Nat
            /\ \A k \in 1 .. Len(x) : ls[k].debit = Cents(x[k]) /\ ls[k].credit = 0
            /\ ls[Len(x) + 1].debit = 0
            /\ ls[Len(x) + 1].credit = Cents(Credited(b, s, c))
  <1> DEFINE u == UsableLines(s, c)
             x == Amounts(b, s, c)
             d == [k \in DOMAIN u |-> DebitLine(u[k].code, u[k].amount)]
             v == IF VatBooked(b, c) THEN <<DebitLine(VatCode, b.tax)>> ELSE <<>>
             l == CreditLine(SupplierCode, Credited(b, s, c))
             J == JournalLine(c)
  <1>1. /\ x \in Seq(Int) /\ Len(x) = Len(u) + (IF VatBooked(b, c) THEN 1 ELSE 0)
        /\ \A k \in DOMAIN u : x[k] = u[k].amount
        /\ VatBooked(b, c) => x[Len(u) + 1] = b.tax
        /\ Credited(b, s, c) \in Int
    BY AmountsInt
  <1>2. u \in Seq({r \in R : Usable(r, c)})
    BY UsableLinesType
  <1>3. /\ DOMAIN u = 1 .. Len(u) /\ Len(u) \in Nat
        /\ \A k \in 1 .. Len(u) : u[k].amount \in Int /\ u[k].code \in c
    <2> HIDE DEF u
    <2>1. DOMAIN u = 1 .. Len(u) /\ Len(u) \in Nat
          /\ \A k \in 1 .. Len(u) : u[k] \in R /\ Usable(u[k], c)
      BY <1>2
    <2>2. QED
      BY <2>1 DEF Usable, HaveAmounts
  <1>4. b.tax \in Int
    BY DEF BillRow
  <1>5. /\ d \in Seq(J) /\ Len(d) = Len(u)
        /\ \A k \in 1 .. Len(u) : d[k].debit = Cents(u[k].amount) /\ d[k].credit = 0
    <2> HIDE DEF u, J
    <2>1. ASSUME NEW k \in 1 .. Len(u)
          PROVE  /\ DebitLine(u[k].code, u[k].amount) \in J
                 /\ DebitLine(u[k].code, u[k].amount).debit = Cents(u[k].amount)
                 /\ DebitLine(u[k].code, u[k].amount).credit = 0
      <3> DEFINE a == u[k].code
                 n == u[k].amount
      <3>1. a \in c \cup {SupplierCode, VatCode} /\ n \in Int
        BY <1>3
      <3> HIDE DEF a, n
      <3>2. DebitLine(a, n) \in J /\ DebitLine(a, n).debit = Cents(n) /\ DebitLine(a, n).credit = 0
        BY <3>1, DebitLineType DEF J
      <3>3. QED
        BY <3>2 DEF a, n
    <2>2. QED
      BY <1>3, <2>1
  <1>6. /\ v \in Seq(J) /\ Len(v) = (IF VatBooked(b, c) THEN 1 ELSE 0)
        /\ VatBooked(b, c) => v[1].debit = Cents(b.tax) /\ v[1].credit = 0
    <2>1. /\ DebitLine(VatCode, b.tax) \in J
          /\ DebitLine(VatCode, b.tax).debit = Cents(b.tax)
          /\ DebitLine(VatCode, b.tax).credit = 0
      BY <1>4, DebitLineType
    <2> HIDE DEF J
    <2>2. CASE VatBooked(b, c)
      BY <2>1, <2>2
    <2>3. CASE ~VatBooked(b, c)
      BY <2>3
    <2>4. QED
      BY <2>2, <2>3
  <1>7. l \in J /\ l.debit = 0 /\ l.credit = Cents(Credited(b, s, c))
    BY <1>1, DebitLineType
  <1>8. EntryLines(b, s, c) = d \o v \o <<l>>
    BY DEF EntryLines
  <1> HIDE DEF u, x, d, v, l, J
  <1>9. <<l>> \in Seq(J) /\ Len(<<l>>) = 1 /\ <<l>>[1] = l
    BY <1>7
  <1>10. /\ d \o v \in Seq(J) /\ Len(d \o v) = Len(x) /\ Len(x) \in Nat
         /\ \A k \in 1 .. Len(d) : (d \o v)[k] = d[k]
         /\ \A k \in 1 .. Len(v) : (d \o v)[Len(d) + k] = v[k]
    <2>1. d \in Seq(J) /\ v \in Seq(J)
      BY <1>5, <1>6
    <2>2. /\ d \o v \in Seq(J) /\ Len(d \o v) = Len(d) + Len(v)
          /\ \A k \in 1 .. Len(d) : (d \o v)[k] = d[k]
          /\ \A k \in 1 .. Len(v) : (d \o v)[Len(d) + k] = v[k]
      BY <2>1, ConcatElements
    <2>3. Len(d) + Len(v) = Len(x) /\ Len(x) \in Nat
      BY <1>1, <1>3, <1>5, <1>6
    <2>4. QED
      BY <2>2, <2>3
  <1>11. /\ d \o v \o <<l>> \in Seq(J) /\ Len(d \o v \o <<l>>) = Len(x) + 1
         /\ \A k \in 1 .. Len(x) : (d \o v \o <<l>>)[k] = (d \o v)[k]
         /\ (d \o v \o <<l>>)[Len(x) + 1] = l
    <2> DEFINE dv == d \o v
    <2>1. dv \in Seq(J) /\ Len(dv) = Len(x)
      BY <1>10
    <2> HIDE DEF dv
    <2>2. /\ dv \o <<l>> \in Seq(J) /\ Len(dv \o <<l>>) = Len(dv) + Len(<<l>>)
          /\ \A k \in 1 .. Len(dv) : (dv \o <<l>>)[k] = dv[k]
          /\ \A k \in 1 .. Len(<<l>>) : (dv \o <<l>>)[Len(dv) + k] = <<l>>[k]
      BY <1>9, <2>1, ConcatElements
    <2>3. 1 \in 1 .. Len(<<l>>)
      BY <1>9
    <2>4. (dv \o <<l>>)[Len(x) + 1] = l
      BY <1>9, <2>1, <2>2, <2>3
    <2>5. QED
      BY <1>9, <2>1, <2>2, <2>4 DEF dv
  <1>12. ASSUME NEW k \in 1 .. Len(x)
         PROVE  (d \o v)[k].debit = Cents(x[k]) /\ (d \o v)[k].credit = 0
    <2>1. CASE k \in 1 .. Len(u)
      BY <1>1, <1>3, <1>5, <1>10, <2>1
    <2>2. CASE k \notin 1 .. Len(u)
      <3>1. VatBooked(b, c) /\ k = Len(u) + 1 /\ Len(v) = 1
        BY <1>1, <1>3, <1>6, <2>2
      <3>2. (d \o v)[k] = v[1]
        BY <1>5, <1>10, <3>1
      <3>3. QED
        BY <1>1, <1>6, <3>1, <3>2
    <2>3. QED
      BY <2>1, <2>2
  <1>13. QED
    BY <1>7, <1>8, <1>10, <1>11, <1>12 DEF x, J

(* Debits and Credits add what is on the lines. *)
LEMMA SidesInt ==
  ASSUME NEW c, NEW ls \in Seq(JournalLine(c))
  PROVE  /\ [k \in DOMAIN ls |-> ls[k].debit] \in Seq(Int)
         /\ [k \in DOMAIN ls |-> ls[k].credit] \in Seq(Int)
         /\ Debits(ls) \in Int /\ Credits(ls) \in Int
  <1>1. DOMAIN ls = 1 .. Len(ls) /\ Len(ls) \in Nat
        /\ \A k \in 1 .. Len(ls) : ls[k].debit \in Int /\ ls[k].credit \in Int
    <2>1. DOMAIN ls = 1 .. Len(ls) /\ Len(ls) \in Nat
      OBVIOUS
    <2>2. \A k \in 1 .. Len(ls) : ls[k] \in JournalLine(c)
      OBVIOUS
    <2>3. \A l \in JournalLine(c) : l.debit \in Int /\ l.credit \in Int
      BY DEF JournalLine
    <2>4. QED
      BY <2>1, <2>2, <2>3
  <1>2. /\ [k \in DOMAIN ls |-> ls[k].debit] \in Seq(Int)
        /\ [k \in DOMAIN ls |-> ls[k].credit] \in Seq(Int)
    BY <1>1
  <1>3. QED
    BY <1>2, SumInt DEF Debits, Credits

LEMMA SumZeros ==
  ASSUME NEW s \in Seq(Int), \A n \in 1 .. Len(s) : s[n] = 0
  PROVE  SumSeq(s) = 0
  <1>1. PICK f \in [0 .. Len(s) -> Int] :
            /\ f[0] = 0
            /\ \A n \in 1 .. Len(s) : f[n] = f[n - 1] + s[n]
            /\ SumSeq(s) = f[Len(s)]
    BY SumIs
  <1> DEFINE S == {n \in 0 .. Len(s) : f[n] = 0}
  <1>2. Len(s) \in Nat
    OBVIOUS
  <1>3. 0 \in S
    BY <1>1
  <1>4. ASSUME NEW n \in 0 .. Len(s) - 1, n \in S PROVE n + 1 \in S
    <2>1. n + 1 \in 1 .. Len(s) /\ (n + 1) - 1 = n
      OBVIOUS
    <2>2. f[n + 1] = f[n] + s[n + 1]
      BY <1>1, <2>1
    <2>3. QED
      BY <1>4, <2>1, <2>2
  <1>5. \A n \in 0 .. Len(s) - 1 : n \in S => n + 1 \in S
    BY <1>4
  <1>6. \A n \in 0 .. Len(s) : n \in S
    <2> HIDE DEF S
    <2>1. QED
      BY <1>2, <1>3, <1>5, UpTo
  <1>7. QED
    BY <1>1, <1>2, <1>6

(* The sum of a sequence with one more element at its end. *)
LEMMA SumLast ==
  ASSUME NEW s \in Seq(Int), NEW x \in Int, NEW t \in Seq(Int),
         Len(t) = Len(s) + 1, \A n \in 1 .. Len(s) : t[n] = s[n], t[Len(s) + 1] = x
  PROVE  SumSeq(t) = SumSeq(s) + x
  <1>1. <<x>> \in Seq(Int) /\ Len(<<x>>) = 1 /\ <<x>>[1] = x
    OBVIOUS
  <1>2. /\ s \o <<x>> \in Seq(Int) /\ Len(s \o <<x>>) = Len(s) + Len(<<x>>)
        /\ \A k \in 1 .. Len(s) : (s \o <<x>>)[k] = s[k]
        /\ \A k \in 1 .. Len(<<x>>) : (s \o <<x>>)[Len(s) + k] = <<x>>[k]
    BY <1>1, ConcatElements
  <1>3. Len(s) \in Nat
    OBVIOUS
  <1> DEFINE u == s \o <<x>>
  <1>4. u \in Seq(Int) /\ Len(u) = Len(t) /\ \A k \in 1 .. Len(t) : u[k] = t[k]
    BY <1>1, <1>2, <1>3
  <1>5. SumSeq(u) = SumSeq(s) + x
    BY <1>1, SumConcat, SumOne
  <1> HIDE DEF u
  <1>6. u = t
    BY <1>4, SeqEqual
  <1>7. QED
    BY <1>5, <1>6

(* What an entry is out of balance by. *)
LEMMA EntryNearlyBalances ==
  ASSUME NEW R, HaveAmounts(R), NEW s \in Seq(R), NEW b \in BillRow, NEW c,
         NEW ls, ls = EntryLines(b, s, c)
  PROVE  /\ Debits(ls) \in Int /\ Credits(ls) \in Int /\ Len(ls) \in Nat
         /\ 2 * (Debits(ls) - Credits(ls)) <= Len(ls)
         /\ 2 * (Credits(ls) - Debits(ls)) <= Len(ls)
  <1> DEFINE x == Amounts(b, s, c)
             N == Len(x)
             cents == [k \in 1 .. N |-> Cents(x[k])]
             zeros == [k \in 1 .. N |-> 0]
             total == Credited(b, s, c)
             ds == [k \in DOMAIN ls |-> ls[k].debit]
             cs == [k \in DOMAIN ls |-> ls[k].credit]
  <1>1. x \in Seq(Int) /\ total = SumSeq(x) /\ total \in Int
    BY AmountsInt
  <1>2. /\ ls \in Seq(JournalLine(c)) /\ Len(ls) = N + 1 /\ N \in Nat
        /\ \A k \in 1 .. N : ls[k].debit = Cents(x[k]) /\ ls[k].credit = 0
        /\ ls[N + 1].debit = 0 /\ ls[N + 1].credit = Cents(total)
    BY EntryShape
  <1>3. /\ ds \in Seq(Int) /\ cs \in Seq(Int)
        /\ Debits(ls) = SumSeq(ds) /\ Credits(ls) = SumSeq(cs)
        /\ Debits(ls) \in Int /\ Credits(ls) \in Int
    BY <1>2, SidesInt DEF Debits, Credits
  <1>4. \A k \in 1 .. N : x[k] \in Int
    BY <1>1
  <1>5. \A n \in Int : /\ Cents(n) \in Int
                       /\ 2 * (n - 10 * Cents(n)) <= 10 /\ 2 * (10 * Cents(n) - n) <= 10
    <2>1. SUFFICES ASSUME NEW n \in Int
                   PROVE  /\ Cents(n) \in Int
                          /\ 2 * (n - 10 * Cents(n)) <= 10 /\ 2 * (10 * Cents(n) - n) <= 10
      OBVIOUS
    <2>2. Cents(n) = Quantize(n, 10)
      BY DEF Cents
    <2>3. Quantize(n, 10) \in Int
      BY QuantizeInt
    <2>4. 2 * (n - 10 * Quantize(n, 10)) <= 10 /\ 2 * (10 * Quantize(n, 10) - n) <= 10
      BY QuantizeNear
    <2>5. QED
      BY <2>2, <2>3, <2>4
  <1>6. /\ cents \in Seq(Int) /\ Len(cents) = N /\ \A k \in 1 .. N : cents[k] = Cents(x[k])
        /\ zeros \in Seq(Int) /\ Len(zeros) = N /\ \A k \in 1 .. N : zeros[k] = 0
    <2> HIDE DEF x, N
    <2>1. \A k \in 1 .. N : Cents(x[k]) \in Int
      BY <1>4, <1>5
    <2>2. QED
      BY <1>2, <2>1
  <1>7. DOMAIN ls = 1 .. N + 1 /\ Len(ds) = N + 1 /\ Len(cs) = N + 1
    BY <1>2
  <1>8. /\ \A k \in 1 .. N : ds[k] = cents[k] /\ cs[k] = zeros[k]
        /\ ds[N + 1] = 0 /\ cs[N + 1] = Cents(total)
    <2> HIDE DEF N, x, cents, zeros, total
    <2>1. \A k \in 1 .. N : k \in DOMAIN ls /\ N + 1 \in DOMAIN ls
      BY <1>2, <1>7
    <2>2. N + 1 \in DOMAIN ls
      BY <1>2, <1>7
    <2>3. QED
      BY <1>2, <1>6, <2>1, <2>2
  <1>9. Cents(total) \in Int
    BY <1>1, <1>5
  <1> HIDE DEF x, cents, zeros, total, ds, cs
  <1>10. SumSeq(ds) = SumSeq(cents) + 0 /\ SumSeq(cs) = SumSeq(zeros) + Cents(total)
    <2>1. SumSeq(ds) = SumSeq(cents) + 0
      <3>1. 0 \in Int /\ Len(ds) = Len(cents) + 1 /\ ds[Len(cents) + 1] = 0
            /\ \A n \in 1 .. Len(cents) : ds[n] = cents[n]
        BY <1>6, <1>7, <1>8
      <3>2. QED
        BY <1>3, <1>6, <3>1, SumLast
    <2>2. SumSeq(cs) = SumSeq(zeros) + Cents(total)
      <3>1. Len(cs) = Len(zeros) + 1 /\ cs[Len(zeros) + 1] = Cents(total)
            /\ \A n \in 1 .. Len(zeros) : cs[n] = zeros[n]
        BY <1>6, <1>7, <1>8
      <3>2. QED
        BY <1>3, <1>6, <1>9, <3>1, SumLast
    <2>3. QED
      BY <2>1, <2>2
  <1>11. SumSeq(zeros) = 0 /\ SumSeq(cents) \in Int
    BY <1>6, SumZeros, SumInt
  <1>12. /\ 2 * (SumSeq(x) - 10 * SumSeq(cents)) <= 10 * N
         /\ 2 * (10 * SumSeq(cents) - SumSeq(x)) <= 10 * N
    <2>1. /\ Len(cents) = Len(x)
          /\ \A k \in 1 .. Len(cents) : /\ 2 * (x[k] - 10 * cents[k]) <= 10
                                        /\ 2 * (10 * cents[k] - x[k]) <= 10
      <3>1. Len(cents) = Len(x)
        BY <1>6
      <3>2. ASSUME NEW k \in 1 .. Len(cents)
            PROVE  2 * (x[k] - 10 * cents[k]) <= 10 /\ 2 * (10 * cents[k] - x[k]) <= 10
        <4>1. x[k] \in Int /\ cents[k] = Cents(x[k])
          BY <1>4, <1>6
        <4>2. QED
          BY <1>5, <4>1
      <3>3. QED
        BY <3>1, <3>2
    <2>2. QED
      BY <1>1, <1>6, <2>1, SumNear
  <1>13. 2 * (total - 10 * Cents(total)) <= 10 /\ 2 * (10 * Cents(total) - total) <= 10
    BY <1>1, <1>5
  <1>14. ASSUME NEW d \in Int, NEW e \in Int, NEW t \in Int, NEW n \in Nat,
                2 * (t - 10 * d) <= 10 * n, 2 * (10 * d - t) <= 10 * n,
                2 * (t - 10 * e) <= 10, 2 * (10 * e - t) <= 10
         PROVE  2 * (d - e) <= n + 1 /\ 2 * (e - d) <= n + 1
    BY <1>14
  <1>15. Debits(ls) = SumSeq(cents) /\ Credits(ls) = Cents(total)
    BY <1>3, <1>9, <1>10, <1>11
  <1>16. 2 * (SumSeq(cents) - Cents(total)) <= N + 1 /\ 2 * (Cents(total) - SumSeq(cents)) <= N + 1
    <2> HIDE DEF N
    <2>1. QED
      BY <1>1, <1>2, <1>9, <1>11, <1>12, <1>13, <1>14
  <1>17. QED
    BY <1>2, <1>3, <1>15, <1>16

IsMerge(m, R, amounts, as) ==
    /\ m \in Seq(R) /\ HaveAmounts(R)
    /\ Len(amounts) \in Nat /\ Len(m) = Len(amounts) /\ DOMAIN m = 1 .. Len(amounts)
    /\ \A k \in 1 .. Len(amounts) : /\ m[k].amount = amounts[k]
                                    /\ m[k].code = AnswerFor(as, k).code

(* The merged classification has a line for each of the bill's, of the     *)
(* same amount.                                                            *)
MergedLines(amounts, as) == {MergeResults(amounts, as)[k] : k \in 1 .. Len(amounts)}

LEMMA MergeIs ==
  ASSUME NEW amounts \in Seq(Int), NEW as
  PROVE  IsMerge(MergeResults(amounts, as), MergedLines(amounts, as), amounts, as)
  <1> DEFINE m == MergeResults(amounts, as)
             N == Len(amounts)
  <1>1. N \in Nat /\ DOMAIN amounts = 1 .. N /\ \A k \in 1 .. N : amounts[k] \in Int
    OBVIOUS
  <1>2. m = [k \in 1 .. N |-> [amount |-> amounts[k], code |-> AnswerFor(as, k).code,
                               confidence |-> AnswerFor(as, k).confidence]]
    BY <1>1 DEF MergeResults
  <1>3. /\ DOMAIN m = 1 .. N
        /\ \A k \in 1 .. N : m[k].amount = amounts[k] /\ m[k].code = AnswerFor(as, k).code
    <2>1. DOMAIN m = 1 .. N
      BY <1>2
    <2>2. ASSUME NEW k \in 1 .. N
          PROVE  m[k].amount = amounts[k] /\ m[k].code = AnswerFor(as, k).code
      <3>1. m[k] = [amount |-> amounts[k], code |-> AnswerFor(as, k).code,
                    confidence |-> AnswerFor(as, k).confidence]
        BY <1>2
      <3> HIDE DEF m
      <3>2. QED
        BY <3>1
    <2>3. QED
      BY <2>1, <2>2
  <1>4. MergedLines(amounts, as) = {m[k] : k \in 1 .. N}
    BY DEF MergedLines
  <1>5. m = [k \in 1 .. N |-> m[k]]
    BY <1>2
  <1> HIDE DEF m, N
  <1>6. m \in [1 .. N -> MergedLines(amounts, as)]
    BY <1>4, <1>5
  <1>7. m \in Seq(MergedLines(amounts, as)) /\ Len(m) = N
    <2> DEFINE M == MergedLines(amounts, as)
    <2>1. m \in [1 .. N -> M]
      BY <1>6
    <2> HIDE DEF M
    <2>2. m \in Seq(M)
      BY <1>1, <2>1, SeqDef
    <2>3. Len(m) \in Nat /\ DOMAIN m = 1 .. Len(m)
      BY <2>2, LenProperties
    <2>4. Len(m) = N
      BY <1>1, <1>3, <2>3
    <2>5. QED
      BY <2>2, <2>4 DEF M
  <1>8. \A l \in MergedLines(amounts, as) : l.amount \in Int
    BY <1>1, <1>3, <1>4
  <1>9. QED
    BY <1>1, <1>3, <1>7, <1>8 DEF m, N, IsMerge, HaveAmounts

(* The debits of the bill's lines, of the tax, and the credit of the total. *)
IsTheBill(ls, b) ==
    /\ Len(ls) = Len(b.amounts) + (IF b.tax > 0 THEN 2 ELSE 1)
    /\ \A n \in DOMAIN b.amounts : ls[n].debit = Cents(b.amounts[n])
    /\ b.total # <<>> => ls[Len(ls)].credit = Cents(b.total[1])

(* An entry without an issue is the bill. *)
LEMMA BuildIsTheBill ==
  ASSUME NEW b \in BillRow, NEW as, NEW R, NEW s, NEW c,
         IsMerge(s, R, b.amounts, as), Issues(b, s, c) = {}
  PROVE  IsTheBill(EntryLines(b, s, c), b)
  <1> DEFINE x == Amounts(b, s, c)
             am == b.amounts
             ls == EntryLines(b, s, c)
  <1>1. am \in Seq(Int) /\ b.tax \in Int
    BY DEF BillRow
  <1>2. /\ s \in Seq(R) /\ HaveAmounts(R)
        /\ Len(s) = Len(am) /\ Len(s) \in Nat
        /\ DOMAIN s = 1 .. Len(s)
        /\ \A k \in 1 .. Len(s) : s[k].amount = am[k]
    BY DEF IsMerge
  <1>3. DOMAIN am = 1 .. Len(s)
    BY <1>1, <1>2
  <1>4. "skipped" \notin Issues(b, s, c) /\ "no_vat_account" \notin Issues(b, s, c)
        /\ "total" \notin Issues(b, s, c)
    OBVIOUS
  <1>5. \A k \in DOMAIN s : Usable(s[k], c)
    BY <1>4 DEF Issues
  <1>6. b.tax > 0 => VatCode \in c
    BY <1>4 DEF Issues
  <1>7. ~TotalDiffers(b, Credited(b, s, c))
    BY <1>4 DEF Issues
  <1>8. UsableLines(s, c) = s
    BY <1>2, <1>5, AllUsable
  <1>9. VatBooked(b, c) <=> b.tax > 0
    BY <1>6 DEF VatBooked
  <1>10. /\ Len(x) = Len(s) + (IF b.tax > 0 THEN 1 ELSE 0)
         /\ \A k \in DOMAIN s : x[k] = s[k].amount
    <2>1. /\ Len(x) = Len(UsableLines(s, c)) + (IF VatBooked(b, c) THEN 1 ELSE 0)
          /\ \A k \in DOMAIN UsableLines(s, c) : x[k] = UsableLines(s, c)[k].amount
      BY <1>2, AmountsInt
    <2> HIDE DEF x, am, ls
    <2>2. QED
      BY <1>8, <1>9, <2>1
  <1>11. /\ Len(ls) = Len(x) + 1 /\ Len(x) \in Nat
         /\ \A k \in 1 .. Len(x) : ls[k].debit = Cents(x[k])
         /\ ls[Len(x) + 1].credit = Cents(Credited(b, s, c))
    BY <1>2, EntryShape
  <1> HIDE DEF x, am, ls
  <1>12. Len(ls) = Len(am) + (IF b.tax > 0 THEN 2 ELSE 1)
    BY <1>2, <1>10, <1>11
  <1>13. ASSUME NEW n \in DOMAIN am PROVE ls[n].debit = Cents(am[n])
    <2>1. n \in 1 .. Len(s) /\ n \in DOMAIN s /\ n \in 1 .. Len(x)
      BY <1>2, <1>3, <1>10
    <2>2. x[n] = am[n]
      BY <1>2, <1>10, <2>1
    <2>3. QED
      BY <1>11, <2>1, <2>2
  <1>14. b.total # <<>> => ls[Len(ls)].credit = Cents(b.total[1])
    BY <1>7, <1>11 DEF TotalDiffers
  <1>15. QED
    BY <1>12, <1>13, <1>14 DEF am, ls, IsTheBill

(* The form check of the reviewer is enough for an entry to be sound. *)
LEMMA FormOkIsSound ==
  ASSUME NEW c, NEW e, e.lines \in Seq(JournalLine(c)), FormOk(e)
  PROVE  /\ Debits(e.lines) = Credits(e.lines) /\ Debits(e.lines) > 0 /\ e.dated
         /\ \A n \in DOMAIN e.lines : /\ e.lines[n].account # NoCode
                                      /\ e.lines[n].debit = 0 \/ e.lines[n].credit = 0
  <1> DEFINE ls == e.lines
             ds == [k \in DOMAIN ls |-> ls[k].debit]
  <1>1. ls \in Seq(JournalLine(c))
    OBVIOUS
  <1>2. /\ \A n \in DOMAIN ls : /\ ls[n].debit >= 0 /\ ls[n].credit >= 0
                                /\ ~(ls[n].debit > 0 /\ ls[n].credit > 0)
                                /\ ls[n].account # NoCode
        /\ Debits(ls) = Credits(ls) /\ Debits(ls) # 0 /\ e.dated
    BY DEF FormOk
  <1> HIDE DEF ls
  <1>3. ds \in Seq(Int) /\ Debits(ls) \in Int /\ Debits(ls) = SumSeq(ds)
    BY <1>1, SidesInt DEF Debits
  <1>4. \A n \in DOMAIN ls : ls[n].debit \in Int /\ ls[n].credit \in Int
    <2>1. \A l \in JournalLine(c) : l.debit \in Int /\ l.credit \in Int
      BY DEF JournalLine
    <2>2. \A n \in DOMAIN ls : ls[n] \in JournalLine(c)
      BY <1>1
    <2>3. QED
      BY <2>1, <2>2
  <1>5. \A n \in DOMAIN ds : ds[n] >= 0
    BY <1>2
  <1>6. SumSeq(ds) >= 0
    <2> HIDE DEF ds
    <2>1. 0 \in {0, 1} /\ Len(ds) \in Nat
      BY <1>3
    <2>2. SumSeq(ds) >= 0 * Len(ds)
      BY <1>3, <1>5, SumAtLeast
    <2>3. QED
      BY <2>1, <2>2
  <1>7. Debits(ls) > 0
    BY <1>2, <1>3, <1>6
  <1>8. \A n \in DOMAIN ls : ls[n].account # NoCode /\ (ls[n].debit = 0 \/ ls[n].credit = 0)
    BY <1>2, <1>4
  <1>9. QED
    BY <1>2, <1>7, <1>8 DEF ls

-----------------------------------------------------------------------------
(* ApPipeline. *)

Specialists == {"extractor", "classifier", "proposer", "reviewer"}

(* A specialist ran and succeeded. *)
Passed(n) == n <= Len(results) /\ results[n].ok

PipeTypeOK ==
    /\ chart \in Charts
    /\ bill \in BillRow
    /\ results \in Seq([type : Specialists, ok : BOOLEAN])
    /\ approved \in BOOLEAN

(* The specialist about to run follows those that ran, and all of those    *)
(* succeeded, unless the run is over.                                      *)
StageFollows ==
    /\ stage \in Specialists \cup {"idle", "finish"}
    /\ stage = "idle" => results = <<>>
    /\ \A n \in 1 .. 4 : stage = Order[n] => Len(results) = n - 1
    /\ stage # "finish" => \A k \in 1 .. Len(results) : results[k].ok
    /\ stage = "finish" => /\ Len(results) \in 1 .. 4
                           /\ \A k \in 1 .. Len(results) - 1 : results[k].ok
                           /\ results[Len(results)].ok => Len(results) = 4
    /\ \A k \in 1 .. Len(results) : results[k].type = Order[k]

(* What each specialist that succeeded left in the context. *)
ContextFollows ==
    /\ ~Passed(2) => classified = <<>>
    /\ Passed(2) => classified = MergeResults(bill.amounts, answers)
    /\ DOMAIN answers = 1 .. Len(answers)
    /\ ~Passed(3) => entry = NoEntry
    /\ Passed(3) => \E c \in Charts : /\ ~ProposerFails(classified, c)
                                      /\ entry = Build(bill, classified, c)
    /\ approved => Passed(4) /\ FormOk(entry)

(* What becomes of the bill in a queue item. *)
ItemsAreTrue == HaltedItemsAreShort /\ UnflaggedIsTheBill /\ ApprovedIsSound /\ OffByRounding

PipeInv == PipeTypeOK /\ StageFollows /\ ContextFollows /\ ItemsAreTrue

LEMMA OrderIs ==
  /\ Order[1] = "extractor" /\ Order[2] = "classifier"
  /\ Order[3] = "proposer" /\ Order[4] = "reviewer"
  /\ \A n \in 1 .. 4 : Order[n] \in Specialists
  /\ \A m, n \in 1 .. 4 : Order[m] = Order[n] => m = n
  BY DEF Order, Specialists

(* One specialist more has run. *)
LEMMA ResultFollows ==
  ASSUME PipeTypeOK, StageFollows, NEW i \in 1 .. 4, NEW ok \in BOOLEAN, Result(Order[i], ok)
  PROVE  /\ StageFollows'
         /\ results' \in Seq([type : Specialists, ok : BOOLEAN])
         /\ \A n \in 1 .. 4 : Passed(n) <=> n < i
         /\ \A n \in 1 .. 4 : Passed(n)' <=> n < i \/ (n = i /\ ok)
  <1>1. /\ results \in Seq([type : Specialists, ok : BOOLEAN]) /\ Len(results) = i - 1
        /\ stage = Order[i] /\ \A k \in 1 .. i - 1 : results[k].ok /\ results[k].type = Order[k]
    <2>1. stage = Order[i]
      BY DEF Result
    <2>2. stage # "finish" /\ Len(results) = i - 1
      BY <2>1, OrderIs DEF StageFollows, Specialists
    <2>3. QED
      BY <2>1, <2>2 DEF StageFollows, PipeTypeOK
  <1>2. results' = Append(results, [type |-> Order[i], ok |-> ok])
    BY DEF Result
  <1>3. /\ results' \in Seq([type : Specialists, ok : BOOLEAN]) /\ Len(results') = i
        /\ results'[i] = [type |-> Order[i], ok |-> ok]
        /\ \A k \in 1 .. i - 1 : results'[k] = results[k]
    BY <1>1, <1>2, OrderIs
  <1>4. stage' = NextStage(Order[i], ok)
    BY DEF Result
  <1>5. stage' = IF ok /\ i < 4 THEN Order[i + 1] ELSE "finish"
    <2>1. NextOf("extractor") = "classifier" /\ NextOf("classifier") = "proposer"
          /\ NextOf("proposer") = "reviewer" /\ NextOf("reviewer") = "finish"
      BY DEF NextOf
    <2>2. CASE i = 1
      BY <1>4, <2>1, <2>2, OrderIs DEF NextStage
    <2>3. CASE i = 2
      BY <1>4, <2>1, <2>3, OrderIs DEF NextStage
    <2>4. CASE i = 3
      BY <1>4, <2>1, <2>4, OrderIs DEF NextStage
    <2>5. CASE i = 4
      BY <1>4, <2>1, <2>5, OrderIs DEF NextStage
    <2>6. QED
      BY <2>2, <2>3, <2>4, <2>5
  <1>6. \A n \in 1 .. 4 : Passed(n) <=> n < i
    BY <1>1 DEF Passed
  <1>7. \A n \in 1 .. 4 : Passed(n)' <=> n < i \/ (n = i /\ ok)
    BY <1>1, <1>3 DEF Passed
  <1>8. \A k \in 1 .. i : results'[k].type = Order[k] /\ (results'[k].ok <=> k < i \/ ok)
    BY <1>1, <1>3
  <1>9. CASE ok /\ i < 4
    <2>1. stage' = Order[i + 1] /\ i + 1 \in 1 .. 4
      BY <1>5, <1>9
    <2>2. \A n \in 1 .. 4 : stage' = Order[n] => n = i + 1
      BY <2>1, OrderIs
    <2>3. stage' \in Specialists /\ stage' # "idle" /\ stage' # "finish"
      BY <2>1, OrderIs DEF Specialists
    <2>4. StageFollows'
      BY <1>3, <1>8, <1>9, <2>2, <2>3 DEF StageFollows
    <2>5. QED
      BY <1>3, <1>6, <1>7, <2>4
  <1>10. CASE ~(ok /\ i < 4)
    <2>1. stage' = "finish"
      BY <1>5, <1>10
    <2>2. \A n \in 1 .. 4 : stage' # Order[n]
      BY <2>1, OrderIs DEF Specialists
    <2>3. StageFollows'
      BY <1>3, <1>8, <1>10, <2>1, <2>2 DEF StageFollows
    <2>4. QED
      BY <1>3, <1>6, <1>7, <2>3
  <1>11. QED
    BY <1>9, <1>10

(* _merge_results aligns the answers with the lines they name. *)
LEMMA MergeAligns ==
  ASSUME NEW amounts, NEW as, NEW R, NEW s, IsMerge(s, R, amounts, as),
         DOMAIN as = 1 .. Len(as),
         \A j, k \in DOMAIN as :
            as[k].index # Omitted /\ (j # k => as[j].index # as[k].index)
  PROVE  /\ Len(s) = Len(amounts)
         /\ \A k \in DOMAIN as : as[k].index \in DOMAIN s => s[as[k].index].code = as[k].code
         /\ \A n \in DOMAIN s : s[n].code # NoCode => \E k \in DOMAIN as : as[k].index = n
  <1>1. Len(s) = Len(amounts) /\ \A n \in DOMAIN s : s[n].code = AnswerFor(as, n).code
    BY DEF IsMerge
  <1>2. \A k \in DOMAIN as : IndexOf(as, k) = as[k].index
    BY DEF IndexOf
  <1>3. ASSUME NEW k \in DOMAIN as
        PROVE  AnswerFor(as, as[k].index).code = as[k].code
    <2> DEFINE ks == {j \in DOMAIN as : IndexOf(as, j) = as[k].index}
    <2>1. ks = {k}
      BY <1>2
    <2>2. k \in Int
      OBVIOUS
    <2>3. Max({k}) = k
      BY <2>2 DEF Max
    <2>4. AnswerFor(as, as[k].index) = [code |-> as[k].code, confidence |-> as[k].confidence]
      BY <2>1, <2>3 DEF AnswerFor
    <2>5. QED
      BY <2>4
  <1>4. ASSUME NEW n \in DOMAIN s, s[n].code # NoCode
        PROVE  \E k \in DOMAIN as : as[k].index = n
    <2>1. SUFFICES ASSUME {j \in DOMAIN as : IndexOf(as, j) = n} = {} PROVE FALSE
      BY <1>2
    <2>2. AnswerFor(as, n) = Placeholder
      BY <2>1 DEF AnswerFor
    <2>3. AnswerFor(as, n).code = NoCode
      BY <2>2 DEF Placeholder
    <2>4. s[n].code = NoCode
      BY <1>1, <2>3
    <2>5. QED
      BY <1>4, <2>4
  <1>5. QED
    BY <1>1, <1>3, <1>4

LEMMA PipeInitInv == PipeInit => PipeInv
  <1> SUFFICES ASSUME PipeInit PROVE PipeInv
    OBVIOUS
  <1>1. results = <<>> /\ stage = "idle" /\ item = <<>> /\ answers = <<>>
        /\ Len(results) = 0 /\ \A n \in 1 .. 4 : ~Passed(n)
    BY DEF PipeInit, Passed
  <1>2. PipeTypeOK
    <2>1. NoBill \in BillRow
      BY DEF NoBill, BillRow
    <2>2. results \in Seq([type : Specialists, ok : BOOLEAN])
      BY <1>1
    <2>3. QED
      BY <2>1, <2>2 DEF PipeInit, PipeTypeOK
  <1>3. StageFollows
    BY <1>1, OrderIs DEF StageFollows, Specialists
  <1>4. ContextFollows
    BY <1>1 DEF PipeInit, ContextFollows
  <1>5. ItemsAreTrue
    BY <1>1 DEF ItemsAreTrue, HaltedItemsAreShort, UnflaggedIsTheBill, ApprovedIsSound, OffByRounding
  <1>6. QED
    BY <1>2, <1>3, <1>4, <1>5 DEF PipeInv

(* What ItemsAreTrue says of an item is all in the item. *)
LEMMA ItemKept ==
  ASSUME ItemsAreTrue, item' = item \/ item' = <<>>
  PROVE  ItemsAreTrue'
  <1>1. CASE item' = item
    BY <1>1 DEF ItemsAreTrue, HaltedItemsAreShort, UnflaggedIsTheBill, ApprovedIsSound, OffByRounding
  <1>2. CASE item' = <<>>
    <2>1. \A k \in DOMAIN item' : FALSE
      BY <1>2
    <2>2. QED
      BY <2>1 DEF ItemsAreTrue, HaltedItemsAreShort, UnflaggedIsTheBill, ApprovedIsSound, OffByRounding
  <1>3. QED
    BY <1>1, <1>2

(* What has passed is kept when the run's results are. *)
LEMMA PassedKept ==
  ASSUME results' = results
  PROVE  \A n \in 1 .. 4 : Passed(n)' <=> Passed(n)
  BY DEF Passed

LEMMA HandleInv == PipeInv /\ Handle => PipeInv'
  <1> SUFFICES ASSUME PipeInv, Handle PROVE PipeInv'
    OBVIOUS
  <1>1. results' = results /\ results = <<>> /\ stage' = "extractor"
    BY DEF PipeInv, StageFollows, Handle
  <1>2. PipeTypeOK'
    BY DEF PipeInv, PipeTypeOK, Handle
  <1>3. StageFollows'
    <2>1. Len(results') = 0
      BY <1>1
    <2>2. \A n \in 1 .. 4 : stage' = Order[n] => n = 1
      BY <1>1, OrderIs
    <2>3. QED
      BY <1>1, <2>1, <2>2 DEF StageFollows, Specialists
  <1>4. ContextFollows'
    BY <1>1, PassedKept DEF PipeInv, ContextFollows, Handle
  <1>5. ItemsAreTrue'
    BY ItemKept DEF PipeInv, Handle
  <1>6. QED
    BY <1>2, <1>3, <1>4, <1>5 DEF PipeInv

LEMMA ChangeChartInv == \A c \in Charts : PipeInv /\ ChangeChart(c) => PipeInv'
  <1> SUFFICES ASSUME NEW c \in Charts, PipeInv, ChangeChart(c) PROVE PipeInv'
    OBVIOUS
  <1>1. PipeTypeOK'
    BY DEF PipeInv, PipeTypeOK, ChangeChart
  <1>2. StageFollows'
    BY DEF PipeInv, StageFollows, ChangeChart
  <1>3. ContextFollows'
    BY PassedKept DEF PipeInv, ContextFollows, ChangeChart
  <1>4. ItemsAreTrue'
    BY ItemKept DEF PipeInv, ChangeChart
  <1>5. QED
    BY <1>1, <1>2, <1>3, <1>4 DEF PipeInv

(* A specialist that failed leaves the context as it was. *)
LEMMA FailureInv ==
  ASSUME PipeInv, NEW i \in 1 .. 4, Result(Order[i], FALSE),
         UNCHANGED <<chart, bill, answers, classified, entry, approved, item>>
  PROVE  PipeInv'
  <1>1. /\ StageFollows'
        /\ results' \in Seq([type : Specialists, ok : BOOLEAN])
        /\ \A n \in 1 .. 4 : Passed(n) <=> n < i
        /\ \A n \in 1 .. 4 : Passed(n)' <=> n < i \/ (n = i /\ FALSE)
    BY ResultFollows DEF PipeInv
  <1>2. \A n \in 1 .. 4 : Passed(n)' <=> Passed(n)
    BY <1>1
  <1>3. PipeTypeOK'
    BY <1>1 DEF PipeInv, PipeTypeOK
  <1>4. ContextFollows'
    BY <1>2 DEF PipeInv, ContextFollows
  <1>5. ItemsAreTrue'
    BY ItemKept DEF PipeInv
  <1>6. QED
    BY <1>1, <1>3, <1>4, <1>5 DEF PipeInv

LEMMA ExtractInv == \A b \in Bills : PipeInv /\ Extract(b) => PipeInv'
  <1> SUFFICES ASSUME NEW b \in Bills, PipeInv, Extract(b) PROVE PipeInv'
    OBVIOUS
  <1>1. Result(Order[1], TRUE) /\ 1 \in 1 .. 4 /\ TRUE \in BOOLEAN
    BY OrderIs DEF Extract, Result
  <1>2. /\ StageFollows'
        /\ results' \in Seq([type : Specialists, ok : BOOLEAN])
        /\ \A n \in 1 .. 4 : Passed(n) <=> n < 1
        /\ \A n \in 1 .. 4 : Passed(n)' <=> n < 1 \/ (n = 1 /\ TRUE)
    BY <1>1, ResultFollows DEF PipeInv
  <1>3. PipeTypeOK'
    BY <1>2, PipelineAssumption DEF PipeInv, PipeTypeOK, Extract
  <1>4. ~Passed(2) /\ ~Passed(3) /\ ~Passed(4) /\ ~Passed(2)' /\ ~Passed(3)'
    BY <1>2
  <1>5. ContextFollows'
    BY <1>4 DEF PipeInv, ContextFollows, Extract
  <1>6. ItemsAreTrue'
    BY ItemKept DEF PipeInv, Extract
  <1>7. QED
    BY <1>2, <1>3, <1>5, <1>6 DEF PipeInv

LEMMA ClassifyNothingInv == PipeInv /\ ClassifyNothing => PipeInv'
  <1> SUFFICES ASSUME PipeInv, ClassifyNothing PROVE PipeInv'
    OBVIOUS
  <1>1. Result(Order[2], TRUE) /\ 2 \in 1 .. 4 /\ TRUE \in BOOLEAN
    BY OrderIs DEF ClassifyNothing, Result
  <1>2. /\ StageFollows'
        /\ results' \in Seq([type : Specialists, ok : BOOLEAN])
        /\ \A n \in 1 .. 4 : Passed(n) <=> n < 2
        /\ \A n \in 1 .. 4 : Passed(n)' <=> n < 2 \/ (n = 2 /\ TRUE)
    BY <1>1, ResultFollows DEF PipeInv
  <1>3. PipeTypeOK'
    BY <1>2 DEF PipeInv, PipeTypeOK, ClassifyNothing
  <1>4. ~Passed(2) /\ ~Passed(3) /\ ~Passed(4) /\ Passed(2)' /\ ~Passed(3)'
    BY <1>2
  <1>5. MergeResults(<<>>, answers) = <<>>
    BY DEF MergeResults
  <1>6. ContextFollows'
    BY <1>4, <1>5 DEF PipeInv, ContextFollows, ClassifyNothing
  <1>7. ItemsAreTrue'
    BY ItemKept DEF PipeInv, ClassifyNothing
  <1>8. QED
    BY <1>2, <1>3, <1>6, <1>7 DEF PipeInv

LEMMA ClassifyInv == \A a \in Answers : PipeInv /\ Classify(a) => PipeInv'
  <1> SUFFICES ASSUME NEW a \in Answers, PipeInv, Classify(a) PROVE PipeInv'
    OBVIOUS
  <1>1. Result(Order[2], TRUE) /\ 2 \in 1 .. 4 /\ TRUE \in BOOLEAN
    BY OrderIs DEF Classify, Result
  <1>2. /\ StageFollows'
        /\ results' \in Seq([type : Specialists, ok : BOOLEAN])
        /\ \A n \in 1 .. 4 : Passed(n) <=> n < 2
        /\ \A n \in 1 .. 4 : Passed(n)' <=> n < 2 \/ (n = 2 /\ TRUE)
    BY <1>1, ResultFollows DEF PipeInv
  <1>3. PipeTypeOK'
    BY <1>2 DEF PipeInv, PipeTypeOK, Classify
  <1>4. ~Passed(2) /\ ~Passed(3) /\ ~Passed(4) /\ Passed(2)' /\ ~Passed(3)'
    BY <1>2
  <1>5. ContextFollows'
    BY <1>4, PipelineAssumption DEF PipeInv, ContextFollows, Classify
  <1>6. ItemsAreTrue'
    BY ItemKept DEF PipeInv, Classify
  <1>7. QED
    BY <1>2, <1>3, <1>5, <1>6 DEF PipeInv

LEMMA ProposeInv == PipeInv /\ Propose => PipeInv'
  <1> SUFFICES ASSUME PipeInv, Propose PROVE PipeInv'
    OBVIOUS
  <1>1. Result(Order[3], TRUE) /\ 3 \in 1 .. 4 /\ TRUE \in BOOLEAN
    BY OrderIs DEF Propose, Result
  <1>2. /\ StageFollows'
        /\ results' \in Seq([type : Specialists, ok : BOOLEAN])
        /\ \A n \in 1 .. 4 : Passed(n) <=> n < 3
        /\ \A n \in 1 .. 4 : Passed(n)' <=> n < 3 \/ (n = 3 /\ TRUE)
    BY <1>1, ResultFollows DEF PipeInv
  <1>3. PipeTypeOK'
    BY <1>2 DEF PipeInv, PipeTypeOK, Propose
  <1>4. Passed(2) /\ ~Passed(3) /\ ~Passed(4) /\ Passed(2)' /\ Passed(3)'
    BY <1>2
  <1>5. /\ chart \in Charts /\ ~ProposerFails(classified, chart)
        /\ entry' = Build(bill, classified, chart)
    BY DEF PipeInv, PipeTypeOK, Propose
  <1>6. ContextFollows'
    BY <1>4, <1>5 DEF PipeInv, ContextFollows, Propose
  <1>7. ItemsAreTrue'
    BY ItemKept DEF PipeInv, Propose
  <1>8. QED
    BY <1>2, <1>3, <1>6, <1>7 DEF PipeInv

LEMMA ReviewInv ==
  \A rules \in SUBSET Slugs, v \in Verdicts : PipeInv /\ Review(rules, v) => PipeInv'
  <1> SUFFICES ASSUME NEW rules \in SUBSET Slugs, NEW v \in Verdicts, PipeInv, Review(rules, v)
               PROVE  PipeInv'
    OBVIOUS
  <1>1. Result(Order[4], TRUE) /\ 4 \in 1 .. 4 /\ TRUE \in BOOLEAN
    BY OrderIs DEF Review, Result
  <1>2. /\ StageFollows'
        /\ results' \in Seq([type : Specialists, ok : BOOLEAN])
        /\ \A n \in 1 .. 4 : Passed(n) <=> n < 4
        /\ \A n \in 1 .. 4 : Passed(n)' <=> n < 4 \/ (n = 4 /\ TRUE)
    BY <1>1, ResultFollows DEF PipeInv
  <1>3. approved' \in BOOLEAN /\ (approved' => FormOk(entry))
    BY DEF Review, Reviewed
  <1>4. PipeTypeOK'
    BY <1>2, <1>3 DEF PipeInv, PipeTypeOK, Review
  <1>5. Passed(2) /\ Passed(3) /\ Passed(2)' /\ Passed(3)' /\ Passed(4)'
    BY <1>2
  <1>6. ContextFollows'
    BY <1>3, <1>5 DEF PipeInv, ContextFollows, Review
  <1>7. ItemsAreTrue'
    BY ItemKept DEF PipeInv, Review
  <1>8. QED
    BY <1>2, <1>4, <1>6, <1>7 DEF PipeInv

(* At the end of a run: a specialist passed if all those before it did.    *)
LEMMA FinishedRun ==
  ASSUME PipeInv, stage = "finish"
  PROVE  /\ Len(results) \in 1 .. 4 /\ DOMAIN results = 1 .. Len(results)
         /\ \A n \in 1 .. Len(results) : results[n].type = Order[n]
         /\ \A n \in 1 .. Len(results) - 1 : results[n].ok
         /\ results[Len(results)].ok => Len(results) = 4
         /\ Passed(3) <=> Len(results) = 4
         /\ Passed(3) => Passed(2)
  <1>1. /\ Len(results) \in 1 .. 4 /\ DOMAIN results = 1 .. Len(results)
        /\ \A n \in 1 .. Len(results) : results[n].type = Order[n]
        /\ \A n \in 1 .. Len(results) - 1 : results[n].ok
        /\ results[Len(results)].ok => Len(results) = 4
    BY DEF PipeInv, PipeTypeOK, StageFollows
  <1>2. Passed(3) <=> Len(results) = 4
    BY <1>1 DEF Passed
  <1>3. Passed(3) => Passed(2)
    BY <1>1, <1>2 DEF Passed
  <1>4. QED
    BY <1>1, <1>2, <1>3

(* The entry of the context is the proposer's, for some chart of accounts. *)
LEMMA EntryIs ==
  ASSUME PipeInv, Passed(2), Passed(3)
  PROVE  \E c \in Charts :
            /\ IsMerge(classified, MergedLines(bill.amounts, answers), bill.amounts, answers)
            /\ bill \in BillRow
            /\ entry.lines = EntryLines(bill, classified, c)
            /\ entry.issues = Issues(bill, classified, c)
  <1>1. PICK c \in Charts : entry = Build(bill, classified, c)
    BY DEF PipeInv, ContextFollows
  <1>2. bill \in BillRow /\ bill.amounts \in Seq(Int)
    BY DEF PipeInv, PipeTypeOK, BillRow
  <1>3. classified = MergeResults(bill.amounts, answers)
    BY DEF PipeInv, ContextFollows
  <1>4. IsMerge(classified, MergedLines(bill.amounts, answers), bill.amounts, answers)
    BY <1>2, <1>3, MergeIs
  <1>5. entry.lines = EntryLines(bill, classified, c) /\ entry.issues = Issues(bill, classified, c)
    BY <1>1 DEF Build
  <1>6. QED
    BY <1>2, <1>4, <1>5

LEMMA EnqueueInv == PipeInv /\ Enqueue => PipeInv'
  <1> SUFFICES ASSUME PipeInv, Enqueue PROVE PipeInv'
    OBVIOUS
  <1> DEFINE it == [results |-> results, bill |-> bill, classified |-> classified,
                    entry |-> entry, approved |-> approved]
             n == Len(results)
             ls == entry.lines
  <1>1. /\ stage = "finish" /\ stage' = "idle" /\ item' = <<it>> /\ results' = <<>>
        /\ bill' = NoBill /\ answers' = <<>> /\ classified' = <<>> /\ entry' = NoEntry
        /\ approved' = FALSE /\ chart' = chart
    BY DEF Enqueue
  <1>2. Len(results') = 0 /\ \A k \in 1 .. 4 : ~Passed(k)'
    BY <1>1 DEF Passed
  <1>3. PipeTypeOK'
    <2>1. NoBill \in BillRow
      BY DEF NoBill, BillRow
    <2>2. results' \in Seq([type : Specialists, ok : BOOLEAN])
      BY <1>1
    <2>3. QED
      BY <1>1, <2>1, <2>2 DEF PipeInv, PipeTypeOK
  <1>4. StageFollows'
    BY <1>1, <1>2, OrderIs DEF StageFollows, Specialists
  <1>5. ContextFollows'
    BY <1>1, <1>2 DEF ContextFollows
  <1>6. /\ n \in 1 .. 4 /\ DOMAIN results = 1 .. n
        /\ \A k \in 1 .. n : results[k].type = Order[k]
        /\ \A k \in 1 .. n - 1 : results[k].ok
        /\ results[n].ok => n = 4
        /\ Passed(3) <=> n = 4
        /\ Passed(3) => Passed(2)
    BY <1>1, FinishedRun
  <1>7. Passed(3) => \E c \in Charts :
           /\ IsMerge(classified, MergedLines(bill.amounts, answers), bill.amounts, answers)
           /\ bill \in BillRow
           /\ ls = EntryLines(bill, classified, c)
           /\ entry.issues = Issues(bill, classified, c)
    BY <1>6, EntryIs
  <1>8. Passed(3) => \E c \in Charts : ls \in Seq(JournalLine(c)) /\ ls # <<>>
    <2>1. SUFFICES ASSUME Passed(3) PROVE \E c \in Charts : ls \in Seq(JournalLine(c)) /\ ls # <<>>
      OBVIOUS
    <2>2. PICK c \in Charts :
             /\ IsMerge(classified, MergedLines(bill.amounts, answers), bill.amounts, answers)
             /\ bill \in BillRow
             /\ ls = EntryLines(bill, classified, c)
      BY <1>7, <2>1
    <2> DEFINE R == MergedLines(bill.amounts, answers)
    <2>3. classified \in Seq(R) /\ HaveAmounts(R)
      BY <2>2 DEF IsMerge
    <2> HIDE DEF R, ls
    <2>4. ls \in Seq(JournalLine(c)) /\ Len(ls) = Len(Amounts(bill, classified, c)) + 1
          /\ Len(Amounts(bill, classified, c)) \in Nat
      BY <2>2, <2>3, EntryShape
    <2>5. ls # <<>>
      BY <2>4
    <2>6. QED
      BY <2>4, <2>5
  <1>9. Executable(it) => Passed(3)
    <2>1. SUFFICES ASSUME NEW k \in 1 .. n, results[k].type = "proposer", results[k].ok
                   PROVE  Passed(3)
      BY <1>6 DEF Executable
    <2>2. k \in 1 .. 4 /\ Order[k] = "proposer"
      BY <1>6, <2>1
    <2>3. k = 3
      BY <2>2, OrderIs
    <2>4. QED
      BY <1>6, <2>1, <2>3 DEF Passed
  <1>10. /\ \A k \in DOMAIN it.results : it.results[k].type = Order[k]
         /\ \A k \in 1 .. Len(it.results) - 1 : it.results[k].ok
         /\ AllOk(it) => Len(it.results) = 4
         /\ Len(it.results) = 4 => Executable(it)
    <2>1. AllOk(it) => n = 4
      BY <1>6 DEF AllOk
    <2>2. ASSUME n = 4 PROVE Executable(it)
      <3>1. 3 \in DOMAIN results /\ results[3].type = "proposer" /\ results[3].ok
        BY <1>6, <2>2, OrderIs
      <3>2. ls # <<>>
        BY <1>6, <1>8, <2>2
      <3>3. QED
        BY <3>1, <3>2 DEF Executable
    <2>3. QED
      BY <1>6, <2>1, <2>2
  <1>11. Passed(3) /\ entry.issues = {} =>
           /\ Len(ls) = Len(bill.amounts) + (IF bill.tax > 0 THEN 2 ELSE 1)
           /\ \A k \in DOMAIN bill.amounts : ls[k].debit = Cents(bill.amounts[k])
           /\ bill.total # <<>> => ls[Len(ls)].credit = Cents(bill.total[1])
    <2>1. SUFFICES ASSUME Passed(3), entry.issues = {}
                   PROVE  /\ Len(ls) = Len(bill.amounts) + (IF bill.tax > 0 THEN 2 ELSE 1)
                          /\ \A k \in DOMAIN bill.amounts : ls[k].debit = Cents(bill.amounts[k])
                          /\ bill.total # <<>> => ls[Len(ls)].credit = Cents(bill.total[1])
      OBVIOUS
    <2>2. PICK c \in Charts :
             /\ IsMerge(classified, MergedLines(bill.amounts, answers), bill.amounts, answers)
             /\ bill \in BillRow
             /\ ls = EntryLines(bill, classified, c)
             /\ entry.issues = Issues(bill, classified, c)
      BY <1>7, <2>1
    <2>3. Issues(bill, classified, c) = {}
      BY <2>1, <2>2
    <2> DEFINE R == MergedLines(bill.amounts, answers)
    <2>4. IsMerge(classified, R, bill.amounts, answers)
      BY <2>2
    <2> HIDE DEF R, it, n, ls
    <2>5. IsTheBill(EntryLines(bill, classified, c), bill)
      BY <2>2, <2>3, <2>4, BuildIsTheBill
    <2>6. QED
      BY <2>2, <2>5 DEF IsTheBill
  <1>12. approved =>
           /\ Debits(ls) = Credits(ls) /\ Debits(ls) > 0 /\ entry.dated
           /\ \A k \in DOMAIN ls : ls[k].account # NoCode /\ (ls[k].debit = 0 \/ ls[k].credit = 0)
    <2>1. approved => Passed(4) /\ FormOk(entry)
      BY DEF PipeInv, ContextFollows
    <2>2. Passed(4) => Passed(3)
      BY <1>6 DEF Passed
    <2>3. QED
      BY <1>8, <2>1, <2>2, FormOkIsSound
  <1>13. Passed(3) => 2 * (Debits(ls) - Credits(ls)) <= Len(ls) /\ 2 * (Credits(ls) - Debits(ls)) <= Len(ls)
    <2>1. SUFFICES ASSUME Passed(3)
                   PROVE  2 * (Debits(ls) - Credits(ls)) <= Len(ls) /\ 2 * (Credits(ls) - Debits(ls)) <= Len(ls)
      OBVIOUS
    <2>2. PICK c \in Charts :
             /\ IsMerge(classified, MergedLines(bill.amounts, answers), bill.amounts, answers)
             /\ bill \in BillRow
             /\ ls = EntryLines(bill, classified, c)
      BY <1>7, <2>1
    <2> DEFINE R == MergedLines(bill.amounts, answers)
    <2>3. classified \in Seq(R) /\ HaveAmounts(R)
      BY <2>2 DEF IsMerge
    <2> HIDE DEF R, ls
    <2>4. QED
      BY <2>2, <2>3, EntryNearlyBalances
  <1>14. ItemsAreTrue'
    <2>1. DOMAIN item' = {1} /\ item'[1] = it
      BY <1>1
    <2>2. it.entry = entry /\ it.bill = bill /\ it.approved = approved /\ it.results = results
      OBVIOUS
    <2> HIDE DEF it
    <2>3. HaltedItemsAreShort'
      BY <1>10, <2>1 DEF HaltedItemsAreShort
    <2>4. UnflaggedIsTheBill'
      BY <1>9, <1>11, <2>1, <2>2 DEF UnflaggedIsTheBill
    <2>5. ApprovedIsSound'
      BY <1>12, <2>1, <2>2 DEF ApprovedIsSound
    <2>6. OffByRounding'
      BY <1>9, <1>13, <2>1, <2>2 DEF OffByRounding
    <2>7. QED
      BY <2>3, <2>4, <2>5, <2>6 DEF ItemsAreTrue
  <1>15. QED
    BY <1>3, <1>4, <1>5, <1>14 DEF PipeInv

LEMMA PipeNextInv == PipeInv /\ [PipelineNext]_<<pipeVars, switchVars>> => PipeInv'
  <1> SUFFICES ASSUME PipeInv, [PipelineNext]_<<pipeVars, switchVars>> PROVE PipeInv'
    OBVIOUS
  <1>1. CASE Handle
    BY <1>1, HandleInv
  <1>2. CASE ExtractorFails
    <2>1. Result(Order[1], FALSE) /\ 1 \in 1 .. 4
      BY <1>2, OrderIs DEF ExtractorFails, Result
    <2>2. QED
      BY <1>2, <2>1, FailureInv DEF ExtractorFails
  <1>3. CASE \E b \in Bills : Extract(b)
    BY <1>3, ExtractInv
  <1>4. CASE ClassifyNothing
    BY <1>4, ClassifyNothingInv
  <1>5. CASE ClassifierFails
    <2>1. Result(Order[2], FALSE) /\ 2 \in 1 .. 4
      BY <1>5, OrderIs DEF ClassifierFails, Result
    <2>2. QED
      BY <1>5, <2>1, FailureInv DEF ClassifierFails
  <1>6. CASE \E a \in Answers : Classify(a)
    BY <1>6, ClassifyInv
  <1>7. CASE Propose
    BY <1>7, ProposeInv
  <1>8. CASE ProposerRefuses
    <2>1. Result(Order[3], FALSE) /\ 3 \in 1 .. 4
      BY <1>8, OrderIs DEF ProposerRefuses, Result
    <2>2. QED
      BY <1>8, <2>1, FailureInv DEF ProposerRefuses
  <1>9. CASE \E rules \in SUBSET Slugs, v \in Verdicts : Review(rules, v)
    BY <1>9, ReviewInv
  <1>10. CASE ReviewerFails
    <2>1. Result(Order[4], FALSE) /\ 4 \in 1 .. 4
      BY <1>10, OrderIs DEF ReviewerFails, Result
    <2>2. QED
      BY <1>10, <2>1, FailureInv DEF ReviewerFails
  <1>11. CASE Enqueue
    BY <1>11, EnqueueInv
  <1>12. CASE \E c \in Charts : ChangeChart(c)
    BY <1>12, ChangeChartInv
  <1>13. CASE UNCHANGED pipeVars
    <2>1. UNCHANGED <<chart, stage, results, bill, answers, classified, entry, approved, item>>
      BY <1>13 DEF pipeVars
    <2>2. PipeTypeOK' /\ StageFollows'
      BY <2>1 DEF PipeInv, PipeTypeOK, StageFollows
    <2>3. ContextFollows'
      BY <2>1, PassedKept DEF PipeInv, ContextFollows
    <2>4. ItemsAreTrue'
      BY <2>1, ItemKept DEF PipeInv
    <2>5. QED
      BY <2>2, <2>3, <2>4 DEF PipeInv
  <1>14. QED
    BY <1>1, <1>2, <1>3, <1>4, <1>5, <1>6, <1>7, <1>8, <1>9, <1>10, <1>11, <1>12, <1>13
       DEF PipelineNext, PipeNext, SpecialistStep

(* The pipeline's state follows the specialists that ran, and its items    *)
(* what they found, whatever the chart of accounts and the switches do.    *)
THEOREM PipelineInvariant == PipelineSpec => []PipeInv
  <1>1. PipeInit => PipeInv
    BY PipeInitInv
  <1>2. QED
    BY <1>1, PipeNextInv, PTL DEF PipelineSpec

(* The reviewer approves sound entries only (structural_issues and         *)
(* AnthropicJEReviewer.review).                                            *)
THEOREM PipelineApprovedIsSound == PipelineSpec => []ApprovedIsSound
  <1>1. PipeInv => ApprovedIsSound
    BY DEF PipeInv, ItemsAreTrue
  <1>2. QED
    BY <1>1, PipelineInvariant, PTL

(* What the proposer rounds (SyscohadaBillProposer.build) is all an entry  *)
(* is out of balance by.                                                   *)
THEOREM PipelineOffByRounding == PipelineSpec => []OffByRounding
  <1>1. PipeInv => OffByRounding
    BY DEF PipeInv, ItemsAreTrue
  <1>2. QED
    BY <1>1, PipelineInvariant, PTL

(* The queue item tells the approver what became of the bill               *)
(* (DepartmentManager.run, _merge_results, SyscohadaBillProposer.build).   *)
THEOREM PipelineItemTellsTheBill == PipelineSpec => []ItemTellsTheBill
  <1>1. PipeInv => LinesKeepTheirAccount
    <2> SUFFICES ASSUME PipeInv, stage = "proposer",
                        \A j, k \in DOMAIN answers :
                           answers[k].index # Omitted /\ (j # k => answers[j].index # answers[k].index)
                 PROVE  /\ Len(classified) = Len(bill.amounts)
                        /\ \A k \in DOMAIN answers :
                              answers[k].index \in DOMAIN classified =>
                                  classified[answers[k].index].code = answers[k].code
                        /\ \A n \in DOMAIN classified :
                              classified[n].code # NoCode => \E k \in DOMAIN answers : answers[k].index = n
      BY DEF LinesKeepTheirAccount
    <2>1. stage = Order[3] /\ stage # "finish"
      BY OrderIs
    <2>2. Len(results) = 2 /\ \A k \in 1 .. Len(results) : results[k].ok
      <3>1. 3 \in 1 .. 4 /\ \A n \in 1 .. 4 : stage = Order[n] => Len(results) = n - 1
        BY DEF PipeInv, StageFollows
      <3>2. \A k \in 1 .. Len(results) : results[k].ok
        BY <2>1 DEF PipeInv, StageFollows
      <3>3. Len(results) = 3 - 1
        BY <2>1, <3>1
      <3>4. QED
        BY <3>2, <3>3
    <2>3. Passed(2)
      BY <2>2 DEF Passed
    <2>4. /\ classified = MergeResults(bill.amounts, answers)
          /\ DOMAIN answers = 1 .. Len(answers)
          /\ bill.amounts \in Seq(Int)
      BY <2>3 DEF PipeInv, ContextFollows, PipeTypeOK, BillRow
    <2>5. IsMerge(classified, MergedLines(bill.amounts, answers), bill.amounts, answers)
      BY <2>4, MergeIs
    <2>6. QED
      BY <2>4, <2>5, MergeAligns
  <1>2. PipeInv => ItemTellsTheBill
    BY <1>1 DEF ItemTellsTheBill, PipeInv, ItemsAreTrue
  <1>3. QED
    BY <1>2, PipelineInvariant, PTL
=============================================================================
