--------------------------- MODULE PlatformProofs ---------------------------
(***************************************************************************)
(* Proofs about the platform around the departments, each for every value  *)
(* of the constants: the report of the drift detector is true, a request   *)
(* stays in its tenant, the poller skips nothing, and a connection is what *)
(* was saved in it.                                                        *)
(***************************************************************************)
EXTENDS ErpDrift, OdooPoller, TenantSession, Connections, FiniteSetTheorems,
        WellFoundedInduction, TLAPS

-----------------------------------------------------------------------------
(* ErpDrift.  People write to the moves of sagas, so of the sagas' own     *)
(* invariant only what concerns rows is left; of moves it holds as long as *)
(* nobody has touched them.                                                *)

DriftPcs == {"idle", "recorded", "states"}
ErpStates == {"absent", "draft", "posted", "cancel"}

FlightTypes ==
    /\ opStatus \in [Ops -> OpStatuses]
    /\ externalId \in [Ops -> Moves \cup {NoMove}]
    /\ moveState \in [Moves -> ErpStates]
    /\ pc \in [Runners -> InFunc \cup {"idle", "sleeping", "returned"}]
    /\ cur \in [Runners -> Ops \cup {NoOp}]
    /\ made \in [Runners -> Moves \cup {NoMove}]

DriftTypeOK ==
    /\ FlightTypes
    /\ driftPc \in DriftPcs
    /\ listing \in BOOLEAN
    /\ recorded \subseteq Moves /\ missing \subseteq Moves /\ mismatched \subseteq Moves
    /\ untracked \subseteq Moves
    /\ touched \subseteq Moves /\ successBefore \subseteq Moves

(* An operation in flight has one runner and no recorded move yet. *)
FlightInv ==
    /\ \A r \in Runners :
          /\ pc[r] # "idle" => cur[r] \in Ops /\ opStatus[cur[r]] # "absent"
          /\ pc[r] \in InFunc \cup {"sleeping"} => opStatus[cur[r]] = "in_flight"
          /\ pc[r] \in {"created", "posted"} => made[r] \in Moves
          /\ \A q \in Runners : r # q /\ pc[r] # "idle" /\ pc[q] # "idle" => cur[r] # cur[q]
    /\ \A o \in Ops : externalId[o] # NoMove => opStatus[o] = "success"

(* What is recorded, or about to be, is posted unless somebody touched it. *)
UntouchedInv ==
    /\ \A o \in Ops : externalId[o] \in Moves \ touched => moveState[externalId[o]] = "posted"
    /\ \A r \in Runners :
          pc[r] = "posted" /\ made[r] \notin touched => moveState[made[r]] = "posted"
    /\ \A m \in recorded \ touched : moveState[m] = "posted"

(* The run knows what was recorded when it began, and as long as nothing   *)
(* happens this is what is recorded now.                                   *)
RunInv ==
    /\ driftPc # "idle" => recorded = successBefore
    /\ driftPc # "idle" /\ postedMeanwhile = {} => recorded = RecordedMoves

DriftInv == DriftTypeOK /\ FlightInv /\ UntouchedInv /\ RunInv /\ ReportIsTrue

LEMMA InitDriftInv == DriftInit => DriftInv
  <1> SUFFICES ASSUME DriftInit PROVE DriftInv
    OBVIOUS
  <1> USE DEF DriftInit, SagaInit
  <1>1. DriftTypeOK
    BY DEF DriftTypeOK, FlightTypes, OpStatuses, ErpStates, DriftPcs
  <1>2. FlightInv /\ UntouchedInv /\ RunInv
    BY SagaAssumption DEF FlightInv, UntouchedInv, RunInv, InFunc
  <1>3. ReportIsTrue
    BY DEF ReportIsTrue, DriftIsHuman, DriftIsFound, UntrackedIsUnrecorded, Reported
  <1>4. QED
    BY <1>1, <1>2, <1>3 DEF DriftInv

(* A saga's step on rows and locals, whatever people do to the moves. *)
LEMMA SagaFlight ==
  ASSUME FlightTypes, FlightInv, SagaNext
  PROVE  FlightTypes' /\ FlightInv'
  <1> USE SagaAssumption DEF FlightTypes, OpStatuses, ErpStates, InFunc, rowVars, erpVars
  <1>1. ASSUME NEW r \in Runners, NEW o \in Ops, Begin(r, o) PROVE FlightTypes' /\ FlightInv'
    BY <1>1 DEF Begin, FlightInv
  <1>2. ASSUME NEW r \in Runners, NEW m \in Moves, CreateMove(r, m)
        PROVE  FlightTypes' /\ FlightInv'
    BY <1>2 DEF CreateMove, FlightInv
  <1>3. ASSUME NEW r \in Runners, PostMove(r) PROVE FlightTypes' /\ FlightInv'
    BY <1>3 DEF PostMove, FlightInv
  <1>4. ASSUME NEW r \in Runners, RecordSuccess(r) PROVE FlightTypes' /\ FlightInv'
    BY <1>4 DEF RecordSuccess, Answered, FlightInv
  <1>5. ASSUME NEW r \in Runners, NEW c \in Causes, BackOff(r, c)
        PROVE  FlightTypes' /\ FlightInv'
    BY <1>5 DEF BackOff, Raised, FlightInv
  <1>6. ASSUME NEW r \in Runners, NEW c \in Causes, Escalate(r, c) \/ FailFast(r, c)
        PROVE  FlightTypes' /\ FlightInv'
    BY <1>6 DEF Escalate, FailFast, Raised, EscalatedStatus, FlightInv
  <1>7. ASSUME NEW r \in Runners, Wake(r) \/ Leave(r) \/ Crash(r)
        PROVE  FlightTypes' /\ FlightInv'
    BY <1>7 DEF Wake, Leave, Crash, FlightInv
  <1>8. QED
    BY <1>1, <1>2, <1>3, <1>4, <1>5, <1>6, <1>7 DEF SagaNext, SagaStep

(* What a saga's step does to moves, to the recorded ones among them, and  *)
(* to what the detector remembers of the step.                             *)
LEMMA SagaMoves ==
  ASSUME DriftInv, SagaRuns
  PROVE  /\ \A m \in Moves : moveState[m] = "posted" => moveState'[m] = "posted"
         /\ \A m \in Moves \ postedMeanwhile' : moveState'[m] = moveState[m]
         /\ postedMeanwhile' = {} => postedMeanwhile = {} /\ RecordedMoves' = RecordedMoves
         /\ \A o \in Ops : externalId'[o] \in Moves =>
               \/ externalId'[o] = externalId[o]
               \/ \E r \in Runners : pc[r] = "posted" /\ externalId'[o] = made[r]
         /\ \A r \in Runners : pc'[r] = "posted" =>
               /\ made'[r] = made[r]
               /\ pc[r] = "posted" \/ moveState'[made[r]] = "posted"
  <1> USE DEF DriftInv, DriftTypeOK, FlightTypes, SagaRuns
  <1>1. \A m \in Moves : moveState[m] = "posted" => moveState'[m] = "posted"
    BY DEF SagaNext, SagaStep, Begin, CreateMove, PostMove, RecordSuccess, BackOff, Escalate,
           FailFast, Wake, Leave, Crash, erpVars, FlightInv
  <1>2. \A m \in Moves \ postedMeanwhile' : moveState'[m] = moveState[m]
    OBVIOUS
  <1>3. /\ \A o \in Ops : externalId'[o] \in Moves =>
              \/ externalId'[o] = externalId[o]
              \/ \E r \in Runners : pc[r] = "posted" /\ externalId'[o] = made[r]
        /\ \A r \in Runners : pc'[r] = "posted" =>
              /\ made'[r] = made[r]
              /\ pc[r] = "posted" \/ moveState'[made[r]] = "posted"
    BY DEF SagaNext, SagaStep, Begin, CreateMove, PostMove, RecordSuccess, Answered, BackOff,
           Escalate, FailFast, Raised, Wake, Leave, Crash, erpVars, rowVars, FlightInv
  <1>4. ASSUME postedMeanwhile' = {} PROVE RecordedMoves' = RecordedMoves
    <2>1. {externalId'[o] : o \in Ops} \subseteq {externalId[o] : o \in Ops}
      BY <1>4
    <2>2. ASSUME NEW r \in Runners, RecordSuccess(r) PROVE RecordedMoves' = RecordedMoves
      <3>1. /\ cur[r] \in Ops /\ opStatus[cur[r]] = "in_flight" /\ made[r] \in Moves
            /\ externalId[cur[r]] = NoMove
        BY <2>2 DEF RecordSuccess, Answered, FlightInv, InFunc
      <3>2. /\ opStatus' = [opStatus EXCEPT ![cur[r]] = "success"]
            /\ externalId' = [externalId EXCEPT ![cur[r]] = made[r]]
        BY <2>2 DEF RecordSuccess
      <3>3. PICK p \in Ops : externalId[p] = made[r]
        BY SMTT(30), <2>1, <3>1, <3>2
      <3>4. opStatus[p] = "success" /\ p # cur[r]
        BY <3>1, <3>3, SagaAssumption DEF FlightInv
      <3>5. QED
        BY <3>1, <3>2, <3>3, <3>4 DEF RecordedMoves
    <2>3. ASSUME ~(\E r \in Runners : RecordSuccess(r)) PROVE RecordedMoves' = RecordedMoves
      <3>1. /\ UNCHANGED externalId
            /\ \A o \in Ops : opStatus'[o] = "success" <=> opStatus[o] = "success"
        BY <2>3 DEF SagaNext, SagaStep, Begin, CreateMove, PostMove, BackOff, Escalate,
                    FailFast, Raised, EscalatedStatus, Wake, Leave, Crash, rowVars, FlightInv,
                    InFunc
      <3>2. QED
        BY <3>1 DEF RecordedMoves
    <2>4. QED
      BY <2>2, <2>3
  <1>5. QED
    BY <1>1, <1>2, <1>3, <1>4

LEMMA SagaRunsDriftInv ==
  ASSUME DriftInv, SagaRuns PROVE DriftInv'
  <1> USE DEF DriftInv
  <1>1. /\ UNCHANGED <<driftPc, listing, recorded, reportVars, touched, touchedBefore,
                       successBefore>>
        /\ SagaNext
    BY DEF SagaRuns
  <1>2. DriftTypeOK' /\ FlightInv'
    BY <1>1, SagaFlight DEF DriftTypeOK, reportVars
  <1>3. UntouchedInv'
    <2>1. \A o \in Ops : externalId'[o] \in Moves \ touched' => moveState'[externalId'[o]] = "posted"
      BY <1>1, SagaMoves DEF UntouchedInv
    <2>2. \A r \in Runners :
             pc'[r] = "posted" /\ made'[r] \notin touched' => moveState'[made'[r]] = "posted"
      BY <1>1, SagaMoves DEF UntouchedInv, FlightInv
    <2>3. \A m \in recorded' \ touched' : moveState'[m] = "posted"
      BY <1>1, SagaMoves DEF UntouchedInv, DriftTypeOK
    <2>4. QED
      BY <2>1, <2>2, <2>3 DEF UntouchedInv
  <1>4. RunInv'
    BY <1>1, SagaMoves DEF RunInv
  <1>5. DriftIsHuman'
    BY <1>1 DEF ReportIsTrue, DriftIsHuman, reportVars
  <1>6. DriftIsFound'
    <2>1. postedMeanwhile \subseteq postedMeanwhile'
      BY DEF SagaRuns
    <2>2. QED
      BY <1>1, <2>1, SagaMoves DEF ReportIsTrue, DriftIsFound, Reported, reportVars, DriftTypeOK
  <1>7. UntrackedIsUnrecorded'
    BY <1>1, SagaMoves DEF ReportIsTrue, UntrackedIsUnrecorded, reportVars
  <1>8. QED
    BY <1>2, <1>3, <1>4, <1>5, <1>6, <1>7 DEF ReportIsTrue

LEMMA HumanDriftInv ==
  ASSUME DriftInv, NEW m \in Moves, NEW s \in ErpStates, HumanWrites(m, s)
  PROVE  DriftInv'
  <1> USE DEF DriftInv
  <1>1. /\ UNCHANGED <<rowVars, localVars, driftPc, listing, recorded, reportVars,
                       touchedBefore, successBefore>>
        /\ moveState' = [moveState EXCEPT ![m] = s]
        /\ touched' = touched \cup {m} /\ postedMeanwhile' = postedMeanwhile \cup {m}
    BY DEF HumanWrites
  <1>2. DriftTypeOK' /\ FlightInv'
    BY <1>1 DEF DriftTypeOK, FlightTypes, FlightInv, rowVars, localVars, reportVars
  <1>3. UntouchedInv' /\ RunInv'
    BY <1>1 DEF UntouchedInv, RunInv, RecordedMoves, DriftTypeOK, FlightTypes, rowVars, localVars,
                FlightInv
  <1>4. ReportIsTrue'
    BY <1>1 DEF ReportIsTrue, DriftIsHuman, DriftIsFound, UntrackedIsUnrecorded, Reported,
                DriftTypeOK, FlightTypes, rowVars, reportVars
  <1>5. QED
    BY <1>2, <1>3, <1>4

(* The steps of the detector: none touches a saga or the ERP. *)
LEMMA DetectorDriftInv ==
  ASSUME DriftInv, ReadRecorded \/ ReadStates \/ ListPosted \/ ReadFails
  PROVE  DriftInv'
  <1> USE DEF DriftInv
  <1>1. UNCHANGED <<sagaVars, touched>>
    BY DEF ReadRecorded, ReadStates, ListPosted, ReadFails, driftHistory
  <1>2. FlightTypes' /\ FlightInv'
    BY <1>1 DEF FlightInv, DriftTypeOK, FlightTypes, sagaVars, rowVars, erpVars, localVars
  <1>3. RecordedMoves' = RecordedMoves /\ RecordedMoves \subseteq Moves
    BY <1>1 DEF RecordedMoves, sagaVars, rowVars, DriftTypeOK, FlightTypes
  <1>4. \A k \in Moves : /\ (StateRead(k) = NoState <=> moveState[k] = "absent")
                         /\ (StateRead(k) # NoState => StateRead(k) = moveState[k])
    BY DriftAssumption DEF StateRead, DriftTypeOK, FlightTypes, ErpStates
  <1>5. \A k \in RecordedMoves \ touched : moveState[k] = "posted"
    BY DEF RecordedMoves, UntouchedInv, DriftTypeOK, FlightTypes
  <1>6. CASE ReadRecorded
    <2>1. DriftTypeOK'
      BY <1>1, <1>2, <1>3, <1>6 DEF ReadRecorded, DriftTypeOK, DriftPcs
    <2>2. UntouchedInv' /\ RunInv'
      BY <1>1, <1>3, <1>5, <1>6 DEF ReadRecorded, UntouchedInv, RunInv, sagaVars, rowVars,
                                    erpVars, localVars
    <2>3. ReportIsTrue'
      BY <1>6 DEF ReadRecorded, ReportIsTrue, DriftIsHuman, DriftIsFound,
                  UntrackedIsUnrecorded, Reported
    <2>4. QED
      BY <1>2, <2>1, <2>2, <2>3
  <1>7. CASE ReadStates
    <2>1. DriftTypeOK' /\ UntouchedInv' /\ RunInv'
      BY <1>1, <1>2, <1>3, <1>7 DEF ReadStates, DriftTypeOK, DriftPcs, UntouchedInv, RunInv,
                                    sagaVars, rowVars, erpVars, localVars, driftHistory
    <2>2. ReportIsTrue'
      <3>1. DriftIsHuman'
        BY <1>1, <1>4, <1>7 DEF ReadStates, DriftIsHuman, UntouchedInv, IsMismatch, DriftTypeOK
      <3>2. DriftIsFound'
        BY <1>1, <1>4, <1>7 DEF ReadStates, DriftIsFound, RunInv, IsMismatch, DriftTypeOK,
                                sagaVars, erpVars, driftHistory
      <3>3. UntrackedIsUnrecorded'
        BY <1>7 DEF ReadStates, ReportIsTrue, UntrackedIsUnrecorded, driftHistory
      <3>4. QED
        BY <3>1, <3>2, <3>3 DEF ReportIsTrue
    <2>3. QED
      BY <1>2, <2>1, <2>2
  <1>8. CASE ListPosted
    <2>1. DriftTypeOK' /\ UntouchedInv' /\ RunInv'
      BY <1>1, <1>2, <1>8 DEF ListPosted, NotRecorded, DriftTypeOK, DriftPcs, UntouchedInv,
                              RunInv, sagaVars, rowVars, erpVars, localVars, driftHistory
    <2>2. ReportIsTrue'
      BY <1>1, <1>3, <1>8 DEF ListPosted, NotRecorded, ReportIsTrue, DriftIsHuman, DriftIsFound,
                 UntrackedIsUnrecorded, Reported, RunInv, sagaVars, erpVars, driftHistory
    <2>3. QED
      BY <1>2, <2>1, <2>2
  <1>9. CASE ReadFails
    <2>1. DriftTypeOK' /\ UntouchedInv' /\ RunInv'
      BY <1>1, <1>2, <1>9 DEF ReadFails, DriftTypeOK, DriftPcs, UntouchedInv, RunInv, sagaVars,
                              rowVars, erpVars, localVars, driftHistory
    <2>2. ReportIsTrue'
      BY <1>9 DEF ReadFails, ReportIsTrue, DriftIsHuman, DriftIsFound, UntrackedIsUnrecorded,
                  Reported
    <2>3. QED
      BY <1>2, <2>1, <2>2
  <1>10. QED
    BY <1>6, <1>7, <1>8, <1>9

(* The nightly report: it calls drift only what somebody did in the ERP,   *)
(* all of what somebody had done when it began, and lists as untracked no  *)
(* entry of an operation that had succeeded, while sagas and people go on. *)
THEOREM DriftReportIsTrue == DriftSpec => []ReportIsTrue
  <1>1. DriftInv /\ [DriftNext]_driftVars => DriftInv'
    <2> SUFFICES ASSUME DriftInv, [DriftNext]_driftVars PROVE DriftInv'
      OBVIOUS
    <2>1. CASE UNCHANGED driftVars
      BY <2>1 DEF driftVars, sagaVars, rowVars, erpVars, localVars, reportVars, driftHistory,
                  DriftInv, DriftTypeOK, FlightTypes, FlightInv, UntouchedInv, RunInv,
                  RecordedMoves, ReportIsTrue, DriftIsHuman, DriftIsFound,
                  UntrackedIsUnrecorded, Reported
    <2>2. QED
      BY <2>1, SagaRunsDriftInv, HumanDriftInv, DetectorDriftInv DEF DriftNext, ErpStates
  <1>2. DriftInv => ReportIsTrue
    BY DEF DriftInv
  <1>3. QED
    BY <1>1, <1>2, InitDriftInv, PTL DEF DriftSpec

-----------------------------------------------------------------------------
(* TenantSession. *)

ReqPcs == {"idle", "arrived", "view", "naming"}

SessTypeOK ==
    /\ members \in [Tenants -> SUBSET People]
    /\ pointer \in Tenants \cup {NoTenant}
    /\ mode \in DatabaseModes
    /\ reqPc \in [Requests -> ReqPcs]
    /\ reqSession \in [Requests -> Tenants \cup {NoTenant}]
    /\ dirty \in [Requests -> BOOLEAN]
    /\ reqTenant \in [Requests -> Tenants \cup {NoTenant}]
    /\ readTenants \in [Requests -> SUBSET Tenants]
    /\ listed \in [Requests -> SUBSET People]
    /\ approver \in [Tenants -> People \cup {Nobody}]
    /\ revoked \subseteq Tenants \X People
    /\ wanted \in Tenants \cup {NoTenant}
    /\ contended \in BOOLEAN
    /\ leftOut \in BOOLEAN

(* A person of a tenant, or one whose membership ended with a page open. *)
WasMember(k, u) == u \in members[k] \/ <<k, u>> \in revoked

(* What a request knows comes from its tenant, whose member I was. *)
RequestInv ==
    \A t \in Requests :
        /\ reqPc[t] \in {"idle", "arrived"} =>
              ~dirty[t] /\ reqTenant[t] = NoTenant /\ readTenants[t] = {} /\ listed[t] = {}
        /\ reqPc[t] = "naming" => reqTenant[t] # NoTenant
        /\ reqTenant[t] # NoTenant => WasMember(reqTenant[t], Me)
        /\ t \notin unfiltered => readTenants[t] \subseteq {reqTenant[t]} \ {NoTenant}
        /\ \A u \in listed[t] : reqTenant[t] # NoTenant /\ WasMember(reqTenant[t], u)

(* After a switch, one request at a time has, or will store, the tenant    *)
(* switched to; row-level security lets nobody switch.                     *)
SwitchInv ==
    wanted # NoTenant =>
        /\ mode # "rls"
        /\ ~contended /\ ~leftOut =>
              /\ wanted \in Mine
              /\ \A t, u \in Open : t = u
              /\ Open = {} => pointer = wanted
              /\ \A t \in Open : reqSession[t] = wanted /\ (dirty[t] \/ pointer = wanted)

SessInv == SessTypeOK /\ RequestInv /\ SwitchInv

(* A set of naturals that is not empty has a least element. *)
LEMMA LeastNatural ==
  ASSUME NEW T \in SUBSET Nat, T # {}
  PROVE  \E n \in T : \A m \in T : n <= m
  <1> DEFINE R == OpToRel(<, Nat)
  <1>1. IsWellFoundedOn(R, Nat)
    BY NatLessThanWellFounded
  <1> HIDE DEF R
  <1>2. PICK n \in T : \A m \in T : ~(<<m, n>> \in R)
    BY <1>1, WFMin
  <1>3. \A m \in T : ~(m < n)
    BY <1>2 DEF R, OpToRel
  <1>4. QED
    BY <1>3

(* _resolve_tenant: to an active membership, the session's if it is one.   *)
LEMMA ResolvedIsMine ==
  ASSUME NEW p, NEW ks \in SUBSET Tenants
  PROVE  /\ Resolved(p, ks) \in ks \cup {NoTenant}
         /\ p \in ks => Resolved(p, ks) = p
  <1>1. ASSUME ks # {} PROVE FirstOf(ks) \in ks
    <2> DEFINE ranks == {Joined[k] : k \in ks}
    <2>1. ranks \in SUBSET Nat /\ ranks # {}
      BY <1>1, SessionAssumption
    <2>2. PICK n \in ranks : \A m \in ranks : n <= m
      BY <2>1, LeastNatural
    <2>3. \E k \in ks : \A j \in ks : Joined[k] <= Joined[j]
      BY <2>2
    <2>4. QED
      BY <2>3 DEF FirstOf
  <1>2. QED
    BY <1>1 DEF Resolved

LEMMA InitSessInv == SessInit => SessInv
  <1> SUFFICES ASSUME SessInit PROVE SessInv
    OBVIOUS
  <1>1. SessTypeOK
    BY SessionAssumption DEF SessInit, SessTypeOK, ReqPcs
  <1>2. RequestInv /\ SwitchInv
    BY DEF SessInit, RequestInv, SwitchInv
  <1>3. QED
    BY <1>1, <1>2 DEF SessInv

LEMMA ArriveSessInv ==
  ASSUME SessInv, NEW t \in Requests, Arrive(t) PROVE SessInv'
  <1> USE DEF SessInv, SessTypeOK, rows, request, sessHistory, Arrive
  <1>1. SessTypeOK'
    BY DEF ReqPcs
  <1>2. RequestInv'
    BY DEF RequestInv, WasMember
  <1>3. SwitchInv'
    BY DEF SwitchInv, Open, Mine, RequestInv
  <1>4. QED
    BY <1>1, <1>2, <1>3

LEMMA ResolveSessInv ==
  ASSUME SessInv, NEW t \in Requests, Resolve(t) PROVE SessInv'
  <1> DEFINE k == Resolved(reqSession[t], MyVisibleMemberships)
  <1> USE DEF SessInv, SessTypeOK, rows, request, sessHistory
  <1>1. /\ MyVisibleMemberships \in SUBSET Tenants /\ MyVisibleMemberships \subseteq Mine
        /\ mode # "rls" => MyVisibleMemberships = Mine
    BY DEF MyVisibleMemberships, Mine, VisibleRows
  <1>2. /\ k \in Mine \cup {NoTenant} /\ k \in Tenants \cup {NoTenant}
        /\ mode # "rls" /\ reqSession[t] \in Mine => k = reqSession[t]
    BY <1>1, ResolvedIsMine
  <1> DEFINE d == k # reqSession[t]
  <1>3. /\ reqPc[t] = "arrived"
        /\ reqTenant' = [reqTenant EXCEPT ![t] = k]
        /\ reqSession' = [reqSession EXCEPT ![t] = k]
        /\ dirty' = [dirty EXCEPT ![t] = d] /\ d \in BOOLEAN
        /\ reqPc' = [reqPc EXCEPT ![t] = "view"]
        /\ UNCHANGED <<members, pointer, mode, readTenants, listed, approver, unfiltered,
                       revoked, wanted, contended, leftOut>>
    BY DEF Resolve
  <1> HIDE DEF k
  <1>4. SessTypeOK'
    BY <1>2, <1>3 DEF ReqPcs
  <1>5. RequestInv'
    BY <1>2, <1>3 DEF RequestInv, WasMember, Mine
  <1>6. SwitchInv'
    BY <1>2, <1>3 DEF SwitchInv, Open, Mine, RequestInv
  <1>7. QED
    BY <1>4, <1>5, <1>6

LEMMA QuerySessInv ==
  ASSUME SessInv, NEW t \in Requests, Query(t) PROVE SessInv'
  <1> USE DEF SessInv, SessTypeOK, rows, request, sessHistory, Query
  <1>1. ForTenant(reqTenant[t]) \in SUBSET Tenants
        /\ ForTenant(reqTenant[t]) \subseteq {reqTenant[t]} \ {NoTenant}
    BY SessionAssumption DEF ForTenant, VisibleRows, Setting
  <1>2. SessTypeOK'
    BY <1>1
  <1>3. RequestInv'
    BY <1>1 DEF RequestInv, WasMember
  <1>4. SwitchInv'
    BY DEF SwitchInv, Open, Mine
  <1>5. QED
    BY <1>2, <1>3, <1>4

LEMMA QueryUnfilteredSessInv ==
  ASSUME SessInv, NEW t \in Requests, QueryUnfiltered(t) PROVE SessInv'
  <1> USE DEF SessInv, SessTypeOK, rows, request, sessHistory, QueryUnfiltered
  <1>1. PICK ks \in {VisibleRows, Tenants} :
           readTenants' = [readTenants EXCEPT ![t] = @ \cup ks]
    OBVIOUS
  <1>2. ks \in SUBSET Tenants
    BY DEF VisibleRows, Setting
  <1>3. SessTypeOK'
    BY <1>1, <1>2
  <1>4. RequestInv'
    BY <1>1 DEF RequestInv, WasMember
  <1>5. SwitchInv'
    BY DEF SwitchInv, Open, Mine
  <1>6. QED
    BY <1>3, <1>4, <1>5

LEMMA SwitchSessInv ==
  ASSUME SessInv, NEW t \in Requests, NEW k \in Tenants, Switch(t, k) PROVE SessInv'
  <1> USE DEF SessInv, SessTypeOK, rows, request, sessHistory, Switch
  <1>1. mode # "rls" /\ k \in Mine
    BY DEF MyVisibleMemberships, VisibleRows, Setting
  <1>2. SessTypeOK'
    OBVIOUS
  <1>3. RequestInv'
    BY DEF RequestInv, WasMember
  <1>4. SwitchInv'
    <2>1. /\ reqPc[t] = "view" /\ UNCHANGED <<mode, members, reqPc>>
          /\ wanted' = k /\ reqSession'[t] = k /\ dirty'[t]
      OBVIOUS
    <2>2. Open' = Open /\ t \in Open /\ Mine' = Mine
      BY <2>1 DEF Open, Mine
    <2>3. ~contended' => Open = {t}
      OBVIOUS
    <2>4. QED
      BY <1>1, <2>1, <2>2, <2>3 DEF SwitchInv
  <1>5. QED
    BY <1>2, <1>3, <1>4

LEMMA RespondSessInv ==
  ASSUME SessInv, NEW t \in Requests, Respond(t) PROVE SessInv'
  <1> USE DEF SessInv, SessTypeOK, rows, request, sessHistory, Respond
  <1>1. SessTypeOK'
    BY DEF ReqPcs
  <1>2. RequestInv'
    <2>1. ASSUME NEW u \in Requests, revoked' # revoked, u # t
          PROVE  reqTenant[u] = NoTenant /\ listed[u] = {}
      BY <2>1 DEF RequestInv, Open
    <2>2. QED
      BY <2>1, SessionAssumption DEF RequestInv, WasMember
  <1>3. SwitchInv'
    BY DEF SwitchInv, Open, Mine
  <1>4. QED
    BY <1>1, <1>2, <1>3

LEMMA ApproverPageSessInv ==
  ASSUME SessInv, NEW t \in Requests,
         ListMembers(t) \/ \E u \in People \cup {Nobody} : NameApprover(t, u)
  PROVE  SessInv'
  <1> USE DEF SessInv, SessTypeOK, rows, request, sessHistory, ListMembers, NameApprover
  <1>1. SessTypeOK'
    BY DEF ReqPcs
  <1>2. RequestInv'
    BY DEF RequestInv, WasMember
  <1>3. SwitchInv'
    BY DEF SwitchInv, Open, Mine
  <1>4. QED
    BY <1>1, <1>2, <1>3

LEMMA SubscriptionSessInv ==
  ASSUME SessInv, NEW t \in Requests, NEW k \in Tenants, NEW u \in People \cup {Nobody},
         SaveSubscription(t, k, u)
  PROVE  SessInv'
  <1> USE DEF SessInv, SessTypeOK, rows, request, sessHistory, SaveSubscription
  <1>1. SessTypeOK'
    OBVIOUS
  <1>2. RequestInv'
    BY DEF RequestInv, WasMember
  <1>3. SwitchInv'
    BY DEF SwitchInv, Open, Mine
  <1>4. QED
    BY <1>1, <1>2, <1>3

LEMMA MembershipSessInv ==
  ASSUME SessInv, NEW k \in Tenants, NEW u \in People, Grant(k, u) \/ Revoke(k, u)
  PROVE  SessInv'
  <1> USE DEF SessInv, SessTypeOK, rows, request, sessHistory, Grant, Revoke
  <1>1. SessTypeOK'
    <2>1. members' \in [Tenants -> SUBSET People] /\ revoked' \subseteq Tenants \X People
      OBVIOUS
    <2>2. leftOut' \in BOOLEAN
      OBVIOUS
    <2>3. QED
      BY <2>1, <2>2
  <1>2. \A j \in Tenants, v \in People : WasMember(j, v) => WasMember(j, v)'
    BY DEF WasMember
  <1>3. RequestInv'
    BY <1>2, SessionAssumption DEF RequestInv
  <1>4. SwitchInv'
    <2>1. Open' = Open /\ UNCHANGED <<mode, wanted, contended, pointer, reqSession, dirty>>
      BY DEF Open
    <2>2. ~leftOut' => ~leftOut
      OBVIOUS
    <2>3. wanted \in Mine /\ ~leftOut' => wanted \in Mine'
      BY DEF Mine
    <2>4. QED
      BY <2>1, <2>2, <2>3 DEF SwitchInv
  <1>5. QED
    BY <1>1, <1>3, <1>4

LEMMA NextSessInv ==
  ASSUME SessInv, [SessNext]_sessVars PROVE SessInv'
  <1>1. CASE UNCHANGED sessVars
    BY <1>1 DEF sessVars, rows, request, sessHistory, SessInv, SessTypeOK, RequestInv, WasMember, SwitchInv, Open, Mine
  <1>2. QED
    BY <1>1, ArriveSessInv, ResolveSessInv, QuerySessInv, QueryUnfilteredSessInv,
       SwitchSessInv, RespondSessInv, ApproverPageSessInv, SubscriptionSessInv,
       MembershipSessInv DEF SessNext

(* A request that opened no unfiltered admin page reads the rows of one    *)
(* tenant, one its user was a member of; a switch lasts until the          *)
(* membership ends; an approver the admin did not choose was named from    *)
(* the members of his own tenant.                                          *)
THEOREM SessionTenantIsRespected == SessSpec => TenantIsRespected
  <1>1. SessInv => RequestStaysInMyTenant /\ SwitchSticks
    BY DEF SessInv, SessTypeOK, RequestInv, SwitchInv, WasMember, Mine, RequestStaysInMyTenant,
           SwitchSticks
  <1>2. SessInv /\ [SessNext]_sessVars => ApproverIsMember
    <2> SUFFICES ASSUME SessInv, [SessNext]_sessVars PROVE ApproverIsMember
      OBVIOUS
    <2>1. CASE UNCHANGED approver
      BY <2>1 DEF ApproverIsMember
    <2>2. ASSUME NEW t \in Requests, NEW u \in People \cup {Nobody}, NameApprover(t, u)
          PROVE  ApproverIsMember
      BY <2>2 DEF NameApprover, EligibleApprovers, SessInv, SessTypeOK, RequestInv, WasMember,
                  ApproverIsMember
    <2>3. ASSUME NEW t \in Requests, NEW k \in Tenants, NEW u \in People \cup {Nobody},
                 SaveSubscription(t, k, u)
          PROVE  ApproverIsMember
      BY <2>3 DEF SaveSubscription, SessInv, SessTypeOK, ApproverIsMember
    <2>4. QED
      BY <2>1, <2>2, <2>3
         DEF SessNext, Arrive, Resolve, Query, QueryUnfiltered, Respond, Switch, ListMembers,
             Grant, Revoke, sessVars, rows
  <1>3. SessInv /\ SessInv' /\ [SessNext]_sessVars =>
            [RequestStaysInMyTenant' /\ SwitchSticks' /\ ApproverIsMember]_sessVars
    <2>1. SessInv' => RequestStaysInMyTenant' /\ SwitchSticks'
      BY DEF SessInv, SessTypeOK, RequestInv, SwitchInv, WasMember, Mine,
             RequestStaysInMyTenant, SwitchSticks
    <2>2. QED
      BY <1>2, <2>1
  <1>4. QED
    BY <1>3, InitSessInv, NextSessInv, PTL DEF SessSpec, TenantIsRespected

-----------------------------------------------------------------------------
(* OdooPoller. *)

PollTypeOK ==
    /\ stamp \in [MoveIds -> Nat]
    /\ second \in Nat \ {0}
    /\ posted \subseteq MoveIds /\ IsFiniteSet(posted)
    /\ watermark \in Nat /\ furthest \in Nat

(* A poll starts where one has been; what is visible has its date. *)
PollInv == /\ PollTypeOK
           /\ watermark <= furthest
           /\ \A m \in posted : stamp[m] # 0
           /\ PassedIsReported

(* Entries that match the search and come before m in its order. *)
Before(since, m) == {n \in Matching(since) : ByDateThenId(n, m)}

LEMMA BeforeGrows ==
  ASSUME PollTypeOK, NEW since, NEW n \in Matching(since), NEW m \in Matching(since)
  PROVE  /\ Cardinality(Before(since, m)) \in Nat
         /\ ByDateThenId(n, m) =>
               Cardinality(Before(since, n)) < Cardinality(Before(since, m))
         /\ n = m \/ ByDateThenId(n, m) \/ ByDateThenId(m, n)
  <1> USE PollAssumption DEF PollTypeOK, Matching
  <1>1. \A k \in Matching(since) : /\ IsFiniteSet(Before(since, k))
                                   /\ Cardinality(Before(since, k)) \in Nat
    BY FS_Subset, FS_CardinalityType DEF Before
  <1>2. ASSUME ByDateThenId(n, m)
        PROVE  Cardinality(Before(since, n)) < Cardinality(Before(since, m))
    <2>1. ASSUME NEW k \in Matching(since), ByDateThenId(k, n) PROVE ByDateThenId(k, m)
      <3>1. \A j \in {k, n, m} : j \in Nat /\ stamp[j] \in Nat
        BY <2>1
      <3>2. QED
        BY <1>2, <2>1, <3>1 DEF ByDateThenId
    <2>2. n \in Before(since, m) /\ n \notin Before(since, n)
      BY <1>2 DEF Before, ByDateThenId
    <2>3. /\ Before(since, n) \subseteq Before(since, m)
          /\ Before(since, n) # Before(since, m)
      BY <2>1, <2>2 DEF Before
    <2>4. QED
      BY <1>1, <2>3, FS_Subset
  <1>3. n = m \/ ByDateThenId(n, m) \/ ByDateThenId(m, n)
    BY DEF ByDateThenId
  <1>4. QED
    BY <1>1, <1>2, <1>3

(* An answer that leaves a match out is full, and ends before the match.   *)
LEMMA LeftOutIsLater ==
  ASSUME PollTypeOK, NEW since, NEW m \in Matching(since), m \notin Fetched(since)
  PROVE  /\ Cardinality(Fetched(since)) = PollLimit
         /\ \A n \in Fetched(since) : stamp[n] <= stamp[m]
  <1> DEFINE F == Fetched(since)
             S == Matching(since)
             rank(k) == Cardinality(Before(since, k))
  <1>1. \A k \in S : rank(k) \in Nat /\ (k \in F <=> rank(k) < PollLimit)
    BY BeforeGrows DEF Fetched, Before
  <1>2. \A j, k \in S : ByDateThenId(j, k) => rank(j) < rank(k)
    BY BeforeGrows
  <1>3. \A j, k \in S : j = k \/ ByDateThenId(j, k) \/ ByDateThenId(k, j)
    BY BeforeGrows
  <1>4. F \subseteq S /\ IsFiniteSet(F) /\ Cardinality(F) \in Nat /\ PollLimit \in Nat \ {0}
    BY FS_Subset, FS_CardinalityType, PollAssumption DEF Fetched, Matching, PollTypeOK
  <1>5. \A k \in S : Before(since, k) \subseteq S /\ IsFiniteSet(Before(since, k))
    BY FS_Subset DEF Before, Matching, PollTypeOK
  <1>6. \A j, k \in S : j \in Before(since, k) <=> ByDateThenId(j, k)
    BY DEF Before
  <1> HIDE DEF F, S, rank
  <1>7. PICK first \in S \ F : \A k \in S \ F : rank(first) <= rank(k)
    <2> DEFINE ranks == {rank(k) : k \in S \ F}
    <2>1. ranks \in SUBSET Nat /\ ranks # {}
      BY <1>1 DEF F, S
    <2>2. PICK least \in ranks : \A k \in ranks : least <= k
      BY <2>1, LeastNatural
    <2>3. QED
      BY <2>2
  <1>8. F = Before(since, first)
    <2>1. ASSUME NEW n \in F PROVE n \in Before(since, first)
      <3>1. rank(n) < rank(first)
        BY <1>1, <1>4, <1>7, <2>1
      <3>2. ByDateThenId(n, first)
        BY <1>1, <1>2, <1>3, <1>4, <1>7, <3>1
      <3>3. QED
        BY <1>4, <1>6, <1>7, <3>2
    <2>2. ASSUME NEW n \in Before(since, first) PROVE n \in F
      <3>1. n \in S /\ rank(n) < rank(first)
        BY <1>2, <1>5, <1>6, <1>7, <2>2
      <3>2. QED
        BY <1>1, <1>7, <3>1
    <2>3. QED
      BY <2>1, <2>2
  <1>9. Cardinality(F) >= PollLimit
    BY <1>1, <1>4, <1>7, <1>8 DEF rank
  <1>10. PICK last \in F : \A k \in F : rank(k) <= rank(last)
    <2> DEFINE gaps == {PollLimit - rank(k) : k \in F}
    <2>1. F # {}
      BY <1>4, <1>9, FS_EmptySet
    <2>2. gaps \in SUBSET Nat /\ gaps # {}
      BY <1>1, <1>4, <2>1
    <2>3. PICK least \in gaps : \A k \in gaps : least <= k
      BY <2>2, LeastNatural
    <2>4. PICK last \in F : least = PollLimit - rank(last)
      BY <2>3
    <2>5. \A k \in F : PollLimit - rank(last) <= PollLimit - rank(k)
      BY <2>3, <2>4
    <2>6. \A k \in F : rank(k) <= rank(last)
      BY <1>1, <1>4, <2>4, <2>5
    <2>7. QED
      BY <2>6
  <1>11. Cardinality(F) <= PollLimit
    <2>1. F \ {last} \subseteq Before(since, last)
      BY <1>1, <1>2, <1>3, <1>4, <1>6, <1>10
    <2>2. Cardinality(F \ {last}) = Cardinality(F) - 1
      BY <1>4, <1>10, FS_RemoveElement
    <2>3. Cardinality(F \ {last}) <= rank(last)
      BY <1>4, <1>5, <1>10, <2>1, FS_Subset DEF rank
    <2>4. QED
      BY <1>1, <1>4, <1>10, <2>2, <2>3
  <1>12. ASSUME NEW n \in F PROVE stamp[n] <= stamp[m]
    <2>1. n \in S /\ m \in S /\ rank(n) < rank(m) /\ n # m
      BY <1>1, <1>4, <1>12 DEF F, S
    <2>2. ByDateThenId(n, m)
      BY <1>1, <1>2, <1>3, <2>1
    <2>3. stamp[n] \in Nat /\ stamp[m] \in Nat
      BY <2>1 DEF S, Matching, PollTypeOK
    <2>4. QED
      BY <2>2, <2>3 DEF ByDateThenId
  <1>13. QED
    BY <1>4, <1>9, <1>11, <1>12 DEF F

(* The last date of an answer is the date of an entry in it. *)
LEMMA LastDateIsLast ==
  ASSUME PollTypeOK, NEW ms \in SUBSET posted, ms # {}
  PROVE  /\ \E n \in ms : stamp[n] = LastDate(ms)
         /\ \A m \in ms : stamp[m] <= LastDate(ms)
         /\ LastDate(ms) \in Nat
  <1>1. PICK top \in ms : \A m \in ms : stamp[m] <= stamp[top]
    <2> DEFINE later(m) == {n \in ms : stamp[n] > stamp[m]}
               counts == {Cardinality(later(m)) : m \in ms}
    <2>1. \A m \in ms : IsFiniteSet(later(m)) /\ Cardinality(later(m)) \in Nat /\ stamp[m] \in Nat
      <3>1. IsFiniteSet(ms) /\ ms \subseteq MoveIds
        BY FS_Subset DEF PollTypeOK
      <3>2. ASSUME NEW m \in ms
            PROVE  /\ IsFiniteSet(later(m)) /\ Cardinality(later(m)) \in Nat
                   /\ stamp[m] \in Nat
        BY <3>1, FS_Subset, FS_CardinalityType DEF PollTypeOK
      <3>3. QED
        BY <3>2
    <2>2. counts \in SUBSET Nat /\ counts # {}
      BY <2>1
    <2>3. PICK least \in counts : \A k \in counts : least <= k
      BY <2>2, LeastNatural
    <2>4. PICK top \in ms : least = Cardinality(later(top))
      BY <2>3
    <2>5. ASSUME NEW m \in ms, ~(stamp[m] <= stamp[top]) PROVE FALSE
      <3>1. later(m) \subseteq later(top) /\ m \in later(top) /\ m \notin later(m)
        <4>1. \A n \in ms : stamp[n] \in Nat
          BY DEF PollTypeOK
        <4>2. stamp[top] < stamp[m]
          BY <2>5, <4>1
        <4>3. QED
          BY <4>1, <4>2
      <3>2. later(m) # later(top)
        BY <3>1
      <3>3. Cardinality(later(m)) \in counts
        BY <2>5
      <3> HIDE DEF later
      <3>4. Cardinality(later(m)) < Cardinality(later(top))
        BY <2>1, <3>1, <3>2, FS_Subset
      <3> HIDE DEF counts
      <3>5. QED
        BY <2>1, <2>3, <2>4, <3>3, <3>4
    <2>6. QED
      BY <2>4, <2>5
  <1>2. \E d \in {stamp[m] : m \in ms} : \A m \in ms : stamp[m] <= d
    BY <1>1
  <1>3. LastDate(ms) \in {stamp[m] : m \in ms} /\ \A m \in ms : stamp[m] <= LastDate(ms)
    BY <1>2 DEF LastDate
  <1>4. QED
    BY <1>3 DEF PollTypeOK

LEMMA PollPollInv ==
  ASSUME PollInv, NEW since \in 0 .. LastSecond, Poll(since)
  PROVE  PollInv'
  <1> DEFINE ms == Fetched(since)
             w == WatermarkAfter(ms, since)
  <1> USE DEF PollInv
  <1>1. since \in Nat /\ since <= furthest
    BY PollAssumption DEF Poll, PollTypeOK
  <1>2. ms \in SUBSET posted /\ \A m \in posted : stamp[m] > since => m \in Matching(since)
    BY DEF Fetched, Matching
  <1>3. /\ seen' = seen \cup (ms \ excluded)
        /\ watermark' = w
        /\ cutAt' = IF Cardinality(ms) = PollLimit THEN cutAt \cup {LastDate(ms)} ELSE cutAt
        /\ furthest' = IF w > furthest THEN w ELSE furthest
        /\ UNCHANGED <<second, stamp, posted, excluded, late>>
    BY DEF Poll, NotOwn
  <1>4. /\ w \in Nat
        /\ w > furthest => ms # {} /\ w = LastDate(ms)
    BY <1>1, <1>2, LastDateIsLast DEF WatermarkAfter, PollTypeOK
  <1> HIDE DEF ms, w
  <1>5. PollTypeOK' /\ watermark' <= furthest' /\ \A m \in posted' : stamp'[m] # 0
    BY <1>3, <1>4 DEF PollTypeOK
  <1>6. PassedIsReported'
    <2> SUFFICES ASSUME NEW m \in posted \ (excluded \cup late),
                        stamp[m] <= furthest', stamp[m] \notin cutAt'
                 PROVE  m \in seen'
      BY <1>3 DEF PassedIsReported
    <2>0. stamp[m] \in Nat /\ furthest \in Nat
      BY DEF PollTypeOK
    <2>1. CASE stamp[m] <= furthest
      BY <1>3, <2>1 DEF PassedIsReported
    <2>2. CASE ~(stamp[m] <= furthest)
      <3>1. w > furthest /\ ms # {} /\ w = LastDate(ms) /\ stamp[m] <= w
        BY <1>3, <1>4, <2>0, <2>2
      <3>2. m \in Matching(since)
        BY <1>1, <1>2, <2>0, <2>2
      <3>3. ASSUME m \notin ms PROVE FALSE
        <4>1. Cardinality(ms) = PollLimit /\ \A n \in ms : stamp[n] <= stamp[m]
          BY <3>2, <3>3, LeftOutIsLater DEF ms
        <4>2. stamp[m] # LastDate(ms)
          BY <1>3, <4>1
        <4>3. PICK n \in ms : stamp[n] = LastDate(ms)
          BY <1>2, <3>1, LastDateIsLast
        <4>4. QED
          BY <1>4, <2>0, <3>1, <4>1, <4>2, <4>3
      <3>4. QED
        BY <1>3, <3>3
    <2>3. QED
      BY <2>1, <2>2
  <1>7. QED
    BY <1>5, <1>6

LEMMA OdooPollInv ==
  ASSUME PollInv,
         \/ Tick
         \/ \E m \in MoveIds : \/ StartWrite(m)
                               \/ \E own \in BOOLEAN : CommitWrite(m, own)
                               \/ RecordOwn(m)
  PROVE  PollInv'
  <1> USE DEF PollInv, PollTypeOK, PassedIsReported
  <1>1. CASE Tick
    BY <1>1 DEF Tick
  <1>2. ASSUME NEW m \in MoveIds, StartWrite(m) PROVE PollInv'
    BY <1>2 DEF StartWrite
  <1>3. ASSUME NEW m \in MoveIds, NEW own \in BOOLEAN, CommitWrite(m, own) PROVE PollInv'
    <2>1. IsFiniteSet(posted')
      BY <1>3, FS_AddElement DEF CommitWrite
    <2>2. QED
      BY <1>3, <2>1 DEF CommitWrite
  <1>4. ASSUME NEW m \in MoveIds, RecordOwn(m) PROVE PollInv'
    BY <1>4 DEF RecordOwn
  <1>5. QED
    BY <1>1, <1>2, <1>3, <1>4

(* poll_posted_entries with its caller's loop: an entry the polls have     *)
(* passed was reported, unless it is recorded as the agent's, came late or *)
(* shares the second a truncated answer ended in; an answer that is not    *)
(* truncated leaves nothing after its start behind.                        *)
THEOREM PollerSkipsNothing == PollSpec => NothingIsSkipped
  <1>1. PollInit => PollInv
    BY FS_EmptySet DEF PollInit, PollInv, PollTypeOK, PassedIsReported
  <1>2. PollInv /\ [PollNext]_pollVars => PollInv'
    <2>1. ASSUME PollInv, UNCHANGED pollVars PROVE PollInv'
      BY <2>1 DEF pollVars, PollInv, PollTypeOK, PassedIsReported
    <2>2. QED
      BY <2>1, PollPollInv, OdooPollInv DEF PollNext
  <1>3. PollInv => OverlapRecoversLate
    <2> SUFFICES ASSUME PollInv, NEW since \in 0 .. LastSecond, Poll(since), ~truncated',
                        NEW m \in posted \ excluded, stamp[m] > since
                 PROVE  m \in seen'
      BY DEF OverlapRecoversLate
    <2>1. m \in Matching(since)
      BY DEF Matching
    <2>2. m \in Fetched(since)
      BY <2>1, LeftOutIsLater DEF Poll, PollInv
    <2>3. QED
      BY <2>2 DEF Poll, NotOwn
  <1>4. PollInv /\ PollInv' /\ [PollNext]_pollVars =>
            [PassedIsReported' /\ OverlapRecoversLate]_pollVars
    BY <1>3 DEF PollInv
  <1>5. QED
    BY <1>1, <1>2, <1>4, PTL DEF PollSpec, NothingIsSkipped

-----------------------------------------------------------------------------
(* Connections. *)

Writing == {"form", "testing", "probed"}
Config == [vendor : Vendors, url : Urls \cup {NoUrl}, key : Keys \cup {NoKey}]
Answer == [health : Healths, caps : SUBSET OdooCaps]

ConTypeOK ==
    /\ conRow \in [Connections -> Row]
    /\ exists \subseteq Connections
    /\ conPc \in [ConThreads -> Writing \cup {"idle", "built"}]
    /\ held \in [ConThreads -> Connections \cup {NoConnection}]
    /\ copy \in [ConThreads -> Row]
    /\ answer \in [ConThreads -> Answer]
    /\ lookedAt \in [ConThreads -> Config]
    /\ probed \in [Connections -> Config]
    /\ lastKey \in [Connections -> Keys \cup {NoKey}]
    /\ reconfigured \subseteq ConThreads

Writers(c) == {t \in ConThreads : conPc[t] \in Writing /\ held[t] = c}

(* The health in the row was found with the configuration in the row. *)
Tested(c) ==
    /\ probed[c] = ConfigOf(conRow[c])
    /\ conRow[c].health = "ok" => /\ conRow[c].vendor = "odoo" /\ conRow[c].url # NoUrl
                                  /\ conRow[c].caps = OdooCaps
    /\ conRow[c].vendor = "manual" => conRow[c].health = "unconfigured"
    /\ conRow[c].vendor = "sage" => conRow[c].health = "down"

(* Whoever may write a row that was never contended has a true copy of it  *)
(* and is alone; its answer is about that copy.                            *)
WriterInv ==
    \A t \in ConThreads : conPc[t] \in Writing =>
        /\ held[t] \in exists
        /\ held[t] \notin overlapped =>
              /\ Writers(held[t]) = {t}
              /\ copy[t] = conRow[held[t]]
              /\ conPc[t] = "probed" => /\ answer[t] \in Answers(copy[t])
                                        /\ lookedAt[t] = ConfigOf(copy[t])

HealthInv ==
    \A c \in exists \ (overlapped \cup untested) :
        Tested(c) \/ \E t \in Writers(c) : conPc[t] \in {"testing", "probed"}

(* A connector built since the last save is that of the active connection. *)
BuiltInv ==
    /\ \A t \in ConThreads \ reconfigured : conPc[t] = "built" => held[t] = ActiveConnection
    /\ AuditNamesTheErp

(* Nobody has entered a key for a connection that does not exist, and a    *)
(* form's copy has the row's key until another form is saved.              *)
KeyInv ==
    /\ KeyIsTheLastEntered
    /\ \A c \in Connections \ exists : lastKey[c] = NoKey
    /\ \A t \in ConThreads : conPc[t] = "form" /\ held[t] \notin crossed =>
                                 copy[t].key = conRow[held[t]].key

ConInv == ConTypeOK /\ WriterInv /\ HealthInv /\ BuiltInv /\ KeyInv

LEMMA AnswersType ==
  ASSUME NEW r \in Row
  PROVE  /\ Answers(r) \subseteq Answer
         /\ \A ans \in Answers(r) :
               /\ ans.health = "ok" => /\ r.vendor = "odoo" /\ r.url # NoUrl
                                       /\ ans.caps = OdooCaps
               /\ r.vendor = "manual" => ans.health = "unconfigured"
               /\ r.vendor = "sage" => ans.health = "down"
  <1>1. r.vendor \in Vendors /\ r.caps \in SUBSET OdooCaps
    BY DEF Row
  <1>2. CASE r.vendor = "manual"
    BY <1>2 DEF Answers, Answer, Healths
  <1>3. CASE r.vendor = "sage"
    BY <1>1, <1>3 DEF Answers, Answer, Healths
  <1>4. CASE r.vendor = "odoo"
    BY <1>4 DEF Answers, Answer, Healths
  <1>5. QED
    BY <1>1, <1>2, <1>3, <1>4 DEF Vendors

LEMMA AppliedRow ==
  ASSUME NEW r \in Row, NEW f \in Form
  PROVE  /\ Applied(r, f) \in Row
         /\ Applied(r, f).key = IF f.key = NoKey THEN r.key ELSE f.key
  BY DEF Applied, Row, Form

LEMMA OfAdminRow ==
  ASSUME NEW r \in Row, NEW f \in Form, NEW a \in BOOLEAN
  PROVE  OfAdmin(r, f, a) \in Row /\ OfAdmin(r, f, a).key = r.key
  BY DEF OfAdmin, Row, Form

LEMMA BlankRow == Blank \in Row /\ ConfigOf(Blank) \in Config /\ NoAnswer \in Answer
                  /\ Blank.key = NoKey
  BY DEF Blank, Row, ConfigOf, Config, NoAnswer, Answer, Vendors, Healths

LEMMA ConfigType ==
  ASSUME NEW r \in Row PROVE ConfigOf(r) \in Config
  BY DEF Row, ConfigOf, Config

LEMMA InitConInv == ConInit => ConInv
  <1> SUFFICES ASSUME ConInit PROVE ConInv
    OBVIOUS
  <1>1. ConTypeOK
    BY BlankRow DEF ConInit, ConTypeOK
  <1>2. WriterInv /\ HealthInv /\ BuiltInv /\ KeyInv
    BY DEF ConInit, WriterInv, HealthInv, BuiltInv, AuditNamesTheErp, KeyInv, KeyIsTheLastEntered, Writing
  <1>3. QED
    BY <1>1, <1>2 DEF ConInv

(* The lookup of the active connection reads three columns of the rows.    *)
LEMMA SameActive ==
  ASSUME exists' = exists,
         \A c \in exists : /\ conRow'[c].active = conRow[c].active
                           /\ conRow'[c].vendor = conRow[c].vendor
                           /\ conRow'[c].primary = conRow[c].primary
  PROVE  ActiveConnection' = ActiveConnection
  <1>1. Candidates' = Candidates /\ Candidates \subseteq exists
    BY DEF Candidates
  <1>2. \A c, d \in Candidates : PrimaryFirst(c, d)' <=> PrimaryFirst(c, d)
    BY DEF Candidates, PrimaryFirst
  <1>3. \A c \in Candidates : (\A d \in Candidates : ~PrimaryFirst(d, c)')
                          <=> (\A d \in Candidates : ~PrimaryFirst(d, c))
    BY <1>2
  <1> DEFINE First(c) == \A d \in Candidates : ~PrimaryFirst(d, c)
             FirstThen(c) == \A d \in Candidates' : ~PrimaryFirst(d, c)'
             now == CHOOSE c \in Candidates : First(c)
             then == CHOOSE c \in Candidates' : FirstThen(c)
  <1>4. then = now
    <2>1. \A c \in Candidates : FirstThen(c) <=> First(c)
      BY <1>1, <1>3
    <2> HIDE DEF First, FirstThen
    <2>2. QED
      BY <1>1, <2>1
  <1>5. ActiveConnection' = IF Candidates' = {} THEN NoConnection ELSE then
    BY Zenon DEF ActiveConnection
  <1>6. ActiveConnection = IF Candidates = {} THEN NoConnection ELSE now
    BY Zenon DEF ActiveConnection
  <1> HIDE DEF now, then
  <1>7. QED
    BY <1>1, <1>4, <1>5, <1>6

LEMMA ReadRowConInv ==
  ASSUME ConInv, NEW t \in ConThreads, NEW c \in Connections, NEW next \in {"form", "testing"},
         ReadRow(t, c, next)
  PROVE  ConInv'
  <1> USE DEF ConInv, ReadRow, conRows
  <1>1. ConTypeOK'
    BY DEF ConTypeOK, Writing
  <1>2. /\ overlapped \subseteq overlapped'
        /\ c \notin overlapped' => Writers(c) = {}
        /\ \A d \in Connections \ {c} : Writers(d)' = Writers(d)
        /\ Writers(c)' = Writers(c) \cup {t}
    BY DEF ConTypeOK, Holders, Writers, Writing
  <1>3. WriterInv'
    <2> SUFFICES ASSUME NEW u \in ConThreads, conPc'[u] \in Writing
                 PROVE  /\ held'[u] \in exists'
                        /\ held'[u] \notin overlapped' =>
                              /\ Writers(held[u])' = {u}
                              /\ copy'[u] = conRow'[held'[u]]
                              /\ conPc'[u] = "probed" => /\ answer'[u] \in Answers(copy'[u])
                                                         /\ lookedAt'[u] = ConfigOf(copy'[u])
      BY DEF WriterInv
    <2>1. CASE u = t
      BY <1>2, <2>1 DEF ConTypeOK
    <2>2. CASE u # t
      <3>1. /\ conPc'[u] = conPc[u] /\ held'[u] = held[u] /\ copy'[u] = copy[u]
            /\ held[u] \in exists /\ held[u] \in Connections
        BY <2>2 DEF ConTypeOK, WriterInv
      <3>2. held[u] = c => c \in overlapped'
        BY <1>2, <3>1 DEF Writers
      <3>3. QED
        BY <1>2, <3>1, <3>2 DEF WriterInv
    <2>3. QED
      BY <2>1, <2>2
  <1>4. HealthInv'
    <2> SUFFICES ASSUME NEW d \in exists \ (overlapped' \cup untested)
                 PROVE  Tested(d) \/ \E u \in Writers(d)' : conPc'[u] \in {"testing", "probed"}
      BY DEF HealthInv, Tested
    <2>1. d \in Connections /\ (Tested(d) \/ \E u \in Writers(d) : conPc[u] \in {"testing", "probed"})
      BY <1>2 DEF HealthInv, ConTypeOK
    <2>2. \A u \in Writers(d) : u # t /\ conPc'[u] = conPc[u]
      BY DEF Writers, ConTypeOK, Writing
    <2>3. QED
      BY <1>2, <2>1, <2>2
  <1>5. BuiltInv' /\ KeyInv'
    <2>1. ActiveConnection' = ActiveConnection
      BY SameActive
    <2>2. QED
      BY <1>2, <2>1 DEF BuiltInv, AuditNamesTheErp, KeyInv, KeyIsTheLastEntered, ConTypeOK
  <1>6. QED
    BY <1>1, <1>3, <1>4, <1>5

(* A form saves row r over c, from a true copy or as a new row, and its    *)
(* request goes on to test it.                                             *)
LEMMA SaveFormConInv ==
  ASSUME ConInv, NEW t \in ConThreads, NEW c \in Connections, NEW r \in Row, NEW f \in Form,
         SaveWhole(t, c, r), Entered(c, f),
         \/ c \notin exists /\ conPc[t] = "idle"
         \/ conPc[t] = "form" /\ held[t] = c,
         c \notin crossed => r.key = IF f.key = NoKey
                                     THEN (IF c \in exists THEN lastKey[c] ELSE NoKey)
                                     ELSE f.key,
         conPc' = [conPc EXCEPT ![t] = "testing"],
         held' = [held EXCEPT ![t] = c],
         UNCHANGED <<answer, lookedAt, probed, overlapped, untested, lastPost>>
  PROVE  ConInv'
  <1> USE DEF ConInv, SaveWhole, Entered
  <1>1. ConTypeOK'
    BY DEF ConTypeOK, Writing, Form, Building
  <1>2. /\ \A d \in Connections \ {c} : Writers(d)' = Writers(d) /\ conRow'[d] = conRow[d]
        /\ Writers(c)' = Writers(c) \cup {t}
        /\ c \notin overlapped => Writers(c) \subseteq {t}
        /\ conRow'[c] = r /\ copy'[t] = r
    <2>1. c \notin overlapped => Writers(c) \subseteq {t}
      <3>1. CASE c \notin exists
        BY <3>1 DEF Writers, WriterInv
      <3>2. CASE conPc[t] = "form" /\ held[t] = c
        BY <3>2 DEF Writing, WriterInv
      <3>3. QED
        BY <3>1, <3>2
    <2>2. Writers(c)' = Writers(c) \cup {t}
      BY DEF ConTypeOK, Writers, Writing
    <2>3. ASSUME NEW d \in Connections \ {c}
          PROVE  Writers(d)' = Writers(d) /\ conRow'[d] = conRow[d]
      BY DEF ConTypeOK, Writers, Writing
    <2>4. conRow'[c] = r /\ copy'[t] = r
      BY DEF ConTypeOK
    <2>5. QED
      BY <2>1, <2>2, <2>3, <2>4
  <1>3. WriterInv'
    <2> SUFFICES ASSUME NEW u \in ConThreads, conPc'[u] \in Writing
                 PROVE  /\ held'[u] \in exists'
                        /\ held'[u] \notin overlapped' =>
                              /\ Writers(held[u])' = {u}
                              /\ copy'[u] = conRow'[held'[u]]
                              /\ conPc'[u] = "probed" => /\ answer'[u] \in Answers(copy'[u])
                                                         /\ lookedAt'[u] = ConfigOf(copy'[u])
      BY DEF WriterInv
    <2>1. CASE u = t
      BY <1>2, <2>1 DEF ConTypeOK
    <2>2. CASE u # t
      <3>1. /\ conPc'[u] = conPc[u] /\ held'[u] = held[u] /\ copy'[u] = copy[u]
            /\ held[u] \in exists /\ held[u] \in Connections
        BY <2>2 DEF ConTypeOK, WriterInv
      <3>2. held[u] = c => c \in overlapped
        BY <1>2, <2>2, <3>1 DEF Writers
      <3>3. QED
        BY <1>2, <3>1, <3>2 DEF WriterInv
    <2>3. QED
      BY <2>1, <2>2
  <1>4. HealthInv'
    <2> SUFFICES ASSUME NEW d \in exists' \ (overlapped \cup untested)
                 PROVE  Tested(d)' \/ \E u \in Writers(d)' : conPc'[u] \in {"testing", "probed"}
      BY DEF HealthInv
    <2>1. CASE d = c
      BY <1>2, <2>1 DEF ConTypeOK
    <2>2. CASE d # c
      <3>1. d \in Connections
            /\ (Tested(d) \/ \E u \in Writers(d) : conPc[u] \in {"testing", "probed"})
        BY <2>2 DEF HealthInv, ConTypeOK
      <3>2. \A u \in Writers(d) : conPc[u] \in {"testing", "probed"} => conPc'[u] = conPc[u]
        BY DEF Writers, ConTypeOK
      <3>3. QED
        BY <1>2, <2>2, <3>1, <3>2 DEF Tested
    <2>3. QED
      BY <2>1, <2>2
  <1>5. BuiltInv'
    BY DEF BuiltInv, AuditNamesTheErp, ConTypeOK, Building
  <1>6. KeyInv'
    <2>1. crossed \subseteq crossed' /\ \A d \in Connections \ {c} : conRow'[d] = conRow[d]
      BY <1>2
    <2>2. KeyIsTheLastEntered' /\ \A d \in Connections \ exists' : lastKey'[d] = NoKey
      BY <1>2, <2>1 DEF KeyInv, KeyIsTheLastEntered, ConTypeOK
    <2>3. ASSUME NEW u \in ConThreads, conPc'[u] = "form", held'[u] \notin crossed'
          PROVE  copy'[u].key = conRow'[held'[u]].key
      <3>1. /\ u # t /\ conPc[u] = "form" /\ held'[u] = held[u] /\ copy'[u] = copy[u]
            /\ held[u] \in exists /\ held[u] \in Connections
        BY <2>3 DEF ConTypeOK, WriterInv, Writing
      <3>2. held[u] # c
        BY <2>3, <3>1 DEF OtherForms
      <3>3. QED
        BY <2>1, <2>3, <3>1, <3>2 DEF KeyInv
    <2>4. QED
      BY <2>2, <2>3 DEF KeyInv
  <1>7. QED
    BY <1>1, <1>3, <1>4, <1>5, <1>6

LEMMA CreateConInv ==
  ASSUME ConInv, NEW t \in ConThreads, NEW c \in Connections, NEW f \in Forms,
         CreateConnection(t, c, f)
  PROVE  ConInv'
  <1>1. f \in Form /\ Blank \in Row /\ Blank.key = NoKey
    BY FormsAssumption, BlankRow
  <1>2. /\ Applied(Blank, f) \in Row
        /\ Applied(Blank, f).key = IF f.key = NoKey THEN NoKey ELSE f.key
    BY <1>1, AppliedRow
  <1>3. QED
    BY <1>1, <1>2, SaveFormConInv DEF CreateConnection, AfterSave

LEMMA SubmitConInv ==
  ASSUME ConInv, NEW t \in ConThreads, NEW f \in Forms, SubmitForm(t, f)
  PROVE  ConInv'
  <1>1. /\ f \in Form /\ copy[t] \in Row
        /\ held[t] \in exists /\ held[t] \in Connections
        /\ held[t] \notin crossed => copy[t].key = lastKey[held[t]]
    BY FormsAssumption
       DEF SubmitForm, ConInv, ConTypeOK, WriterInv, Writing, KeyInv, KeyIsTheLastEntered
  <1>2. /\ Applied(copy[t], f) \in Row
        /\ Applied(copy[t], f).key = IF f.key = NoKey THEN copy[t].key ELSE f.key
    BY <1>1, AppliedRow
  <1>3. held' = [held EXCEPT ![t] = held[t]]
    BY DEF SubmitForm, ConInv, ConTypeOK
  <1>4. QED
    BY <1>1, <1>2, <1>3, SaveFormConInv DEF SubmitForm, AfterSave

(* A thread that leaves takes itself off the writers of its row; what the  *)
(* others may write is untouched unless they share the row.                *)
LEMMA LeaveWriters ==
  ASSUME ConInv, NEW t \in ConThreads, ConLeave(t)
  PROVE  /\ \A d \in Connections : Writers(d)' = Writers(d) \ {t}
         /\ \A u \in ConThreads \ {t} : /\ conPc'[u] = conPc[u] /\ held'[u] = held[u]
                                        /\ answer'[u] = answer[u] /\ lookedAt'[u] = lookedAt[u]
         /\ conPc'[t] = "idle"
         /\ conPc' \in [ConThreads -> Writing \cup {"idle", "built"}]
         /\ held' \in [ConThreads -> Connections \cup {NoConnection}]
         /\ answer' \in [ConThreads -> Answer]
         /\ lookedAt' \in [ConThreads -> Config]
         /\ \A d \in Connections \ overlapped :
               t \in Writers(d) => Writers(d) = {t} /\ Writers(d)' = {}
  <1>1. \A d \in Connections : Writers(d)' = Writers(d) \ {t}
    BY DEF ConLeave, ConInv, ConTypeOK, Writers, Writing
  <1>2. \A d \in Connections \ overlapped : t \in Writers(d) => Writers(d) = {t}
    BY DEF Writers, ConInv, WriterInv
  <1>3. QED
    BY <1>1, <1>2, BlankRow DEF ConLeave, ConInv, ConTypeOK, Writing

(* A thread that is done with its row saved it once more, or not at all.   *)
LEMMA LeaveWriterInv ==
  ASSUME ConInv, NEW t \in ConThreads, ConLeave(t), exists' = exists, overlapped' = overlapped,
         \A u \in ConThreads \ {t} : copy'[u] = copy[u],
         \A d \in Connections : conRow'[d] = conRow[d] \/ t \in Writers(d)
  PROVE  WriterInv'
  <1> SUFFICES ASSUME NEW u \in ConThreads, conPc'[u] \in Writing
               PROVE  /\ held'[u] \in exists'
                      /\ held'[u] \notin overlapped' =>
                            /\ Writers(held[u])' = {u}
                            /\ copy'[u] = conRow'[held'[u]]
                            /\ conPc'[u] = "probed" => /\ answer'[u] \in Answers(copy'[u])
                                                       /\ lookedAt'[u] = ConfigOf(copy'[u])
    BY DEF WriterInv
  <1>1. u # t
    BY LeaveWriters DEF Writing
  <1>2. /\ conPc'[u] = conPc[u] /\ held'[u] = held[u] /\ copy'[u] = copy[u]
        /\ answer'[u] = answer[u] /\ lookedAt'[u] = lookedAt[u]
        /\ held[u] \in exists /\ held[u] \in Connections
    BY <1>1, LeaveWriters DEF ConInv, ConTypeOK, WriterInv
  <1>3. held[u] \notin overlapped => Writers(held[u]) = {u}
    BY <1>2 DEF ConInv, WriterInv
  <1>4. held[u] \notin overlapped => t \notin Writers(held[u])
    BY <1>1, <1>3
  <1>5. Writers(held[u])' = Writers(held[u]) \ {t}
    BY <1>2, LeaveWriters
  <1>6. QED
    BY <1>1, <1>2, <1>3, <1>4, <1>5 DEF ConInv, WriterInv

LEMMA AdminConInv ==
  ASSUME ConInv, NEW t \in ConThreads, NEW f \in Forms, NEW a \in BOOLEAN,
         SubmitAdmin(t, f, a)
  PROVE  ConInv'
  <1> DEFINE row == OfAdmin(copy[t], f, a)
  <1> USE DEF ConInv, SubmitAdmin
  <1>1. /\ row \in Row /\ row.key = copy[t].key
        /\ held[t] \in exists /\ held[t] \in Connections
        /\ t \in Writers(held[t])
        /\ conRow' = [conRow EXCEPT ![held[t]] = row]
    <2>1. f \in Form /\ copy[t] \in Row
      BY FormsAssumption DEF ConTypeOK
    <2>2. row \in Row /\ row.key = copy[t].key
      BY <2>1, OfAdminRow
    <2>3. held[t] \in exists /\ held[t] \in Connections /\ t \in Writers(held[t])
      BY DEF ConTypeOK, WriterInv, Writing, Writers
    <2>4. QED
      BY <2>2, <2>3
  <1> HIDE DEF row
  <1>2. ConTypeOK'
    BY <1>1, LeaveWriters, BlankRow DEF ConTypeOK, Building
  <1>3. WriterInv'
    BY <1>1, LeaveWriterInv DEF ConTypeOK
  <1>4. HealthInv'
    <2> SUFFICES ASSUME NEW d \in exists \ (overlapped \cup untested'), d # held[t]
                 PROVE  Tested(d)' \/ \E u \in Writers(d)' : conPc'[u] \in {"testing", "probed"}
      BY DEF HealthInv
    <2>1. /\ d \in Connections
          /\ Tested(d) \/ \E u \in Writers(d) : conPc[u] \in {"testing", "probed"}
          /\ t \notin Writers(d)
      BY DEF HealthInv, ConTypeOK, Writers
    <2>2. Writers(d)' = Writers(d) /\ \A u \in Writers(d) : conPc'[u] = conPc[u]
      BY <2>1, LeaveWriters DEF Writers
    <2>3. conRow'[d] = conRow[d]
      BY <1>1, <2>1 DEF ConTypeOK
    <2>4. QED
      BY <2>1, <2>2, <2>3 DEF Tested
  <1>5. BuiltInv'
    BY LeaveWriters DEF BuiltInv, AuditNamesTheErp, ConTypeOK, Building
  <1>6. KeyInv'
    <2>1. held[t] \notin crossed => row.key = conRow[held[t]].key
      BY <1>1 DEF KeyInv
    <2>2. \A d \in Connections \ crossed : conRow'[d].key = conRow[d].key
      BY <1>1, <2>1 DEF ConTypeOK
    <2>3. QED
      BY <2>2, LeaveWriters DEF KeyInv, KeyIsTheLastEntered, ConTypeOK, WriterInv, Writing
  <1>7. QED
    BY <1>2, <1>3, <1>4, <1>5, <1>6

LEMMA AddInAdminConInv ==
  ASSUME ConInv, NEW c \in Connections, NEW f \in Forms, NEW a \in BOOLEAN, AddInAdmin(c, f, a)
  PROVE  ConInv'
  <1> DEFINE row == OfAdmin(Blank, f, a)
  <1> USE DEF ConInv, AddInAdmin, conLocals
  <1>1. row \in Row /\ row.key = NoKey
    BY FormsAssumption, BlankRow, OfAdminRow
  <1>2. /\ conRow' = [conRow EXCEPT ![c] = row] /\ c \notin exists
        /\ UNCHANGED <<conPc, held, copy, answer, lookedAt>>
    OBVIOUS
  <1> HIDE DEF row
  <1>3. ConTypeOK'
    BY <1>1, <1>2 DEF ConTypeOK, Building
  <1>4. /\ \A d \in Connections \ {c} : conRow'[d] = conRow[d]
        /\ \A d \in Connections : Writers(d)' = Writers(d)
        /\ \A t \in ConThreads : conPc[t] \in Writing => held[t] \in Connections \ {c}
    BY <1>2 DEF ConTypeOK, Writers, WriterInv
  <1>5. WriterInv'
    BY <1>2, <1>4 DEF WriterInv
  <1>6. HealthInv'
    <2> SUFFICES ASSUME NEW d \in exists \ (overlapped \cup untested), d # c
                 PROVE  Tested(d)' \/ \E u \in Writers(d)' : conPc'[u] \in {"testing", "probed"}
      BY DEF HealthInv
    <2>1. d \in Connections
      BY DEF ConTypeOK
    <2>2. QED
      BY <1>2, <1>4, <2>1 DEF HealthInv, Tested
  <1>7. BuiltInv'
    BY <1>2 DEF BuiltInv, Building, AuditNamesTheErp, ConTypeOK
  <1>8. KeyInv'
    BY <1>1, <1>2, <1>4 DEF KeyInv, KeyIsTheLastEntered, ConTypeOK, Writing
  <1>9. QED
    BY <1>3, <1>5, <1>6, <1>7, <1>8

LEMMA ProbeConInv ==
  ASSUME ConInv, NEW t \in ConThreads, ProbeErp(t)
  PROVE  ConInv'
  <1> USE DEF ConInv, ProbeErp, conRows, conHistory
  <1>1. PICK ans \in Answers(copy[t]) : answer' = [answer EXCEPT ![t] = ans]
    OBVIOUS
  <1>2. ans \in Answer /\ ConfigOf(copy[t]) \in Config
    BY AnswersType, ConfigType DEF ConTypeOK
  <1>3. ConTypeOK'
    BY <1>1, <1>2 DEF ConTypeOK, Writing
  <1>4. \A d \in Connections : Writers(d)' = Writers(d)
    BY DEF Writers, Writing, ConTypeOK
  <1>5. WriterInv'
    <2> SUFFICES ASSUME NEW u \in ConThreads, conPc'[u] \in Writing
                 PROVE  /\ held'[u] \in exists'
                        /\ held'[u] \notin overlapped' =>
                              /\ Writers(held[u])' = {u}
                              /\ copy'[u] = conRow'[held'[u]]
                              /\ conPc'[u] = "probed" => /\ answer'[u] \in Answers(copy'[u])
                                                         /\ lookedAt'[u] = ConfigOf(copy'[u])
      BY DEF WriterInv
    <2>1. conPc[u] \in Writing
      BY DEF ConTypeOK, Writing
    <2>2. held[u] \in exists /\ held[u] \in Connections
      BY <2>1 DEF WriterInv, ConTypeOK
    <2>3. held[u] \notin overlapped => Writers(held[u]) = {u} /\ copy[u] = conRow[held[u]]
      BY <2>1 DEF WriterInv
    <2>4. CASE u = t
      BY <1>1, <1>4, <2>2, <2>3, <2>4 DEF ConTypeOK
    <2>5. CASE u # t
      <3>1. conPc'[u] = conPc[u] /\ answer'[u] = answer[u] /\ lookedAt'[u] = lookedAt[u]
        BY <1>1, <2>5 DEF ConTypeOK
      <3>2. QED
        BY <1>4, <2>1, <2>2, <2>3, <3>1 DEF WriterInv
    <2>6. QED
      BY <2>4, <2>5
  <1>6. HealthInv'
    <2> SUFFICES ASSUME NEW d \in exists \ (overlapped \cup untested)
                 PROVE  Tested(d) \/ \E u \in Writers(d)' : conPc'[u] \in {"testing", "probed"}
      BY DEF HealthInv, Tested
    <2>1. \A u \in Writers(d) : conPc[u] \in {"testing", "probed"} =>
                                   conPc'[u] \in {"testing", "probed"}
      BY DEF Writers, ConTypeOK
    <2>2. QED
      BY <1>4, <2>1 DEF HealthInv, ConTypeOK
  <1>7. BuiltInv' /\ KeyInv'
    <2>1. ActiveConnection' = ActiveConnection
      BY SameActive
    <2>2. QED
      BY <2>1 DEF BuiltInv, AuditNamesTheErp, KeyInv, KeyIsTheLastEntered, ConTypeOK
  <1>8. QED
    BY <1>3, <1>5, <1>6, <1>7

LEMMA SaveHealthConInv ==
  ASSUME ConInv, NEW t \in ConThreads, SaveHealth(t)
  PROVE  ConInv'
  <1> DEFINE row == Stamped(conRow[held[t]], answer[t])
  <1> USE DEF ConInv, SaveHealth
  <1>1. /\ held[t] \in exists /\ held[t] \in Connections
        /\ t \in Writers(held[t])
        /\ conRow[held[t]] \in Row /\ answer[t] \in Answer
    BY DEF ConTypeOK, WriterInv, Writing, Writers
  <1>2. /\ row \in Row /\ row.key = conRow[held[t]].key
        /\ row.active = conRow[held[t]].active /\ row.primary = conRow[held[t]].primary
        /\ row.vendor = conRow[held[t]].vendor /\ row.url = conRow[held[t]].url
        /\ row.health = answer[t].health /\ row.caps = answer[t].caps
        /\ ConfigOf(row) = ConfigOf(conRow[held[t]])
    BY <1>1 DEF Stamped, Row, Answer, ConfigOf
  <1>3. conRow' = [conRow EXCEPT ![held[t]] = row]
    OBVIOUS
  <1> HIDE DEF row
  <1>4. ConTypeOK'
    BY <1>1, <1>2, <1>3, LeaveWriters, BlankRow DEF ConTypeOK
  <1>5. WriterInv'
    BY <1>1, <1>3, LeaveWriterInv DEF ConTypeOK
  <1>6. HealthInv'
    <2> SUFFICES ASSUME NEW d \in exists \ (overlapped \cup untested')
                 PROVE  Tested(d)' \/ \E u \in Writers(d)' : conPc'[u] \in {"testing", "probed"}
      BY DEF HealthInv
    <2>1. CASE d = held[t]
      <3>1. /\ copy[t] = conRow[d] /\ lookedAt[t] = ConfigOf(copy[t])
            /\ answer[t] \in Answers(copy[t])
        BY <1>1, <2>1 DEF WriterInv, Writing
      <3>2. /\ answer[t].health = "ok" => /\ conRow[d].vendor = "odoo" /\ conRow[d].url # NoUrl
                                          /\ answer[t].caps = OdooCaps
            /\ conRow[d].vendor = "manual" => answer[t].health = "unconfigured"
            /\ conRow[d].vendor = "sage" => answer[t].health = "down"
        BY <1>1, <2>1, <3>1, AnswersType
      <3>3. conRow'[d] = row /\ probed'[d] = lookedAt[t]
        BY <1>1, <1>3, <2>1 DEF ConTypeOK
      <3>4. QED
        BY <1>2, <2>1, <3>1, <3>2, <3>3 DEF Tested
    <2>2. CASE d # held[t]
      <3>1. /\ d \in Connections
            /\ Tested(d) \/ \E u \in Writers(d) : conPc[u] \in {"testing", "probed"}
            /\ t \notin Writers(d)
        BY <2>2 DEF HealthInv, ConTypeOK, Writers
      <3>2. Writers(d)' = Writers(d) /\ \A u \in Writers(d) : conPc'[u] = conPc[u]
        BY <3>1, LeaveWriters DEF Writers
      <3>3. conRow'[d] = conRow[d] /\ probed'[d] = probed[d]
        BY <1>3, <2>2, <3>1 DEF ConTypeOK
      <3>4. QED
        BY <3>1, <3>2, <3>3 DEF Tested
    <2>3. QED
      BY <2>1, <2>2
  <1>7. BuiltInv'
    <2>1. ActiveConnection' = ActiveConnection
      BY <1>1, <1>2, <1>3, SameActive DEF ConTypeOK
    <2>2. QED
      BY <2>1, LeaveWriters DEF BuiltInv, AuditNamesTheErp, ConTypeOK
  <1>8. KeyInv'
    <2>1. \A d \in Connections : conRow'[d].key = conRow[d].key
      BY <1>1, <1>2, <1>3 DEF ConTypeOK
    <2>2. QED
      BY <2>1, LeaveWriters DEF KeyInv, KeyIsTheLastEntered, ConTypeOK, WriterInv, Writing
  <1>9. QED
    BY <1>4, <1>5, <1>6, <1>7, <1>8

LEMMA DieConInv ==
  ASSUME ConInv, NEW t \in ConThreads, ConDies(t)
  PROVE  ConInv'
  <1> USE DEF ConInv, ConDies, conRows
  <1>1. ConTypeOK'
    BY LeaveWriters, BlankRow DEF ConTypeOK
  <1>2. WriterInv'
    BY LeaveWriterInv DEF ConTypeOK
  <1>3. HealthInv'
    <2> SUFFICES ASSUME NEW d \in exists \ (overlapped \cup untested')
                 PROVE  Tested(d) \/ \E u \in Writers(d)' : conPc'[u] \in {"testing", "probed"}
      BY DEF HealthInv, Tested
    <2>1. /\ d \in Connections
          /\ Tested(d) \/ \E u \in Writers(d) : conPc[u] \in {"testing", "probed"}
      BY DEF HealthInv, ConTypeOK
    <2>2. \A u \in Writers(d) : conPc[u] \in {"testing", "probed"} => u # t
      BY DEF Writers
    <2>3. \A u \in Writers(d) \ {t} : u \in Writers(d)' /\ conPc'[u] = conPc[u]
      BY <2>1, LeaveWriters DEF Writers
    <2>4. QED
      BY <2>1, <2>2, <2>3
  <1>4. ActiveConnection' = ActiveConnection
    BY SameActive
  <1>5. BuiltInv' /\ KeyInv'
    BY <1>4, LeaveWriters DEF BuiltInv, AuditNamesTheErp, KeyInv, KeyIsTheLastEntered, ConTypeOK
  <1>6. QED
    BY <1>1, <1>2, <1>3, <1>5

(* There is a first connection: a primary one with the least position, or, *)
(* without a primary, the one with the least.                              *)
LEMMA ActiveIsAConnection ==
  ASSUME exists \subseteq Connections
  PROVE  ActiveConnection \in Connections \cup {NoConnection}
  <1> SUFFICES ASSUME Candidates # {}
               PROVE  \E c \in Candidates : \A d \in Candidates : ~PrimaryFirst(d, c)
    <2>1. Candidates \subseteq Connections
      BY DEF Candidates
    <2>2. QED
      BY <2>1 DEF ActiveConnection
  <1> DEFINE primaries == {c \in Candidates : conRow[c].primary}
             best == IF primaries # {} THEN primaries ELSE Candidates
             ranks == {Rank[c] : c \in best}
  <1>1. best # {} /\ best \subseteq Candidates /\ best \subseteq Connections
    BY DEF Candidates
  <1>2. ranks # {} /\ ranks \subseteq Nat
    BY <1>1, ConnectionsAssumption
  <1>3. PICK n \in ranks : \A m \in ranks : n <= m
    <2> HIDE DEF ranks
    <2>1. QED
      BY <1>2, LeastNatural
  <1>4. PICK c \in best : Rank[c] = n
    BY <1>3
  <1>5. ASSUME NEW d \in Candidates, PrimaryFirst(d, c) PROVE FALSE
    <2>1. d \in best
      BY <1>4, <1>5 DEF PrimaryFirst
    <2>2. Rank[c] <= Rank[d] /\ Rank[c] \in Nat /\ Rank[d] \in Nat
      BY <1>1, <1>2, <1>3, <1>4, <2>1
    <2>3. conRow[d].primary <=> conRow[c].primary
      BY <1>4, <1>5, <2>1 DEF PrimaryFirst
    <2>4. Rank[d] < Rank[c]
      BY <1>5, <2>3 DEF PrimaryFirst
    <2>5. QED
      BY <2>2, <2>4
  <1>6. QED
    BY <1>1, <1>4, <1>5

LEMMA BuildConInv ==
  ASSUME ConInv, NEW t \in ConThreads, BuildConnector(t)
  PROVE  ConInv'
  <1> USE DEF ConInv, BuildConnector, conRows
  <1>1. ConTypeOK'
    BY ActiveIsAConnection DEF ConTypeOK, Writing
  <1>2. /\ \A u \in ConThreads : conPc'[u] \in Writing =>
               /\ u # t /\ conPc'[u] = conPc[u] /\ held'[u] = held[u]
        /\ \A d \in Connections : Writers(d)' = Writers(d)
    BY DEF ConTypeOK, Writing, Writers
  <1>3. WriterInv'
    BY <1>2 DEF WriterInv, ConTypeOK
  <1>4. HealthInv'
    <2> SUFFICES ASSUME NEW d \in exists \ (overlapped \cup untested)
                 PROVE  Tested(d) \/ \E u \in Writers(d)' : conPc'[u] \in {"testing", "probed"}
      BY DEF HealthInv, Tested
    <2>1. \A u \in Writers(d) : conPc'[u] = conPc[u]
      BY DEF Writers, ConTypeOK, Writing
    <2>2. QED
      BY <1>2, <2>1 DEF HealthInv, ConTypeOK
  <1>5. ActiveConnection' = ActiveConnection
    BY SameActive
  <1>6. BuiltInv' /\ KeyInv'
    BY <1>5 DEF BuiltInv, AuditNamesTheErp, KeyInv, KeyIsTheLastEntered, ConTypeOK
  <1>7. QED
    BY <1>1, <1>3, <1>4, <1>6

LEMMA PostConInv ==
  ASSUME ConInv, NEW t \in ConThreads, PostThrough(t)
  PROVE  ConInv'
  <1> USE DEF ConInv, PostThrough, conRows
  <1>1. ConTypeOK'
    BY LeaveWriters DEF ConTypeOK
  <1>2. WriterInv'
    BY LeaveWriterInv DEF ConTypeOK
  <1>3. HealthInv'
    <2> SUFFICES ASSUME NEW d \in exists \ (overlapped \cup untested)
                 PROVE  Tested(d) \/ \E u \in Writers(d)' : conPc'[u] \in {"testing", "probed"}
      BY DEF HealthInv, Tested
    <2>1. /\ d \in Connections /\ t \notin Writers(d)
          /\ Tested(d) \/ \E u \in Writers(d) : conPc[u] \in {"testing", "probed"}
      BY DEF HealthInv, ConTypeOK, Writers, Writing
    <2>2. Writers(d)' = Writers(d) /\ \A u \in Writers(d) : conPc'[u] = conPc[u]
      BY <2>1, LeaveWriters DEF Writers
    <2>3. QED
      BY <2>1, <2>2
  <1>4. ActiveConnection' = ActiveConnection
    BY SameActive
  <1>5. AuditNamesTheErp'
    BY DEF BuiltInv, AuditNamesTheErp, Named
  <1>6. BuiltInv' /\ KeyInv'
    BY <1>4, <1>5, LeaveWriters DEF BuiltInv, KeyInv, KeyIsTheLastEntered, ConTypeOK
  <1>7. QED
    BY <1>1, <1>2, <1>3, <1>6

LEMMA ConInvariant == ConSpec => []ConInv
  <1>1. ConInv /\ [ConNext]_conVars => ConInv'
    <2>1. ASSUME ConInv, UNCHANGED conVars PROVE ConInv'
      <3>1. ActiveConnection' = ActiveConnection
        BY <2>1, SameActive DEF conVars, conRows
      <3>2. QED
        BY <2>1, <3>1
           DEF conVars, conRows, conLocals, conHistory, ConInv, ConTypeOK, WriterInv, Writers,
               HealthInv, Tested, BuiltInv, AuditNamesTheErp, KeyInv, KeyIsTheLastEntered
    <2>2. ASSUME ConInv, NEW t \in ConThreads, NEW c \in Connections,
                 OpenForm(t, c) \/ CheckHealth(t, c) \/ \E f \in Forms : CreateConnection(t, c, f)
          PROVE  ConInv'
      BY <2>2, ReadRowConInv, CreateConInv DEF OpenForm, CheckHealth
    <2>3. ASSUME ConInv, NEW t \in ConThreads, NEW f \in Forms,
                 SubmitForm(t, f) \/ \E a \in BOOLEAN : SubmitAdmin(t, f, a)
          PROVE  ConInv'
      BY <2>3, SubmitConInv, AdminConInv
    <2>4. ASSUME ConInv, NEW t \in ConThreads,
                 ProbeErp(t) \/ SaveHealth(t) \/ BuildConnector(t) \/ PostThrough(t) \/ ConDies(t)
          PROVE  ConInv'
      BY <2>4, ProbeConInv, SaveHealthConInv, BuildConInv, PostConInv, DieConInv
    <2>5. ASSUME ConInv, \E c \in Connections, f \in Forms, a \in BOOLEAN : AddInAdmin(c, f, a)
          PROVE  ConInv'
      BY <2>5, AddInAdminConInv
    <2>6. QED
      BY <2>1, <2>2, <2>3, <2>4, <2>5 DEF ConNext
  <1>2. QED
    BY <1>1, InitConInv, PTL DEF ConSpec

(* erp_connection_edit and _test_connection: a row nobody works on, that   *)
(* no two threads held at once and whose last save was tested, carries a   *)
(* health found with its own configuration; and a row no form was saved    *)
(* into while another form's copy was out carries the last key entered,    *)
(* health checks and all.                                                  *)
THEOREM ConnectionsAreAsSaved == ConSpec => []ConnectionIsAsSaved
  <1>1. ConInv => ConnectionIsAsSaved
    <2> SUFFICES ASSUME ConInv, NEW c \in exists \ (overlapped \cup untested), Holders(c) = {}
                 PROVE  Tested(c)
      BY DEF ConInv, KeyInv, ConnectionIsAsSaved, HealthIsOfThisConfig, Tested
    <2>1. Writers(c) = {}
      BY DEF Writers, Holders, Writing
    <2>2. QED
      BY <2>1 DEF ConInv, HealthInv
  <1>2. QED
    BY <1>1, ConInvariant, PTL

(* connector_for_tenant and _active_connection look the connection up      *)
(* twice: with no save between them the saga's row names the ERP written.  *)
THEOREM AuditRowNamesTheErp == ConSpec => []AuditNamesTheErp
  <1>1. ConInv => AuditNamesTheErp
    BY DEF ConInv, BuiltInv
  <1>2. QED
    BY <1>1, ConInvariant, PTL
=============================================================================
