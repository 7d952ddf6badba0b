----------------------------- MODULE Depreciation ------------------------------
(***************************************************************************)
(* Fixed assets (accounting/models.py FixedAsset, DepreciationLine) and    *)
(* the admin requests on one of them: (re)generate the schedule, post what *)
(* is due, the change forms of the asset and of its lines.                 *)
(*                                                                         *)
(* Neither generate_schedule() nor post_depreciation() sets the tenant of  *)
(* the rows it creates, and the column is NOT NULL: the first INSERT       *)
(* raises.  No transaction surrounds an admin action, so what was written  *)
(* before the INSERT stays.  depPc[t]:                                     *)
(*   "idle"       no request                                               *)
(*   "loaded"     asset copied by the queryset or the form                 *)
(*   "wiped"      generate_schedule: unposted lines deleted                *)
(*   "generated"  generate_schedule returned                               *)
(*   "drained"    post_depreciation: no due line left to post              *)
(*   "covered"    post_depreciation: book value read, at or below salvage  *)
(***************************************************************************)
EXTENDS Integers, FiniteSets

CONSTANTS DepThreads,
          DepMortal,      \* requests that may die half-way
          DepLines,       \* DepreciationLine primary keys
          DueLines,       \* those with period_date up to today
          NewAsset,       \* the asset as first saved
          AssetForms      \* what the asset's form may be filled in with

AssetRows == [state : {"draft", "in_use", "fully_depreciated", "disposed"},
              method : {"straight_line", "declining"},
              months : Int, cost : Int, salvage : Int]

ASSUME DepAssumption == /\ DepMortal \subseteq DepThreads
                        /\ DueLines \subseteq DepLines
                        /\ NewAsset \in AssetRows
                        /\ NewAsset.state = "draft"
                        /\ AssetForms \subseteq AssetRows

VARIABLES asset,      \* the FixedAsset row
          depLine,    \* line -> "absent", "planned" or "posted"; each of amount 1
          depPc, depAct, copyAsset,   \* locals of each request
          disturbed   \* requests another one has run beside (history)

depVars == <<asset, depLine, depPc, depAct, copyAsset, disturbed>>

DepInit == /\ asset = NewAsset
           /\ depLine = [d \in DepLines |-> "absent"]
           /\ depPc = [t \in DepThreads |-> "idle"]
           /\ depAct = [t \in DepThreads |-> "generate"]
           /\ copyAsset = [t \in DepThreads |-> NewAsset]
           /\ disturbed = {}

TotalPosted == Cardinality({d \in DepLines : depLine[d] = "posted"})
BookValue(c) == c.cost - TotalPosted
DueUnposted == {d \in DueLines : depLine[d] = "planned"}

InFlight == {t \in DepThreads : depPc[t] # "idle"}

DepLoad(t, a) == /\ depPc[t] = "idle"
                 /\ depPc' = [depPc EXCEPT ![t] = "loaded"]
                 /\ depAct' = [depAct EXCEPT ![t] = a]
                 /\ copyAsset' = [copyAsset EXCEPT ![t] = asset]
                 /\ disturbed' = IF InFlight = {} THEN disturbed
                                 ELSE disturbed \cup InFlight \cup {t}
                 /\ UNCHANGED <<asset, depLine>>

DepLeave(t) == /\ depPc' = [depPc EXCEPT ![t] = "idle"]
               /\ depAct' = [depAct EXCEPT ![t] = "generate"]
               /\ copyAsset' = [copyAsset EXCEPT ![t] = NewAsset]
               /\ disturbed' = disturbed \ {t}

DepGo(t, from, to) == /\ depPc[t] = from
                      /\ depPc' = [depPc EXCEPT ![t] = to]
                      /\ UNCHANGED <<depAct, copyAsset, disturbed>>

-----------------------------------------------------------------------------
(* generate_schedule. *)

Wipe(t) == /\ depAct[t] = "generate"
           /\ DepGo(t, "loaded", "wiped")
           /\ depLine' = [d \in DepLines |-> IF depLine[d] = "planned" THEN "absent"
                                                                      ELSE depLine[d]]
           /\ UNCHANGED asset

(* The division by the months, or the first INSERT of a line, raises.  A    *)
(* schedule of no lines is the only one that is generated.                 *)
ScheduleRaises(c) ==
    IF c.method = "straight_line" THEN c.months >= 0
                                  ELSE c.months > 0 /\ c.cost > c.salvage

GenerateFails(t) == /\ depPc[t] = "wiped"
                    /\ ScheduleRaises(copyAsset[t])
                    /\ DepLeave(t)
                    /\ UNCHANGED <<asset, depLine>>

GenerateNothing(t) == /\ ~ScheduleRaises(copyAsset[t])
                      /\ DepGo(t, "wiped", "generated")
                      /\ UNCHANGED <<asset, depLine>>

(* The admin action puts a draft asset in use: the state column alone. *)
PutInUse(t) == /\ depPc[t] = "generated"
               /\ asset' = IF copyAsset[t].state = "draft"
                           THEN [asset EXCEPT !.state = "in_use"] ELSE asset
               /\ DepLeave(t)
               /\ UNCHANGED <<depLine>>

-----------------------------------------------------------------------------
(* post_depreciation: the INSERT of the first due line's entry raises. *)

PostFails(t) == /\ depPc[t] = "loaded" /\ depAct[t] = "post"
                /\ DueUnposted # {}
                /\ DepLeave(t)
                /\ UNCHANGED <<asset, depLine>>

NothingDue(t) == /\ depAct[t] = "post"
                 /\ DueUnposted = {}
                 /\ DepGo(t, "loaded", "drained")
                 /\ UNCHANGED <<asset, depLine>>

CoveredAlways(c) == c.state = "in_use"
Covered(c) == BookValue(c) <= c.salvage /\ c.state = "in_use"

ReadBookValue(t) == /\ Covered(copyAsset[t])
                    /\ DepGo(t, "drained", "covered")
                    /\ UNCHANGED <<asset, depLine>>

StillDepreciating(t) == /\ depPc[t] = "drained"
                        /\ ~Covered(copyAsset[t])
                        /\ DepLeave(t)
                        /\ UNCHANGED <<asset, depLine>>

MarkFully(t) == /\ depPc[t] = "covered"
                /\ asset' = [asset EXCEPT !.state = "fully_depreciated"]
                /\ DepLeave(t)
                /\ UNCHANGED <<depLine>>

DepDie(t) == /\ t \in DepMortal
             /\ depPc[t] # "idle"
             /\ DepLeave(t)
             /\ UNCHANGED <<asset, depLine>>

-----------------------------------------------------------------------------
(* The admin's forms. *)

(* FixedAssetAdmin: the whole row, the state selector included, and the    *)
(* "posted" box of existing lines; an added line has no tenant, so the     *)
(* form with one is rolled back.                                           *)
SaveAssetForm(t, row, lines) ==
    /\ depPc[t] = "loaded" /\ depAct[t] = "edit"
    /\ asset' = row
    /\ depLine' = [d \in DepLines |->
                      CASE depLine[d] = "absent" -> "absent"
                        [] d \in lines -> "posted"
                        [] OTHER -> "planned"]
    /\ DepLeave(t)

(* DepreciationLineAdmin sets the tenant: lines are added, marked posted   *)
(* and deleted by hand.                                                    *)
LineForm(d, s) ==
    /\ s # depLine[d]
    /\ depLine' = [depLine EXCEPT ![d] = s]
    /\ disturbed' = disturbed \cup InFlight
    /\ UNCHANGED <<asset, depPc, depAct, copyAsset>>

DepNext ==
    \/ \E t \in DepThreads :
          \/ \E a \in {"generate", "post", "edit"} : DepLoad(t, a)
          \/ Wipe(t) \/ GenerateFails(t) \/ GenerateNothing(t) \/ PutInUse(t)
          \/ PostFails(t) \/ NothingDue(t) \/ ReadBookValue(t)
          \/ StillDepreciating(t) \/ MarkFully(t)
          \/ DepDie(t)
          \/ \E row \in AssetForms, lines \in SUBSET DepLines : SaveAssetForm(t, row, lines)
    \/ \E d \in DepLines, s \in {"absent", "planned", "posted"} : LineForm(d, s)

DepSpec == DepInit /\ [][DepNext]_depVars

-----------------------------------------------------------------------------
(* Properties. *)

HasSchedule(a) == a.months > 0 /\ (a.method = "declining" => a.cost > a.salvage)
Moves(t, from, to) == /\ depPc'[t] # depPc[t]
                      /\ asset.state = from /\ asset'.state = to

(* generate_schedule: "(Re)compute the depreciation schedule. Wipes any    *)
(* unposted lines first."; the admin offers it as "(Re)generate". A        *)
(* request that lived through it, alone on an asset with something to      *)
(* depreciate, leaves planned lines where it wiped the old ones.           *)
RegenerateReplaces ==
    [][\A t \in DepThreads \ (DepMortal \cup disturbed) :
          /\ depPc[t] = "wiped" /\ depPc'[t] # "wiped"
          /\ HasSchedule(copyAsset[t])
          => \E d \in DepLines : depLine'[d] = "planned"]_depVars

(* An asset becomes fully depreciated outside its form only when its       *)
(* posted lines bring the book value to the salvage value, and nothing     *)
(* due is left unposted, unless another request was on it at the time.     *)
FullyMeansCovered ==
    [][\A t \in DepThreads \ disturbed :
          depAct[t] = "post" /\ Moves(t, "in_use", "fully_depreciated") =>
              BookValue(asset) <= asset.salvage /\ DueUnposted = {}]_depVars
=============================================================================
