------------------------------- MODULE ErpDrift --------------------------------
(***************************************************************************)
(* The nightly drift detector (accounting/reconciliation.py and the        *)
(* command reconcile_connections) beside the sagas that write to the ERP   *)
(* and the people who work in it.  One detector runs over one connection;  *)
(* driftPc says which of its three reads comes next:                       *)
(*   "idle"     no run; the report of the last one stands                  *)
(*   "recorded" the successful operations are read                         *)
(*   "states"   the moves they name are read in the ERP                    *)
(* Each read is a call of its own: sagas and people go on in between.      *)
(***************************************************************************)
EXTENDS ErpSaga

CONSTANT NoState       \* the ERP has no row for the id

ASSUME DriftAssumption == NoState \notin {"absent", "draft", "posted", "cancel"}

VARIABLES driftPc,
          listing,      \* the connection is Odoo and healthy: list its moves
          recorded,     \* external ids of the successful operations
          missing, mismatched, matched, untracked,     \* the report
          touched,      \* moves a person has changed in Odoo (history)
          touchedBefore, successBefore,  \* both as the run began (history)
          postedMeanwhile     \* moves the sagas posted or recorded, or people changed, in the run (history)

reportVars == <<missing, mismatched, matched, untracked>>
driftHistory == <<touched, touchedBefore, successBefore, postedMeanwhile>>
driftVars == <<sagaVars, driftPc, listing, recorded, reportVars, driftHistory>>

DriftInit == /\ SagaInit
             /\ driftPc = "idle"
             /\ listing = FALSE
             /\ recorded = {}
             /\ missing = {} /\ mismatched = {} /\ matched = {} /\ untracked = {}
             /\ touched = {} /\ touchedBefore = {} /\ successBefore = {}
             /\ postedMeanwhile = {}

-----------------------------------------------------------------------------
(* _recorded_moves: every success row of the connection with an id. *)
RecordedMoves == {externalId[o] : o \in {p \in Ops : opStatus[p] = "success"}} \ {NoMove}

ReadRecorded ==
    /\ driftPc = "idle"
    /\ recorded' = RecordedMoves
    /\ listing' \in BOOLEAN
    /\ missing' = {} /\ mismatched' = {} /\ matched' = {} /\ untracked' = {}
    /\ driftPc' = "recorded"
    /\ touchedBefore' = touched
    /\ successBefore' = RecordedMoves
    /\ postedMeanwhile' = {}
    /\ UNCHANGED <<sagaVars, touched>>

(* client.read: a deleted move is not in the answer. *)
StateRead(m) == IF moveState[m] = "absent" THEN NoState ELSE moveState[m]

IsMismatchWhenCancelled(s) == s = "cancel"
IsMismatch(s) == s \notin {NoState, "posted"}

(* read_states is called only when something is recorded. *)
ReadStates ==
    /\ driftPc = "recorded"
    /\ missing' = {m \in recorded : StateRead(m) = NoState}
    /\ mismatched' = {m \in recorded : IsMismatch(StateRead(m))}
    /\ matched' = {m \in recorded : StateRead(m) = "posted"}
    /\ driftPc' = "states"
    /\ UNCHANGED <<sagaVars, listing, recorded, untracked, driftHistory>>

NotRecorded(ms) == ms \ recorded

ListPosted ==
    /\ driftPc = "states"
    /\ untracked' = IF listing
                    THEN NotRecorded({m \in Moves : moveState[m] = "posted"})
                    ELSE {}
    /\ driftPc' = "idle"
    /\ UNCHANGED <<sagaVars, listing, recorded, missing, mismatched, matched, driftHistory>>

(* A read raises: the command reports the connection's error and goes on   *)
(* to the next; there is no report.                                        *)
ReadFails ==
    /\ driftPc \in {"recorded", "states"}
    /\ driftPc' = "idle"
    /\ recorded' = {} /\ listing' = FALSE
    /\ missing' = {} /\ mismatched' = {} /\ matched' = {} /\ untracked' = {}
    /\ UNCHANGED <<sagaVars, driftHistory>>

-----------------------------------------------------------------------------
(* A person in Odoo: writes a move, posts, resets, cancels, deletes.  A    *)
(* posted or cancelled entry is reset to draft before anything else.       *)
HumanStep(from, to) ==
    \/ from = "absent" /\ to \in {"draft", "posted"}
    \/ from = "draft" /\ to \in {"posted", "cancel", "absent"}
    \/ from \in {"posted", "cancel"} /\ to = "draft"

HumanWrites(m, s) ==
    /\ m \notin touched \/ moveState[m] # "absent"     \* ids are used once
    /\ HumanStep(moveState[m], s)
    /\ moveState' = [moveState EXCEPT ![m] = s]
    /\ touched' = touched \cup {m}
    /\ postedMeanwhile' = postedMeanwhile \cup {m}
    /\ UNCHANGED <<rowVars, madeBy, localVars, driftPc, listing, recorded, reportVars,
                   touchedBefore, successBefore>>

(* A saga's step; a deleted id is not handed out again, and action_post on *)
(* a move that is no longer a draft is refused by Odoo.                    *)
SagaRuns ==
    /\ SagaNext
    /\ \A m \in touched : moveState[m] = "absent" => moveState'[m] = "absent"
    /\ postedMeanwhile' = postedMeanwhile
           \cup {m \in Moves : moveState'[m] # moveState[m]}
           \cup ({externalId'[o] : o \in Ops} \ {externalId[o] : o \in Ops})
    /\ UNCHANGED <<driftPc, listing, recorded, reportVars, touched, touchedBefore,
                   successBefore>>

DriftNext == \/ ReadRecorded
             \/ ReadStates
             \/ ListPosted
             \/ ReadFails
             \/ \E m \in Moves, s \in {"absent", "draft", "posted", "cancel"} : HumanWrites(m, s)
             \/ SagaRuns

DriftSpec == DriftInit /\ [][DriftNext]_driftVars

-----------------------------------------------------------------------------
(* Properties of a report, from the read of the states on. *)

Reported == driftPc = "states" \/ (driftPc = "idle" /\ recorded # {})

(* "drift should be ZERO on a healthy tenant": the detector raises no      *)
(* false alarm.  Whatever is reported missing or mismatched is a move that *)
(* an operation posted and a person has changed since: not a saga that was *)
(* still between create and post, failed, or died.                         *)
DriftIsHuman == missing \cup mismatched \subseteq touched

(* And no alarm is missed: a recorded move that was reset, cancelled or    *)
(* deleted before the run and that nobody changes during it is drift.      *)
DriftIsFound ==
    Reported =>
        \A m \in successBefore \ postedMeanwhile :
            moveState[m] # "posted" => m \in missing \cup mismatched

(* What is listed as untracked was not written by an operation that had    *)
(* succeeded when the run began: it is a person's entry, or the trace of   *)
(* an operation that had not, or not yet, succeeded.  In a quiet run the   *)
(* list is complete: every posted move with no successful operation, the   *)
(* duplicates a retry left behind included, is in it.                      *)
UntrackedIsUnrecorded ==
    /\ untracked \cap successBefore = {}
    /\ driftPc = "idle" /\ listing /\ postedMeanwhile = {} =>
           untracked = {m \in Moves : moveState[m] = "posted"} \ RecordedMoves

(* The report as a whole: no false alarm, no missed one, and a list of     *)
(* untracked entries that blames no operation that had succeeded.          *)
ReportIsTrue == DriftIsHuman /\ DriftIsFound /\ UntrackedIsUnrecorded
=============================================================================
