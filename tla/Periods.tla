-------------------------------- MODULE Periods --------------------------------
(***************************************************************************)
(* Accounting periods (accounting/models.py Period) and the diary of their *)
(* locks (PeriodLock), as the admin's bulk actions change them: a request  *)
(* copies the selected periods, and lock(), unlock() and start_close()     *)
(* test the copy and save their own columns, with the diary's row in the   *)
(* same transaction.                                                       *)
(***************************************************************************)
EXTENDS Naturals, Sequences

CONSTANTS PeriodThreads, PeriodKeys,
          MaxDiary      \* bound on the diary of a period

ASSUME PeriodAssumption == MaxDiary \in Nat

VARIABLES period,       \* period -> state
          closedAt,     \* period -> closed_at is set
          diary,        \* period -> PeriodLock.action, oldest first
          perAct, perCopy,   \* locals: what is being done to which copies
          perRaced      \* periods two requests held at once (history)

perVars == <<period, closedAt, diary, perAct, perCopy, perRaced>>

PeriodInit == /\ period = [p \in PeriodKeys |-> "open"]
              /\ closedAt = [p \in PeriodKeys |-> FALSE]
              /\ diary = [p \in PeriodKeys |-> <<>>]
              /\ perAct = [t \in PeriodThreads |-> "none"]
              /\ perCopy = [t \in PeriodThreads |-> <<>>]
              /\ perRaced = {}

(* The queryset: the selected periods are read in one query.  A copy is a  *)
(* function from the periods still to be done to their states.             *)
HeldPeriods(t) == UNION {DOMAIN perCopy[u] : u \in PeriodThreads \ {t}}

SelectPeriods(t, S, a) ==
    /\ perAct[t] = "none"
    /\ S # {}
    /\ perAct' = [perAct EXCEPT ![t] = a]
    /\ perCopy' = [perCopy EXCEPT ![t] = [p \in S |-> period[p]]]
    /\ perRaced' = perRaced \cup (S \cap HeldPeriods(t))
    /\ UNCHANGED <<period, closedAt, diary>>

DoneWith(t, p) ==
    LET rest == DOMAIN perCopy[t] \ {p} IN
    /\ perCopy' = [perCopy EXCEPT ![t] = [q \in rest |-> perCopy[t][q]]]
    /\ perAct' = [perAct EXCEPT ![t] = IF rest = {} THEN "none" ELSE @]
    /\ UNCHANGED perRaced

Turn(t, p, a) == perAct[t] = a /\ p \in DOMAIN perCopy[t]

PeriodWrite(p, s, closed, entry) ==
    /\ Len(diary[p]) + Len(entry) <= MaxDiary
    /\ period' = [period EXCEPT ![p] = s]
    /\ closedAt' = [closedAt EXCEPT ![p] = closed]
    /\ diary' = [diary EXCEPT ![p] = @ \o entry]

Lockable(s) == s # "closed"

Lock(t, p) == /\ Turn(t, p, "lock")
              /\ Lockable(perCopy[t][p])
              /\ PeriodWrite(p, "closed", TRUE, <<"lock">>)
              /\ DoneWith(t, p)

Unlock(t, p) == /\ Turn(t, p, "unlock")
                /\ perCopy[t][p] # "open"
                /\ PeriodWrite(p, "open", FALSE, <<"unlock">>)
                /\ DoneWith(t, p)

(* start_close writes no diary row and leaves closed_at alone. *)
ClosableAlways(s) == TRUE
Closable(s) == s # "closed"

StartClose(t, p) == /\ Turn(t, p, "start_close")
                    /\ Closable(perCopy[t][p])
                    /\ PeriodWrite(p, "in_progress", closedAt[p], <<>>)
                    /\ DoneWith(t, p)

(* lock() of a closed copy, unlock() of an open one: nothing.  start_close *)
(* of a closed copy raises, is reported, and the loop goes on.             *)
SkipPeriod(t, p) == /\ p \in DOMAIN perCopy[t]
                    /\ CASE perAct[t] = "lock"        -> ~Lockable(perCopy[t][p])
                         [] perAct[t] = "unlock"      -> perCopy[t][p] = "open"
                         [] perAct[t] = "start_close" -> ~Closable(perCopy[t][p])
                    /\ DoneWith(t, p)
                    /\ UNCHANGED <<period, closedAt, diary>>

(* The request dies, or a statement raises: the rest is not done. *)
PeriodsAbandoned(t) == /\ perAct[t] # "none"
                       /\ perAct' = [perAct EXCEPT ![t] = "none"]
                       /\ perCopy' = [perCopy EXCEPT ![t] = <<>>]
                       /\ UNCHANGED <<period, closedAt, diary, perRaced>>

PeriodNext ==
    \E t \in PeriodThreads :
        \/ \E S \in SUBSET PeriodKeys, a \in {"lock", "unlock", "start_close"} :
               SelectPeriods(t, S, a)
        \/ \E p \in PeriodKeys : Lock(t, p) \/ Unlock(t, p) \/ StartClose(t, p)
                                 \/ SkipPeriod(t, p)
        \/ PeriodsAbandoned(t)

PeriodSpec == PeriodInit /\ [][PeriodNext]_perVars

-----------------------------------------------------------------------------
(* Properties. *)

PeriodStates == {"open", "in_progress", "closed"}

PeriodTypeOK ==
    /\ period \in [PeriodKeys -> PeriodStates]
    /\ closedAt \in [PeriodKeys -> BOOLEAN]
    /\ diary \in [PeriodKeys -> Seq({"lock", "unlock"})]
    /\ perAct \in [PeriodThreads -> {"none", "lock", "unlock", "start_close"}]
    /\ perCopy \in [PeriodThreads -> UNION {[S -> PeriodStates] : S \in SUBSET PeriodKeys}]
    /\ perRaced \subseteq PeriodKeys

(* PeriodLock: "we keep a full history of every lock / unlock action".     *)
(* The last line of the diary tells whether the period is closed, and so   *)
(* does closed_at, unless two requests held the period at once.            *)
DiaryTellsTheState ==
    \A p \in PeriodKeys \ perRaced :
        LET n == Len(diary[p]) IN
        /\ period[p] = "closed" <=> n > 0 /\ diary[p][n] = "lock"
        /\ period[p] = "closed" <=> closedAt[p]
=============================================================================
