------------------------------ MODULE OdooPoller -------------------------------
(***************************************************************************)
(* CAP.22: detecting the entries people post in Odoo by polling            *)
(* (connectors/odoo/connector.py poll_posted_entries), and the loop its    *)
(* docstring prescribes to the caller: store the watermark, poll again     *)
(* from it with a small overlap, at once when the answer was truncated,    *)
(* and drop what was seen before.                                          *)
(*                                                                         *)
(* Odoo stamps write_date when a transaction starts, so an entry can       *)
(* become visible after entries with a later date have.  Dates are whole   *)
(* seconds: several entries share one.                                     *)
(***************************************************************************)
EXTENDS Naturals, FiniteSets

CONSTANTS MoveIds,        \* account.move ids
          PollLimit, Overlap,
          LastSecond      \* bound on the clock

ASSUME PollAssumption == /\ MoveIds \subseteq Nat
                         /\ PollLimit \in Nat \ {0}
                         /\ Overlap \in Nat
                         /\ LastSecond \in Nat \ {0}

VARIABLES second,         \* Odoo's clock
          stamp,          \* entry -> write_date, 0 before it is written
          posted,         \* entries visible as posted
          byAgent,        \* entries the agent posted
          excluded,       \* ids EA Ledgers recorded as its own
          watermark,      \* stored by the caller; 0 for none
          truncated,      \* the last answer was truncated
          seen,           \* entries reported so far
          furthest,       \* the latest date any poll looked at (history)
          cutAt,          \* dates a truncated answer ended at (history)
          late            \* entries that showed up behind a poll (history)
pollVars == <<second, stamp, posted, byAgent, excluded, watermark, truncated, seen,
              furthest, cutAt, late>>

PollInit == /\ second = 1
            /\ stamp = [m \in MoveIds |-> 0]
            /\ posted = {} /\ byAgent = {} /\ excluded = {} /\ seen = {} /\ cutAt = {} /\ late = {}
            /\ watermark = 0 /\ furthest = 0
            /\ truncated = FALSE

-----------------------------------------------------------------------------
(* Odoo. *)

Tick == /\ second < LastSecond
        /\ second' = second + 1
        /\ UNCHANGED <<stamp, posted, byAgent, excluded, watermark, truncated, seen,
                       furthest, cutAt, late>>

(* A transaction begins to write m. *)
StartWrite(m) == /\ stamp[m] = 0
                 /\ stamp' = [stamp EXCEPT ![m] = second]
                 /\ UNCHANGED <<second, posted, byAgent, excluded, watermark, truncated,
                                seen, furthest, cutAt, late>>

(* It commits, by a person or by the agent. *)
CommitWrite(m, own) ==
    /\ stamp[m] # 0
    /\ m \notin posted
    /\ posted' = posted \cup {m}
    /\ byAgent' = IF own THEN byAgent \cup {m} ELSE byAgent
    /\ late' = IF stamp[m] <= furthest THEN late \cup {m} ELSE late
    /\ UNCHANGED <<second, stamp, excluded, watermark, truncated, seen, furthest, cutAt>>

(* The agent's operation records the id some time after, or never.         *)
RecordOwn(m) ==
    /\ m \in byAgent \ excluded
    /\ excluded' = excluded \cup {m}
    /\ UNCHANGED <<second, stamp, posted, byAgent, watermark, truncated, seen, furthest,
                   cutAt, late>>

-----------------------------------------------------------------------------
(* poll_posted_entries. *)

Matching(since) == {m \in posted : stamp[m] > since}

ById(m, n) == m < n
ByDateThenId(m, n) == stamp[m] < stamp[n] \/ (stamp[m] = stamp[n] /\ m < n)

(* search_read(order="write_date asc, id asc", limit=limit). *)
Fetched(since) ==
    {m \in Matching(since) :
        Cardinality({n \in Matching(since) : ByDateThenId(n, m)}) < PollLimit}

LastDate(ms) == CHOOSE d \in {stamp[m] : m \in ms} : \A m \in ms : stamp[m] <= d

(* The watermark passes everything fetched, excluded entries included. *)
WatermarkAfter(ms, since) == IF ms = {} THEN since ELSE LastDate(ms)

NotOwn(ms) == ms \ excluded

(* The caller: from the watermark, or a little before it. *)
Poll(since) ==
    LET ms == Fetched(since) IN
    /\ since \in {watermark, IF watermark > Overlap THEN watermark - Overlap ELSE 0}
    /\ truncated => since = watermark
    /\ seen' = seen \cup NotOwn(ms)
    /\ watermark' = WatermarkAfter(ms, since)
    /\ truncated' = (Cardinality(ms) = PollLimit)
    /\ cutAt' = IF Cardinality(ms) = PollLimit THEN cutAt \cup {LastDate(ms)} ELSE cutAt
    /\ furthest' = IF WatermarkAfter(ms, since) > furthest
                   THEN WatermarkAfter(ms, since) ELSE furthest
    /\ UNCHANGED <<second, stamp, posted, byAgent, excluded, late>>

PollNext == \/ Tick
            \/ \E m \in MoveIds : \/ StartWrite(m)
                                  \/ \E own \in BOOLEAN : CommitWrite(m, own)
                                  \/ RecordOwn(m)
            \/ \E since \in 0 .. LastSecond : Poll(since)

PollSpec == PollInit /\ [][PollNext]_pollVars

-----------------------------------------------------------------------------
(* Properties. *)

(* "so the agents notice entries a human posted directly in the ERP": an   *)
(* entry the polls have passed has been reported, whatever the batches     *)
(* were filled with.  Three entries escape: one recorded as the agent's    *)
(* own (not yet recorded, the agent's is reported like a person's), one    *)
(* that shares its second with the end of a truncated answer (the next     *)
(* poll asks for strictly later dates), and one committed after a poll had *)
(* passed the second its transaction began in.                             *)
PassedIsReported ==
    \A m \in posted \ (excluded \cup late) :
        stamp[m] <= furthest /\ stamp[m] \notin cutAt => m \in seen

(* The overlap is what recovers the entries committed late: after an       *)
(* answer that was not truncated nothing is left behind within the         *)
(* overlap, late or not.                                                   *)
OverlapRecoversLate ==
    \A since \in 0 .. LastSecond :
        Poll(since) /\ ~truncated' =>
            \A m \in posted \ excluded : stamp[m] > since => m \in seen'

(* A caller that polls as it is told to misses nothing it could have got.  *)
NothingIsSkipped == [][PassedIsReported' /\ OverlapRecoversLate]_pollVars
=============================================================================
