------------------------------ MODULE MCPlatform -------------------------------
(* Model-checking instance of the platform around the departments: the     *)
(* drift detector, the poller, sessions and tenants, and connections.      *)
(* They share no row: a behaviour works at one desk and leaves the others  *)
(* alone.  Two components have two desks: one with two requests on one     *)
(* row, one with several rows and one request at a time.                   *)
EXTENDS ErpDrift, OdooPoller, TenantSession, Connections, TLC

CONSTANTS w1, w2, you, c1, c2, u1, key1

VARIABLE desk
Desks == {"drift", "poller", "session", "approvers", "connection", "posting"}

JoinedInOrder == (w1 :> 1) @@ (w2 :> 2)
RankByName == (c1 :> 1) @@ (c2 :> 2)

FormOf(v, u, k, p) == [vendor |-> v, url |-> u, key |-> k, primary |-> p]
MCForms == {FormOf("odoo", u1, key1, FALSE), FormOf("odoo", NoUrl, NoKey, TRUE), FormOf("odoo", NoUrl, NoKey, FALSE),
            FormOf("sage", NoUrl, NoKey, FALSE), FormOf("manual", NoUrl, NoKey, FALSE)}

allVars == <<desk, driftVars, pollVars, sessVars, conVars>>

Init == desk \in Desks /\ DriftInit /\ PollInit /\ SessInit /\ ConInit

OneAtATime(pcs) == \A t, u \in DOMAIN pcs : t # u => "idle" \in {pcs[t], pcs[u]}

SessionDesk ==
    \/ /\ desk = "session"
       /\ \A k \in Tenants : you \notin members'[k]
       /\ \A t \in Requests : reqPc'[t] # "naming"
       /\ approver' = approver /\ byAdmin' = {}
    \/ /\ desk = "approvers"
       /\ OneAtATime(reqPc')
       /\ \A k \in Tenants : Me \in members'[k]
       /\ wanted' \in {NoTenant, w2}
       /\ unfiltered' = {}

ConnectionDesk ==
    \/ /\ desk = "connection"
       /\ c2 \notin exists'
       /\ conRow'[c1].active /\ ~conRow'[c1].primary
       /\ \A t \in ConThreads : conPc'[t] # "built"
    \/ /\ desk = "posting"
       /\ \A t, u \in ConThreads : t # u => {conPc'[t], conPc'[u]} \cap {"idle", "built"} # {}
       /\ \A t \in ConThreads : conPc'[t] # "probed"
       /\ lastKey' = lastKey
       /\ \A c \in Connections : conRow'[c].url = NoUrl

Next == \/ /\ desk = "drift" /\ DriftNext
           /\ UNCHANGED <<desk, pollVars, sessVars, conVars>>
        \/ /\ desk = "poller" /\ PollNext
           /\ UNCHANGED <<desk, driftVars, sessVars, conVars>>
        \/ /\ SessNext /\ SessionDesk
           /\ UNCHANGED <<desk, driftVars, pollVars, conVars>>
        \/ /\ ConNext /\ ConnectionDesk
           /\ UNCHANGED <<desk, driftVars, pollVars, sessVars>>

Spec == Init /\ [][Next]_allVars

Symmetry == Permutations(Moves) \cup Permutations(Requests) \cup Permutations(ConThreads)
=============================================================================
