----------------------------- MODULE TenantSession -----------------------------
(***************************************************************************)
(* Which tenant a request works for (accounting/middleware.py), how the    *)
(* pointer in the session moves (switch_tenant, the sign-up), what the     *)
(* database lets through (managers.for_tenant and the row-level-security   *)
(* policies of migration 0008), the pages that read, and those that name   *)
(* approvers: the approver page and the admin.                             *)
(*                                                                         *)
(* The requests of one browser share a session: each loads the whole       *)
(* session when it starts and, if it changed it, saves the whole of it     *)
(* when it ends.  reqPc[t]:                                                *)
(*   "idle"     no request                                                 *)
(*   "arrived"  session loaded, tenant not resolved                        *)
(*   "view"     request.tenant set, the view runs                          *)
(*   "naming"   approver page: the member list is read                     *)
(***************************************************************************)
EXTENDS Naturals, FiniteSets

CONSTANTS Requests,
          Tenants, NoTenant,
          Me,             \* the user of the session
          People,         \* everybody who may be a member
          Nobody,
          Joined,         \* tenant -> rank of my membership by created_at, id
          DatabaseModes   \* connections this deployment may have

ASSUME SessionAssumption ==
    /\ Me \in People /\ Nobody \notin People
    /\ NoTenant \notin Tenants
    /\ Joined \in [Tenants -> Nat]
    /\ \A a, b \in Tenants : a # b => Joined[a] # Joined[b]
    /\ DatabaseModes \subseteq {"sqlite", "rls"}

VARIABLES members,       \* tenant -> people with an active membership
          pointer,       \* the stored session's tenant_slug
          mode,          \* the database: no RLS, or RLS for this role
          reqPc,
          reqSession,    \* the request's copy of the session
          dirty,         \* the copy was changed
          reqTenant,     \* request.tenant
          readTenants,   \* tenants of the rows the view's queries returned
          unfiltered,    \* requests that opened an admin page without a
                         \*   tenant filter (history)
          listed,        \* approver page: the members read
          approver,      \* tenant -> default_approver
          byAdmin,       \* tenants whose approver the admin chose (history)
          revoked,       \* [tenant, person] revoked while a page was open (history)
          wanted,        \* the last tenant switched to successfully (history)
          contended,     \* two requests of the session overlapped since (history)
          leftOut        \* my membership there ended since (history)

rows == <<members, approver>>
request == <<reqPc, reqSession, dirty, reqTenant, readTenants, listed>>
sessHistory == <<unfiltered, byAdmin, revoked, wanted, contended, leftOut>>
sessVars == <<rows, pointer, mode, request, sessHistory>>

SessInit == /\ members = [k \in Tenants |-> {Me}]
            /\ pointer = NoTenant
            /\ mode \in DatabaseModes
            /\ reqPc = [t \in Requests |-> "idle"]
            /\ reqSession = [t \in Requests |-> NoTenant]
            /\ dirty = [t \in Requests |-> FALSE]
            /\ reqTenant = [t \in Requests |-> NoTenant]
            /\ readTenants = [t \in Requests |-> {}]
            /\ listed = [t \in Requests |-> {}]
            /\ unfiltered = {} /\ byAdmin = {}
            /\ approver = [k \in Tenants |-> Nobody]
            /\ revoked = {}
            /\ wanted = NoTenant
            /\ contended = FALSE
            /\ leftOut = FALSE

Open == {t \in Requests : reqPc[t] # "idle"}
Mine == {k \in Tenants : Me \in members[k]}

-----------------------------------------------------------------------------
(* The database.  The setting the policies read is made with               *)
(* set_config(..., is_local): it ends with the transaction of that very    *)
(* statement, so no later query of the request finds it, and under a       *)
(* policy a row is visible only to the tenant in the setting.              *)

Setting == {}
VisibleRows == IF mode = "rls" THEN Setting ELSE Tenants

(* Membership is one of the tables under a policy. *)
MyVisibleMemberships == Mine \cap VisibleRows

(* managers.for_tenant: nothing for no tenant, else the tenant's rows. *)
ForTenant(k) == IF k = NoTenant THEN {} ELSE VisibleRows \cap {k}

-----------------------------------------------------------------------------
(* A request. *)

Arrive(t) ==
    /\ reqPc[t] = "idle"
    /\ reqPc' = [reqPc EXCEPT ![t] = "arrived"]
    /\ reqSession' = [reqSession EXCEPT ![t] = pointer]
    /\ contended' = (contended \/ Open # {})
    /\ UNCHANGED <<rows, pointer, mode, dirty, reqTenant, readTenants, listed,
                   unfiltered, byAdmin, revoked, wanted, leftOut>>

FirstOf(ks) == CHOOSE k \in ks : \A j \in ks : Joined[k] <= Joined[j]

(* _resolve_tenant: the session's pointer while I am an active member      *)
(* there, else my first active membership, else none.                      *)
ResolvedTrusting(p, ks) == IF p # NoTenant THEN p
                           ELSE IF ks = {} THEN NoTenant ELSE FirstOf(ks)
Resolved(p, ks) == IF p \in ks THEN p
                   ELSE IF ks = {} THEN NoTenant ELSE FirstOf(ks)

Resolve(t) ==
    LET k == Resolved(reqSession[t], MyVisibleMemberships) IN
    /\ reqPc[t] = "arrived"
    /\ reqTenant' = [reqTenant EXCEPT ![t] = k]
    /\ reqSession' = [reqSession EXCEPT ![t] = k]
    /\ dirty' = [dirty EXCEPT ![t] = (k # reqSession[t])]
    /\ reqPc' = [reqPc EXCEPT ![t] = "view"]
    /\ UNCHANGED <<rows, pointer, mode, readTenants, listed, sessHistory>>

(* A view of the tenant's data; @tenant_required turns a request without   *)
(* a tenant away.  The lists of a TenantAwareAdmin filter the same way.    *)
Query(t) ==
    /\ reqPc[t] = "view"
    /\ readTenants' = [readTenants EXCEPT ![t] = @ \cup ForTenant(reqTenant[t])]
    /\ UNCHANGED <<rows, pointer, mode, reqPc, reqSession, dirty, reqTenant, listed,
                   sessHistory>>

(* The admin's pages for memberships and tenants are plain ModelAdmins,    *)
(* and the related filters beside the other lists (journals, accounts,     *)
(* connections) offer every row there is: what the database lets through,  *)
(* or everything where the table is under no policy.                       *)
QueryUnfiltered(t) ==
    /\ reqPc[t] = "view"
    /\ \E ks \in {VisibleRows, Tenants} :
           readTenants' = [readTenants EXCEPT ![t] = @ \cup ks]
    /\ unfiltered' = unfiltered \cup {t}
    /\ UNCHANGED <<rows, pointer, mode, reqPc, reqSession, dirty, reqTenant, listed,
                   byAdmin, revoked, wanted, contended, leftOut>>

(* switch_tenant: only to a tenant I am an active member of. *)
Switch(t, k) ==
    /\ reqPc[t] = "view"
    /\ k \in MyVisibleMemberships
    /\ reqSession' = [reqSession EXCEPT ![t] = k]
    /\ dirty' = [dirty EXCEPT ![t] = TRUE]
    /\ wanted' = k
    /\ contended' = (Open # {t})
    /\ leftOut' = FALSE
    /\ UNCHANGED <<rows, pointer, mode, reqPc, reqTenant, readTenants, listed,
                   unfiltered, byAdmin, revoked>>

(* The response: the session is saved if it was changed. *)
Respond(t) ==
    /\ reqPc[t] \in {"view", "naming"}
    /\ pointer' = IF dirty[t] THEN reqSession[t] ELSE pointer
    /\ reqPc' = [reqPc EXCEPT ![t] = "idle"]
    /\ reqSession' = [reqSession EXCEPT ![t] = NoTenant]
    /\ dirty' = [dirty EXCEPT ![t] = FALSE]
    /\ reqTenant' = [reqTenant EXCEPT ![t] = NoTenant]
    /\ readTenants' = [readTenants EXCEPT ![t] = {}]
    /\ listed' = [listed EXCEPT ![t] = {}]
    /\ unfiltered' = unfiltered \ {t}
    /\ revoked' = IF Open = {t} THEN {} ELSE revoked
    /\ UNCHANGED <<rows, mode, byAdmin, wanted, contended, leftOut>>

-----------------------------------------------------------------------------
(* approver_assignment: the member list is read, then each subscription of *)
(* the tenant is saved.                                                    *)
ListMembers(t) ==
    /\ reqPc[t] = "view"
    /\ reqTenant[t] # NoTenant
    /\ listed' = [listed EXCEPT ![t] = IF reqTenant[t] \in VisibleRows
                                       THEN members[reqTenant[t]] ELSE {}]
    /\ reqPc' = [reqPc EXCEPT ![t] = "naming"]
    /\ UNCHANGED <<rows, pointer, mode, reqSession, dirty, reqTenant, readTenants,
                   sessHistory>>

EligibleApprovers(t) == listed[t]

NameApprover(t, u) ==
    /\ reqPc[t] = "naming"
    /\ u \in EligibleApprovers(t) \cup {Nobody}
    /\ approver' = [approver EXCEPT ![reqTenant[t]] = u]
    /\ byAdmin' = byAdmin \ {reqTenant[t]}
    /\ UNCHANGED <<members, pointer, mode, request, unfiltered, revoked, wanted,
                   contended, leftOut>>

(* The admin's subscription page (of my tenant) and the subscriptions on   *)
(* its tenant page (of any) offer every user, and save the row whole: a    *)
(* form opened long ago puts back the approver it was opened with.         *)
SaveSubscription(t, k, u) ==
    /\ reqPc[t] = "view"
    /\ approver' = [approver EXCEPT ![k] = u]
    /\ byAdmin' = byAdmin \cup {k}
    /\ UNCHANGED <<members, pointer, mode, request, unfiltered, revoked, wanted,
                   contended, leftOut>>

-----------------------------------------------------------------------------
(* Memberships change in the admin.  Whoever is the approver of a tenant   *)
(* stays its approver when the membership ends.                            *)
Grant(k, u) == /\ u \notin members[k]
               /\ members' = [members EXCEPT ![k] = @ \cup {u}]
               /\ UNCHANGED <<approver, pointer, mode, request, sessHistory>>

Revoke(k, u) == /\ u \in members[k]
                /\ members' = [members EXCEPT ![k] = @ \ {u}]
                /\ revoked' = revoked \cup {<<k, u>>}
                /\ leftOut' = (leftOut \/ (u = Me /\ k = wanted))
                /\ UNCHANGED <<approver, pointer, mode, request, unfiltered, byAdmin,
                               wanted, contended>>

SessNext ==
    \/ \E t \in Requests :
          \/ Arrive(t) \/ Resolve(t) \/ Query(t) \/ QueryUnfiltered(t) \/ Respond(t)
          \/ \E k \in Tenants : Switch(t, k)
          \/ ListMembers(t)
          \/ \E u \in People \cup {Nobody} : \/ NameApprover(t, u)
                                           \/ \E k \in Tenants : SaveSubscription(t, k, u)
    \/ \E k \in Tenants, u \in People : Grant(k, u) \/ Revoke(k, u)

SessSpec == SessInit /\ [][SessNext]_sessVars

-----------------------------------------------------------------------------
(* Properties. *)

(* A view and a tenant-aware admin page work for the tenant the request   *)
(* was resolved to: they read the rows of one tenant at most, one the user *)
(* was an active member of when the request was resolved; a pointer left   *)
(* in the session by an ended membership does not bring him back in.  Only *)
(* a membership that ends while the request runs goes unnoticed.           *)
RequestStaysInMyTenant ==
    \A t \in Requests :
        /\ reqTenant[t] # NoTenant => reqTenant[t] \in Mine \/ <<reqTenant[t], Me>> \in revoked
        /\ t \notin unfiltered => readTenants[t] \subseteq {reqTenant[t]} \ {NoTenant}

(* "Session: if the user previously selected a tenant via the switcher, we *)
(* honor that": the stored pointer is the tenant last switched to, until   *)
(* the membership there ends, once the switching request has answered and  *)
(* unless another request of the same browser overlapped it (whose copy    *)
(* of the session may be saved last).                                      *)
SwitchSticks ==
    wanted # NoTenant /\ ~contended /\ ~leftOut /\ Open = {} => pointer = wanted

(* An approver who was not chosen in the admin came from the approver page *)
(* of the very tenant: he was its member when the page read the list, not  *)
(* another tenant's.                                                       *)
ApproverIsMember ==
    \A k \in Tenants \ byAdmin' : approver'[k] # approver[k] =>
        approver'[k] \in members[k] \cup {Nobody} \/ <<k, approver'[k]>> \in revoked

(* What a request reads, where the next one starts and whom it may name    *)
(* all belong to the tenant its user is working in.                        *)
TenantIsRespected ==
    [][RequestStaysInMyTenant' /\ SwitchSticks' /\ ApproverIsMember]_sessVars
=============================================================================
