------------------------------ MODULE AutoAction -------------------------------
(***************************************************************************)
(* May the agent act on its own?  The tenant's switches, its subscription  *)
(* to a department, and the two engines that read them: AgentGate          *)
(* (agents/gate.py) and CapacityEngine (agents/capacity.py).  The engines  *)
(* are asked with a Tenant instance that may be older than its row; the    *)
(* subscription is queried each time.                                      *)
(***************************************************************************)
EXTENDS Integers

CONSTANTS Plans, PlanCap,   \* plan -> PLAN_DEFAULT_CAPS, 0 for any other plan
          Caps,             \* values of auto_action_cap
          Requested         \* amounts asked about

ASSUME CapsAssumption == /\ PlanCap \in [Plans -> Nat]
                         /\ Caps \subseteq Nat
                         /\ Requested \subseteq Int

VARIABLES tenantRow,      \* [agentEnabled, plan]
          tenantCopy,     \* the instance a caller holds
          subscription    \* the D01 row: [active, cap], or no row
switchVars == <<tenantRow, tenantCopy, subscription>>

NoRow == [active |-> FALSE, cap |-> 0]

SwitchInit == /\ \E p \in Plans : tenantRow = [agentEnabled |-> FALSE, plan |-> p]
              /\ tenantCopy = tenantRow
              /\ subscription = NoRow

SaveTenant(e, p) == /\ tenantRow' = [agentEnabled |-> e, plan |-> p]
                    /\ UNCHANGED <<tenantCopy, subscription>>

SaveSubscription(a, c) == /\ subscription' = [active |-> a, cap |-> c]
                          /\ UNCHANGED <<tenantRow, tenantCopy>>

LoadTenant == /\ tenantCopy' = tenantRow
              /\ UNCHANGED <<tenantRow, subscription>>

SwitchNext == \/ \E e \in BOOLEAN, p \in Plans : SaveTenant(e, p)
              \/ \E a \in BOOLEAN, c \in Caps : SaveSubscription(a, c)
              \/ LoadTenant

SwitchSpec == SwitchInit /\ [][SwitchNext]_switchVars

-----------------------------------------------------------------------------
(* Tenant.is_subscribed and BaseDepartment.is_enabled. *)
IsSubscribed == subscription.active

(* AgentGate.check: both, else closed. *)
GateOpen == tenantCopy.agentEnabled /\ IsSubscribed

(* An override of 0 is no override: the plan's default applies. *)
EffectiveCapOfAnyRow == IF subscription.cap > 0 THEN subscription.cap
                                                 ELSE PlanCap[tenantCopy.plan]
EffectiveCap ==
    CASE ~IsSubscribed -> 0
      [] IsSubscribed /\ subscription.cap > 0 -> subscription.cap
      [] OTHER -> PlanCap[tenantCopy.plan]

(* CapacityEngine.check. *)
Decision(n) == CASE n <= 0 -> "refuse"
                 [] n > 0 /\ EffectiveCap # 0 /\ n <= EffectiveCap -> "auto_approve"
                 [] OTHER -> "queue"

-----------------------------------------------------------------------------
(* The capacity engine never lets the agent act in a department that is    *)
(* not subscribed now, nor beyond the larger of the department's ceiling   *)
(* and the plan's; a positive ceiling is the only one that counts; and     *)
(* what it lets pass at an amount it lets pass at every smaller one.  A    *)
(* ceiling of 0 does not stop the agent: the plan's default does.  The     *)
(* row's flag closes the gate at once as well; the master switch closes it *)
(* for an instance loaded after it was turned off.                         *)
AutoOnlyWithinCap ==
    /\ GateOpen => subscription.active
    /\ GateOpen /\ tenantCopy = tenantRow => tenantRow.agentEnabled
    /\ \A n \in Requested :
           Decision(n) = "auto_approve" =>
               /\ subscription.active
               /\ 0 < n
               /\ subscription.cap > 0 => n <= subscription.cap
               /\ subscription.cap = 0 => n <= PlanCap[tenantCopy.plan]
               /\ \A m \in Requested : 0 < m /\ m < n => Decision(m) = "auto_approve"

(* auto_action_cap: "0 = never auto-act (always queue for human)" in the   *)
(* model's comment, "0 = always require approval" in its help text.        *)
ZeroCapQueues ==
    \A n \in Requested :
        subscription.active /\ subscription.cap = 0 => Decision(n) # "auto_approve"
=============================================================================
