----------------------------- MODULE MCApQueue ------------------------------
(* Model-checking instance of ApQueue, with two sides: requests on every   *)
(* item and no change form, or change forms beside requests on one item.   *)
EXTENDS ApQueue, TLC

CONSTANTS requests,
          Sides      \* some of requests and the items

VARIABLE side

ASSUME Sides \subseteq {requests} \cup Items

MCInit == side \in Sides /\ Init

OnThisSide == \A r \in Runners : IF side = requests THEN act'[r] # "edit"
                                                    ELSE todo'[r] \subseteq {side}

MCNext == Next /\ OnThisSide /\ UNCHANGED side

MCSpec == MCInit /\ [][MCNext]_<<side, vars>>

SafetySymmetry == Permutations(Runners) \cup Permutations(Moves) \cup Permutations(Ops)
=============================================================================
