------------------------ MODULE MCDelegationExecutor ------------------------
(* Three children: independent, in a chain, and joining at the third. *)
EXTENDS DelegationExecutor, TLC

CONSTANTS c1, c2, c3

MCChild == {c1, c2, c3}

Flat == [c \in MCChild |-> {}]
Chain == (c1 :> {}) @@ (c2 :> {c1}) @@ (c3 :> {c2})
Join == (c1 :> {}) @@ (c2 :> {}) @@ (c3 :> {c1, c2})

MCInvocations ==
  {[plan |-> Flat, policed |-> FALSE, approval |-> "missing"],
   [plan |-> Chain, policed |-> TRUE, approval |-> "missing"],
   [plan |-> Join, policed |-> TRUE, approval |-> "denied"],
   [plan |-> Join, policed |-> TRUE, approval |-> "granted"]}
=============================================================================
