------------------------- MODULE MCDelegationEngine -------------------------
(* Two children, independent or one after the other. *)
EXTENDS DelegationEngine, TLC

CONSTANTS c1, c2

MCChild == {c1, c2}

MCInvocations ==
  [plan : {[c \in MCChild |-> {}], (c1 :> {}) @@ (c2 :> {c1})},
   policed : {TRUE}, approval : {"missing", "granted"}]
=============================================================================
