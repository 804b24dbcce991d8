--------------------------- MODULE MCRootDelivery ---------------------------
(* Two branches and three steps of the user. *)
EXTENDS RootDelivery
=============================================================================
