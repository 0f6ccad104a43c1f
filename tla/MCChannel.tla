----------------------------- MODULE MCChannel ------------------------------
(* Instances of Channel for TLC need no more than values for the bounds.     *)
EXTENDS Channel
=============================================================================
