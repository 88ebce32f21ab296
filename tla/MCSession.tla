----------------------------- MODULE MCSession -----------------------------
(***************************************************************************)
(* Session on small instances: model values for clients and protocols.     *)
(***************************************************************************)
EXTENDS Session, TLC

Symmetry == Permutations(Clients)
=============================================================================
