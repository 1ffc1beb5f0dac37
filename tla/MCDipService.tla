----------------------------- MODULE MCDipService -----------------------------
(***************************************************************************)
(* Instances of DipService for TLC.                                        *)
(***************************************************************************)
EXTENDS DipService, TLC

Symmetric == Permutations(Dips) \cup Permutations(Requests)
==============================================================================
