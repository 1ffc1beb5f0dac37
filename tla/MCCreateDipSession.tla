-------------------------- MODULE MCCreateDipSession --------------------------
(***************************************************************************)
(* Instances of CreateDipSession for TLC.                                  *)
(***************************************************************************)
EXTENDS CreateDipSession, TLC

Symmetric == Permutations(Files) \cup Permutations(Workers)
==============================================================================
