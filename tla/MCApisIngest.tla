---------------------------- MODULE MCApisIngest ----------------------------
(***************************************************************************)
(* Instances of ApisIngest for TLC.                                        *)
(***************************************************************************)
EXTENDS ApisIngest, TLC

Symmetric == Permutations(Tasks)
==============================================================================
