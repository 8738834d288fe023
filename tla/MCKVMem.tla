------------------------------- MODULE MCKVMem -------------------------------
(***************************************************************************)
(* Instances of KVMem for TLC.                                             *)
(***************************************************************************)
EXTENDS KVMem, TLC

MCKeys == {1, 2}
MCNodes == {1, 2}
MCDatas2 == 1..2

ValSymmetry == Permutations(Vals)
=============================================================================
