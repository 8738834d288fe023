------------------------------- MODULE MCKVLdb -------------------------------
(***************************************************************************)
(* Instances of KVLdb for TLC.                                             *)
(***************************************************************************)
EXTENDS KVLdb

MCPrefixes == {<<1, 2>>}
=============================================================================
