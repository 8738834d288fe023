---------------------------- MODULE MCLsmShared ----------------------------
(***************************************************************************)
(* LsmShared for TLC: four fleets, and where the run stops following a     *)
(* behaviour.                                                              *)
(***************************************************************************)
EXTENDS LsmShared, TLC

CONSTANTS r1, r2, w, k

\* Two clients that read, write and work; a worker and a checkpointer, with
\* crashes, before and after the first checkpoint; a worker alone, with a file
\* large enough for a block to be moved.
AllFleets ==
  {[conns |-> {r1, r2}, maxBlock |-> 2, maxId |-> 4, iMetaPage |-> 0],
   [conns |-> {w, k}, maxBlock |-> 2, maxId |-> 4, iMetaPage |-> 1],
   [conns |-> {w, k}, maxBlock |-> 2, maxId |-> 3, iMetaPage |-> 0],
   [conns |-> {w}, maxBlock |-> 3, maxId |-> 5, iMetaPage |-> 0]}

\* Nothing is claimed of what follows one of the two races.
NoLapse == lapse = None

Symmetry == Permutations({r1, r2})
=============================================================================
