----------------------------- MODULE MCVdbeTxn -----------------------------
(* Instances of VdbeTxn for model checking.                                 *)
EXTENDS VdbeTxn, TLC

CONSTANTS c0, c1, c2

(* c1 violates one deferred foreign key.                                    *)
MCViol == [c \in Content |-> IF c = c1 THEN 1 ELSE 0]

VdbeSymmetry == Permutations(Vdbes)

AllLsm == [d \in Dbs |-> "lsm"]

AllLdb == [d \in Dbs |-> "ldb"]

=============================================================================
