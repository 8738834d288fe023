------------------------------ MODULE MCLsmLog ------------------------------
(***************************************************************************)
(* LsmLog for TLC: the databases to look at, each with what may happen to  *)
(* it, and where the run stops following a behaviour.                      *)
(***************************************************************************)
EXTENDS LsmLog

Case(m, w, t, k, f, c) ==
  [mode |-> m, left |-> [x \in {"write", "trans", "work", "flush", "crash"} |->
     CASE x = "write" -> w [] x = "trans" -> t [] x = "work" -> k
       [] x = "flush" -> f [] x = "crash" -> c]]

\* Enough writes for a log that wraps and jumps, with a crash; savepoints;
\* lsm_flush(); and a database without a log.
AllCases ==
  {Case("full", 4, 0, 0, 0, 1), Case("normal", 3, 1, 0, 0, 1),
   Case("full", 3, 0, 0, 1, 1), Case("normal", 3, 0, 1, 1, 0),
   Case("nolog", 3, 1, 1, 1, 1)}

\* One lsm_flush() and two writes.
OneFlush == {Case("full", 2, 0, 0, 1, 0)}

\* Nothing is claimed of what follows one of the four flaws.
NoLapse == lapse = {}
=============================================================================
