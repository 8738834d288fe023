----------------------------- MODULE MCPrepare -----------------------------
(* The scenarios of Prepare for model checking.  One is chosen at the start *)
(* of a behaviour; its numbers are the bounds of that behaviour.            *)
EXTENDS Prepare

Scene == [kind |-> "lsm", conns |-> Conn, readers |-> {1}, sqls |-> <<{}, {}>>,
          ids |-> 0, ddls |-> 0, fails |-> 0, txns |-> 0, attaches |-> 0,
          files |-> {}]

Create == <<"create", 0>>
Drop == <<"drop", 0>>
Alter == <<"alter", 0>>
Index == <<"index", 0>>

(* One connection reads while another changes the schema four times, enough *)
(* for sqlite4_step() to run out of retries.                                *)
Watched == [Scene EXCEPT !.sqls = <<{}, {Create, Drop, Alter}>>, !.ddls = 4]

(* Two connections change the schema against each other.                    *)
Rivals == [Scene EXCEPT !.sqls = <<{Create, Drop}, {Create, Drop}>>, !.ddls = 3]

(* The same in transactions with savepoints.                                *)
Nested == [Scene EXCEPT !.sqls = <<{Create}, {Create}>>, !.ddls = 2, !.txns = 2,
                        !.fails = 1]

(* A database in memory, whose cookie no rollback restores.                 *)
Memory == [Scene EXCEPT !.conns = {1}, !.kind = "mem", !.txns = 2, !.ddls = 2,
                        !.fails = 1, !.sqls[1] = {Create, Drop}]

(* A LevelDB database, where nothing is rolled back.                        *)
LevelDb == [Scene EXCEPT !.conns = {1}, !.kind = "ldb", !.txns = 1, !.ddls = 2,
                         !.fails = 1, !.sqls[1] = {Create, Alter}]

(* A temp table takes the name of a table in main.                          *)
Shadow == [Scene EXCEPT !.conns = {1}, !.txns = 1, !.ddls = 3,
                        !.sqls[1] = {Create, <<"create", TempDb>>, Index}]

(* Files come and go in one slot of aDb[].                                  *)
Attached == [Scene EXCEPT !.conns = {1}, !.attaches = 2, !.ddls = 2, !.fails = 1,
                          !.files = {"X", "Y"},
                          !.sqls[1] = {Create, <<"create", 2>>}]

MCCases == {Watched, Rivals, Nested, Memory, LevelDb, Shadow, Attached}
=============================================================================
