------------------------------ MODULE Prepare ------------------------------
(***************************************************************************)
(* How a connection keeps its compiled statements and its copy of the      *)
(* schema in step with the databases: sqlite4_prepare(), the retry loop of *)
(* sqlite4_step(), the schema cookie, the generation of the in-memory      *)
(* schema, expiry, and what DDL, rollback, ATTACH and DETACH do to them.   *)
(*                                                                         *)
(* con[c] is one sqlite4 object:                                           *)
(*   sp      nSavepoint                                                    *)
(*   intern  the SQLITE4_InternChanges flag                                *)
(*   file    the file each slot of aDb[] has open, or None                 *)
(*   st      the slot's KVStore, a store of module StoreTxn                *)
(*   meta    the schema cookie the slot's store reads                      *)
(*   sch     the slot's Schema: cookie, generation, loaded, content        *)
(*   vm      the prepared statements                                       *)
(* call[c] is the API call that holds the connection's mutex.  disk is     *)
(* what is committed in each file.  A database is its schema, a version    *)
(* number and whether table t is in it, and the schema cookie.             *)
(* Slot 0 is main, 1 is temp, 2 an attached database.                      *)
(***************************************************************************)
EXTENDS Integers, Sequences, SequencesExt

CONSTANTS Conn,       \* connections
          Cases,      \* what each scenario contains, one of them per behaviour
          MaxRetry,   \* SQLITE4_MAX_SCHEMA_RETRY (5), scaled
          MaxLevel    \* bound on transaction levels

None == "none"
NoTable == [id |-> 0, has |-> FALSE]
Slots == 0..2
TempDb == 1
Stmts == {"q", "d"}

VARIABLES scene,   \* the scenario, and what is left of its bounds
          con, disk, call,
          lapse    \* a recognised flaw of the code has been met

vars == <<scene, con, disk, call, lapse>>

INSTANCE StoreTxn WITH Content <- [id : Nat, has : BOOLEAN], NoSnap <- None

Kind(d) == IF d = TempDb THEN "mem" ELSE scene.kind

Least(a, b) == IF a < b THEN a ELSE b
Greatest(a, b) == IF a < b THEN b ELSE a

-----------------------------------------------------------------------------
(* The stores behind the slots.                                             *)

Open(x) == {d \in Slots : x.file[d] # None}

(* aDb[] always has an entry for temp, with or without a store.             *)
Present(x, d) == d = TempDb \/ d \in Open(x)

(* What a reader of slot d finds now: outside a transaction, what is        *)
(* committed.  Only lsm files are shared.                                   *)
Shared(x, d) == Kind(d) = "lsm" /\ x.st[d].lvl = 0

View(x, d) == IF Shared(x, d) THEN disk[x.file[d]].tab ELSE x.st[d].cont

(* sqlite4KVStoreGetSchema().  lsm has the cookie in the tree header that   *)
(* is loaded with the snapshot, kvmem and kvldb in the store object.        *)
GetSchema(x, d) == IF Shared(x, d) THEN disk[x.file[d]].cookie ELSE x.meta[d]

Refreshed(x, d) ==
  [x EXCEPT !.st[d] = [@ EXCEPT !.cont = View(x, d),
                                !.dur = IF Shared(x, d) THEN View(x, d) ELSE @],
            !.meta[d] = GetSchema(x, d)]

Begin(x, d, l) == [Refreshed(x, d) EXCEPT !.st[d] = KVStoreBegin(Kind(d), @, l)]

(* lsm_begin() gets the WRITER lock, and has the newest snapshot.           *)
MayWrite(c, d) ==
  LET x == con[c] IN
  Kind(d) = "lsm" /\ x.st[d].lvl < 2 =>
    /\ \A e \in Conn \ {c} : \A f \in Slots :
         con[e].file[f] = x.file[d] => con[e].st[f].lvl < 2
    /\ x.st[d].lvl = 1 => disk[x.file[d]] = [cookie |-> x.meta[d],
                                               tab |-> x.st[d].cont]

PutTable(x, d, t) == [x EXCEPT !.st[d] = KVStoreWrite(Kind(d), @, t)]

(* What the other connections find once x has become y.  A write            *)
(* transaction that ends, by commit or by rollback, publishes its tree      *)
(* header; no rollback takes the cookie back.                               *)
Published(x, y) ==
  [f \in DOMAIN disk |->
     LET D == {d \in Slots : /\ x.file[d] = f
                             /\ y.file[d] = f
                             /\ y.st[d].lvl < 2
                             /\ \/ x.st[d].lvl >= 2
                                \/ y.st[d].dur # x.st[d].dur
                                \/ y.meta[d] # x.meta[d]}
     IN IF D = {} THEN disk[f]
        ELSE LET d == CHOOSE d \in D : TRUE
             IN [cookie |-> y.meta[d], tab |-> y.st[d].dur]]

-----------------------------------------------------------------------------
(* The in-memory schema.                                                    *)

SchemaClear(h) ==
  [h EXCEPT !.gen = IF h.loaded THEN @ + 1 ELSE @,
            !.loaded = FALSE, !.tab = NoTable]

ResetInternalSchema(x, d) ==
  [x EXCEPT !.sch = [i \in Slots |-> IF i \in {d, TempDb} THEN SchemaClear(@[i])
                                     ELSE @[i]]]

ResetAll(x) ==
  [x EXCEPT !.sch = [i \in Slots |-> SchemaClear(@[i])], !.intern = FALSE]

ExpirePreparedStatements(x) ==
  [x EXCEPT !.vm = [s \in Stmts |-> [@[s] EXCEPT !.expired = TRUE]]]

(* sqlite4InitOne(): cookie and content are read in one transaction.  A     *)
(* temp database nobody has opened is empty, and its cookie is not set.     *)
InitOne(x, d) ==
  IF d \notin Open(x)
  THEN [x EXCEPT !.sch[d].loaded = TRUE, !.sch[d].tab = NoTable]
  ELSE [x EXCEPT !.sch[d] = [@ EXCEPT !.loaded = TRUE,
                                      !.cookie = GetSchema(x, d),
                                      !.tab = View(x, d)]]

(* sqlite4Init() goes through main and the attached databases, then temp.   *)
ToLoad(x) ==
  SelectSeq(<<0, 2, TempDb>>, LAMBDA d : Present(x, d) /\ ~x.sch[d].loaded)

-----------------------------------------------------------------------------
(* Transactions as vdbeaux.c drives them.                                   *)

\* Mutant: only the rollback of a whole transaction discards the schema.
VdbeRollback_TopOnly(x, l) ==
  LET y == [x EXCEPT !.st = [d \in Slots |->
                IF d \in Open(x) /\ @[d].lvl >= l
                THEN KVStoreRollback(Kind(d), @[d], l) ELSE @[d]],
                     !.sp = Least(@, Greatest(l - 1, 0))]
  IN IF x.intern /\ l <= 1 THEN ResetAll(ExpirePreparedStatements(y)) ELSE y

VdbeRollback(x, l) ==
  LET y == [x EXCEPT !.st = [d \in Slots |->
                IF d \in Open(x) /\ @[d].lvl >= l
                THEN KVStoreRollback(Kind(d), @[d], l) ELSE @[d]],
                     !.sp = Least(@, Greatest(l - 1, 0))]
  IN IF x.intern
     THEN [ResetAll(ExpirePreparedStatements(y)) EXCEPT !.intern = l > 2]
     ELSE y

VdbeCommit(x, l) ==
  [x EXCEPT !.st = [d \in Slots |->
                IF d \in Open(x) /\ @[d].lvl > l
                THEN KVStoreCommit(Kind(d), @[d], l) ELSE @[d]],
            !.sp = Least(@, l - 1)]

(* vdbeCloseStatement(): mask holds the slots with a statement transaction. *)
CloseStatement(x, mask, ok) ==
  [x EXCEPT !.st = [d \in Slots |->
     LET t == IF ok THEN @[d] ELSE KVStoreRollback(Kind(d), @[d], @[d].lvl)
     IN IF d \in mask THEN KVStoreCommit(Kind(d), t, t.lvl - 1) ELSE @[d]]]

Running(x) == {s \in Stmts : x.vm[s].state = "run"}

(* sqlite4VdbeHalt(); others are the statements that stay active.           *)
VdbeHalt(x, ok, mask, others) ==
  LET y == CASE x.sp = 0 /\ ok -> [VdbeCommit(x, 1) EXCEPT !.intern = FALSE]
             [] x.sp = 0 /\ ~ok -> VdbeRollback(x, 1)
             [] x.sp > 0 -> CloseStatement(x, mask, ok)
  IN IF y.sp = 0 /\ others = {} THEN VdbeRollback(y, 0) ELSE y

Halted(x, s, ok, mask) ==
  [VdbeHalt(x, ok, mask, Running(x) \ {s}) EXCEPT !.vm[s].state = "halt"]

-----------------------------------------------------------------------------
(* Calls.  A call holds the mutex of its connection to its end, so only     *)
(* other connections run between its steps.                                 *)

NoVm == [sql |-> <<"select", 0>>, d |-> 0, tab |-> NoTable, p2 |-> 0, p3 |-> 0,
         expired |-> FALSE, state |-> "none"]

Idle(rc) == [op |-> "idle", s |-> "q", cnt |-> 0, att |-> 0, foreign |-> 0,
             rc |-> rc]

Goes(k, op) == [k EXCEPT !.op = op]

(* An lsm connection outside a transaction holds nothing of its own.        *)
Settled(x) ==
  [x EXCEPT !.st = [d \in Slots |-> IF Shared(x, d) THEN NewStore(NoTable) ELSE @[d]],
            !.meta = [d \in Slots |-> IF Shared(x, d) THEN 0 ELSE @[d]]]

(* Connection c becomes x and its call k; what it commits is seen by the    *)
(* calls the others are in.                                                 *)
Become(c, x, k) ==
  /\ con' = [con EXCEPT ![c] = Settled(x)]
  /\ disk' = Published(con[c], x)
  /\ call' = [e \in Conn |->
                IF e = c THEN k
                ELSE IF disk' # disk /\ call[e].op # "idle"
                     THEN [call[e] EXCEPT !.foreign = Least(@ + 1, MaxRetry)]
                     ELSE call[e]]

Free(c) == c \in scene.conns /\ call[c].op = "idle"

Fails == scene.fails > 0 /\ scene' = [scene EXCEPT !.fails = @ - 1]

(* sqlite4_prepare() of the handle s, which is finalized first if in use.   *)
PrepareCall(c, s, sql) ==
  /\ Free(c)
  /\ con[c].vm[s].state # "run"
  /\ Become(c, [con[c] EXCEPT !.vm[s] = [NoVm EXCEPT !.sql = sql]],
            [Idle("ok") EXCEPT !.op = "compile", !.s = s, !.att = 1])
  /\ UNCHANGED <<scene, lapse>>

(* One round of sqlite4Init(): the next schema is loaded, or its            *)
(* transaction cannot be opened.                                            *)
Load(c) ==
  LET x == con[c] IN
  /\ call[c].op = "compile"
  /\ ToLoad(x) # <<>>
  /\ \/ /\ Become(c, InitOne(x, Head(ToLoad(x))), call[c])
        /\ UNCHANGED scene
     \/ /\ Fails
        /\ Become(c, ResetInternalSchema(x, Head(ToLoad(x))), Idle("error"))
  /\ UNCHANGED lapse

OpenTempDatabase(x) ==
  IF TempDb \in Open(x) THEN x
  ELSE [x EXCEPT !.file[TempDb] = "temp",
                 !.st[TempDb] = NewStore(NoTable)]

(* sqlite4FindTable() looks in temp, in main, then in the attached ones.    *)
Holders(x) == SelectSeq(<<TempDb, 0, 2>>, LAMBDA d : x.sch[d].tab.has)

(* The program of the statement on slot d: sqlite4FinishCoding() puts the   *)
(* cookie and generation the compiler has used into OP_VerifyCookie.        *)
Program(x, sql, d) ==
  [sql |-> sql, d |-> d, tab |-> x.sch[d].tab, p2 |-> x.sch[d].cookie,
   p3 |-> x.sch[d].gen, expired |-> FALSE, state |-> "ready"]

(* sqlite4Prepare() with every schema loaded.  A name that is not found     *)
(* sets checkSchema; a name that exists already does not.  A recompiled     *)
(* statement goes back to the loop of sqlite4_step().                       *)
Compile(c) ==
  LET x == con[c]
      k == call[c]
      sql == x.vm[k.s].sql
      found == IF sql[1] = "select" THEN Holders(x)
               ELSE SelectSeq(<<sql[2]>>, LAMBDA d : x.sch[d].tab.has)
      d == IF sql[1] = "select" THEN Head(found) ELSE sql[2]
      again == x.vm[k.s].state # "none"
      y == IF d = TempDb THEN OpenTempDatabase(x) ELSE x
  IN
  /\ k.op = "compile"
  /\ ToLoad(x) = <<>>
  /\ \/ /\ sql[1] # "create" /\ found = <<>>
        /\ Become(c, x, Goes(k, "validate"))
     \/ /\ sql[1] = "create"
        /\ found # <<>> \/ ~Present(x, d)
        /\ Become(c, x, Idle("error"))
     \/ /\ (sql[1] = "create") = (found = <<>>)
        /\ Present(x, d)
        /\ Become(c, [y EXCEPT !.vm[k.s] = Program(y, sql, d)],
                  IF again THEN Goes(k, "top") ELSE Idle("ok"))
  /\ UNCHANGED <<scene, lapse>>

(* schemaIsValid(), called because a name was not found.  It checks the     *)
(* databases below n and stops there if n's transaction cannot be opened.   *)
(* sqlite4LockAndPrepare() compiles a second time after SQLITE4_SCHEMA.     *)
Validate(c) ==
  LET x == con[c]
      k == call[c]
  IN
  /\ k.op = "validate"
  /\ \E n \in Slots \cup {3} :
       LET stale == {d \in Open(x) : d < n /\ GetSchema(x, d) # x.sch[d].cookie}
           y == [x EXCEPT !.sch = [d \in Slots |->
                   IF d \in stale \/ (d = TempDb /\ stale # {})
                   THEN SchemaClear(@[d]) ELSE @[d]]]
       IN /\ IF n = 3 THEN UNCHANGED scene ELSE n \in Open(x) /\ Fails
          /\ \/ /\ stale = {}
                /\ Become(c, x, Idle(IF n = 3 THEN "nosuch" ELSE "error"))
             \/ /\ stale # {} /\ k.att = 1
                /\ Become(c, y, [Goes(k, "compile") EXCEPT !.att = 2])
             \/ /\ stale # {} /\ k.att = 2
                /\ Become(c, y, Idle("schema"))
  /\ UNCHANGED lapse

(* sqlite4_step() of a statement that is not in the middle of its rows.     *)
StepCall(c, s) ==
  /\ Free(c)
  /\ con[c].vm[s].state \in {"ready", "halt"}
  /\ Become(c, [con[c] EXCEPT !.vm[s].state = "ready"],
            [Idle("ok") EXCEPT !.op = "top", !.s = s])
  /\ IF s = "d" THEN scene.ddls > 0 /\ scene' = [scene EXCEPT !.ddls = @ - 1]
     ELSE UNCHANGED scene
  /\ UNCHANGED lapse

(* sqlite4Step() has returned SQLITE4_SCHEMA.                               *)
\* Mutant: the last retry is not made.
Retry_OneShort(k) == IF k.cnt + 1 < MaxRetry
                     THEN [k EXCEPT !.op = "compile", !.cnt = @ + 1, !.att = 1]
                     ELSE Idle("schema")

Retry(k) == IF k.cnt < MaxRetry
            THEN [k EXCEPT !.op = "compile", !.cnt = @ + 1, !.att = 1]
            ELSE Idle("schema")

Expired(c) ==
  /\ call[c].op = "top"
  /\ con[c].vm[call[c].s].expired
  /\ Become(c, con[c], Retry(call[c]))
  /\ UNCHANGED <<scene, lapse>>

-----------------------------------------------------------------------------
(* OP_VerifyCookie.                                                         *)

\* Mutant: the comparison of the cookie with P2 the wrong way round.
Verified_Inverted(x, v) ==
  IF v.d \in Open(x) THEN GetSchema(x, v.d) # v.p2 /\ x.sch[v.d].gen = v.p3
  ELSE v.p2 = 0 /\ v.p3 = 0

Verified(x, v) ==
  IF v.d \in Open(x) THEN GetSchema(x, v.d) = v.p2 /\ x.sch[v.d].gen = v.p3
  ELSE v.p2 = 0 /\ v.p3 = 0

NotVerified(x, s) ==
  LET d == x.vm[s].d
      meta == IF d \in Open(x) THEN GetSchema(x, d) ELSE 0
      y == IF x.sch[d].cookie # meta THEN ResetInternalSchema(x, d) ELSE x
  IN [y EXCEPT !.vm[s].expired = TRUE]

(* A SELECT: OP_Transaction, OP_VerifyCookie, then a row, the end of the    *)
(* result, or an error.                                                     *)
ExecSelect(c) ==
  LET x == con[c]
      k == call[c]
      v == x.vm[k.s]
      y == IF v.d \in Open(x) /\ x.st[v.d].lvl = 0 THEN Begin(x, v.d, 1) ELSE x
  IN
  /\ k.op = "top"
  /\ ~v.expired
  /\ v.sql[1] = "select"
  /\ \/ /\ ~Verified(y, v)
        /\ Become(c, Halted(NotVerified(y, k.s), k.s, FALSE, {}), Retry(k))
        /\ UNCHANGED scene
     \/ /\ Verified(y, v)
        /\ \/ /\ Become(c, [y EXCEPT !.vm[k.s].state = "run"], Idle("row"))
              /\ UNCHANGED scene
           \/ /\ Become(c, Halted(y, k.s, TRUE, {}), Idle("done"))
              /\ UNCHANGED scene
           \/ /\ Fails
              /\ Become(c, Halted(y, k.s, FALSE, {}), Idle("error"))
  /\ UNCHANGED lapse

(* The SELECT goes on after a row, or sqlite4_reset() ends it.              *)
Resume(c, s) ==
  /\ Free(c)
  /\ con[c].vm[s].state = "run"
  /\ \/ /\ Become(c, Halted(con[c], s, TRUE, {}), Idle("done"))
        /\ UNCHANGED scene
     \/ /\ Fails
        /\ Become(c, Halted(con[c], s, FALSE, {}), Idle("error"))
  /\ UNCHANGED lapse

(* What DDL does once its cookie is verified, in this order: "master"       *)
(* writes the schema table, "cookie" is OP_SetCookie, "parse" is            *)
(* OP_ParseSchema or OP_DropTable.                                          *)
Steps(op) ==
  CASE op = "drop" -> <<"master", "parse", "cookie">>
    [] op = "alter" -> <<"cookie", "master", "parse">>
    [] op \in {"create", "index"} -> <<"master", "cookie", "parse">>

\* Mutant: the cookie is written back as it was compiled, not one higher.
SetCookie_SameValue(x, s) ==
  LET y == [x EXCEPT !.intern = TRUE]
  IN IF x.vm[s].d = TempDb
     THEN [ExpirePreparedStatements(y) EXCEPT !.vm[s].expired = FALSE]
     ELSE y

\* Mutant: a change of the temp schema expires no statement.
SetCookie_NoExpire(x, s) ==
  LET d == x.vm[s].d
      n == x.vm[s].p2 + 1
  IN [x EXCEPT !.meta[d] = n, !.sch[d].cookie = n, !.intern = TRUE]

SetCookie(x, s) ==
  LET d == x.vm[s].d
      n == x.vm[s].p2 + 1
      y == [x EXCEPT !.meta[d] = n, !.sch[d].cookie = n, !.intern = TRUE]
  IN IF d = TempDb
     THEN [ExpirePreparedStatements(y) EXCEPT !.vm[s].expired = FALSE]
     ELSE y

DdlStep(x, s, tab, step) ==
  CASE step = "master" -> PutTable(x, x.vm[s].d, tab)
    [] step = "cookie" -> SetCookie(x, s)
    [] step = "parse" -> [x EXCEPT !.sch[x.vm[s].d].tab = tab, !.intern = TRUE]

(* OP_Transaction for writing.  A CREATE INDEX always has needSavepoint.    *)
BeginWrite(x, d, stmt) ==
  LET l == Greatest(x.sp + 1, 2)
      y == IF x.st[d].lvl < l THEN Begin(x, d, l) ELSE x
  IN IF stmt THEN Begin(y, d, y.st[d].lvl + 1) ELSE y

(* A DDL statement: BUSY, out of date, or the first n steps of its body;    *)
(* three are all of it.  CREATE INDEX ends with OP_Expire.                  *)
ExecDdl(c) ==
  LET x == con[c]
      k == call[c]
      v == x.vm[k.s]
      stmt == x.sp > 0 /\ (v.sql[1] = "index" \/ Running(x) # {})
      mask == IF stmt THEN {v.d} ELSE {}
      y == IF v.d \in Open(x) THEN BeginWrite(x, v.d, stmt) ELSE x
      tab == [id |-> scene.ids + 1, has |-> v.sql[1] # "drop"]
      Did(n) == FoldLeft(LAMBDA z, step : DdlStep(z, k.s, tab, step), y,
                         SubSeq(Steps(v.sql[1]), 1, n))
      done == IF v.sql[1] = "index" THEN ExpirePreparedStatements(Did(3)) ELSE Did(3)
  IN
  /\ k.op = "top"
  /\ ~v.expired
  /\ v.sql[1] # "select"
  /\ \/ /\ v.d \in Open(x) /\ ~MayWrite(c, v.d)
        /\ Become(c, Halted(x, k.s, FALSE, {}), Idle("busy"))
        /\ UNCHANGED <<scene, lapse>>
     \/ /\ v.d \in Open(x) => MayWrite(c, v.d)
        /\ ~Verified(y, v)
        /\ Become(c, Halted(NotVerified(y, k.s), k.s, FALSE, mask), Retry(k))
        /\ UNCHANGED <<scene, lapse>>
     \/ /\ v.d \in Open(x) => MayWrite(c, v.d)
        /\ Verified(y, v)
        /\ \/ /\ Become(c, Halted(done, k.s, TRUE, mask), Idle("done"))
              /\ scene' = [scene EXCEPT !.ids = @ + 1]
              /\ UNCHANGED lapse
           \/ \E n \in 0..2 :
                /\ scene.fails > 0
                /\ scene' = [scene EXCEPT !.fails = @ - 1, !.ids = @ + 1]
                /\ Become(c, Halted(Did(n), k.s, FALSE, mask), Idle("error"))
                /\ lapse' = (lapse \/ (n > 0 /\ (x.sp > 0 \/ Kind(v.d) = "ldb")))

-----------------------------------------------------------------------------
(* Transaction control, ATTACH and DETACH.  Each is a statement that runs   *)
(* and halts without a cookie to verify.                                    *)

Savepoint(c) ==
  /\ Free(c)
  /\ scene.txns > 0
  /\ con[c].sp + 3 <= MaxLevel
  /\ scene' = [scene EXCEPT !.txns = @ - 1]
  /\ Become(c, [con[c] EXCEPT !.sp = @ + 1], Idle("ok"))
  /\ UNCHANGED lapse

Release(c, l) ==
  LET x == con[c] IN
  /\ Free(c)
  /\ l \in 2..(x.sp + 1)
  /\ Become(c, VdbeHalt(VdbeCommit(x, l - 1), TRUE, {}, Running(x)), Idle("ok"))
  /\ UNCHANGED <<scene, lapse>>

(* ROLLBACK TO the savepoint at level l, or ROLLBACK for l = 1.  kvmem      *)
(* keeps the changes made at level l itself.                                *)
RollbackTo(c, l) ==
  LET x == con[c]
      y == VdbeRollback(x, l)
  IN
  /\ Free(c)
  /\ x.sp > 0
  /\ l \in 1..(x.sp + 1)
  /\ l > 1 => scene.txns > 0
  /\ scene' = [scene EXCEPT !.txns = IF l > 1 THEN @ - 1 ELSE @]
  /\ Become(c, VdbeHalt(y, TRUE, {}, Running(x)), Idle("ok"))
  /\ lapse' = (lapse \/ \E d \in Open(x) :
                          /\ Kind(d) = "mem" /\ l >= 2
                          /\ y.st[d].cont # RollsBackTo(x.st[d], l))

(* attachFunc() opens the file and loads every schema that is not loaded.   *)
Attach(c, f) ==
  LET x == [con[c] EXCEPT !.file[2] = f, !.st[2] = NewStore(NoTable),
                          !.sch[2] = [cookie |-> 0, gen |-> 0, loaded |-> FALSE,
                                      tab |-> NoTable]]
  IN
  /\ Free(c)
  /\ con[c].sp = 0
  /\ con[c].file[2] = None
  /\ f \in scene.files
  /\ scene.attaches > 0
  /\ \/ /\ Become(c, VdbeHalt(FoldLeft(InitOne, x, ToLoad(x)), TRUE, {}, Running(x)),
                  Idle("ok"))
        /\ scene' = [scene EXCEPT !.attaches = @ - 1]
     \/ /\ scene.fails > 0
        /\ Become(c, VdbeHalt(ResetAll(con[c]), FALSE, {}, Running(x)), Idle("error"))
        /\ scene' = [scene EXCEPT !.attaches = @ - 1, !.fails = @ - 1]
  /\ UNCHANGED lapse

(* detachFunc(), and the OP_Expire that ends the statement.                 *)
Detach(c) ==
  LET x == con[c] IN
  /\ Free(c)
  /\ x.sp = 0
  /\ x.file[2] # None
  /\ x.st[2].lvl = 0
  /\ Become(c, VdbeHalt(ExpirePreparedStatements(
                          ResetAll([x EXCEPT !.file[2] = None])),
                        TRUE, {}, Running(x)),
            Idle("ok"))
  /\ UNCHANGED <<scene, lapse>>

-----------------------------------------------------------------------------
InitCon ==
  [sp |-> 0, intern |-> FALSE,
   file |-> [d \in Slots |-> IF d = 0 THEN "main" ELSE None],
   st |-> [d \in Slots |-> NewStore(NoTable)],
   meta |-> [d \in Slots |-> 0],
   sch |-> [d \in Slots |-> [cookie |-> 0, gen |-> 0, loaded |-> FALSE,
                             tab |-> NoTable]],
   vm |-> [s \in Stmts |-> NoVm]]

Init ==
  /\ scene \in Cases
  /\ con = [c \in Conn |-> InitCon]
  /\ disk = [f \in {"main", "X", "Y"} |->
               [cookie |-> 0, tab |-> [id |-> 0, has |-> f = "Y"]]]
  /\ call = [c \in Conn |-> Idle("ok")]
  /\ lapse = FALSE

InCall(c) ==
  Load(c) \/ Compile(c) \/ Validate(c) \/ Expired(c) \/ ExecSelect(c) \/ ExecDdl(c)

Asks(c) ==
  \/ c \in scene.readers /\ PrepareCall(c, "q", <<"select", 0>>)
  \/ \E sql \in scene.sqls[c] : PrepareCall(c, "d", sql)
  \/ \E s \in Stmts : StepCall(c, s)
  \/ Resume(c, "q")
  \/ Savepoint(c)
  \/ \E l \in 1..MaxLevel : Release(c, l) \/ RollbackTo(c, l)
  \/ \E f \in {"X", "Y"} : Attach(c, f)
  \/ Detach(c)

Next == \E c \in Conn : InCall(c) \/ Asks(c)

(* A thread inside a call goes on with it, whatever the others do: weak     *)
(* fairness of InCall(c), with ENABLED InCall(c) written as "c is in a      *)
(* call".  Nothing obliges an application to make a call.                   *)
Scheduled(c) == []<>(call[c].op = "idle") \/ []<><<InCall(c)>>_vars

Spec == Init /\ [][Next]_vars /\ \A c \in Conn : Scheduled(c)

-----------------------------------------------------------------------------
(* Properties.  A lapse is a DDL statement that fails half-way inside a     *)
(* transaction, or on kvldb, which rolls nothing back: what it wrote to the *)
(* schema table stays, and sqlite4VdbeHalt() leaves the in-memory schema as *)
(* it is.  A ROLLBACK TO on kvmem that keeps DDL is another.                *)

\* A loaded schema whose cookie is the one of the database, as the connection
\* sees the database at that moment, is the schema of the database.  This is all
\* that OP_VerifyCookie and schemaIsValid() go by; rollbacks, stores that keep
\* the cookie out of the transaction, and reloads inside a transaction must not
\* pair an old cookie with a new schema or the reverse.
CacheCoherent ==
  ~lapse =>
    \A c \in Conn : \A d \in Open(con[c]) :
      LET h == con[c].sch[d] IN
      h.loaded /\ h.cookie = GetSchema(con[c], d) => h.tab = View(con[c], d)

Returns(c, rcs) ==
  call[c].op # "idle" /\ call'[c].op = "idle" /\ call'[c].rc \in rcs

\* The body of a statement runs only if the table it was compiled against is the
\* one its transaction sees, and a SELECT of a table of main or of an attached
\* database only while no temp table has taken its name: the check at the top
\* of sqlite4Step(), OP_VerifyCookie and expiry leave no gap between them.
NeverRunsStale ==
  [][~lapse' => \A c \in Conn :
       call[c].op = "top" /\ Returns(c, {"row", "done"}) =>
         LET x == con[c]
             v == x.vm[call[c].s]
         IN /\ v.d \in Open(x)
            /\ v.tab = View(x, v.d)
            /\ v.sql[1] = "select" /\ v.d # TempDb /\ TempDb \in Open(x) =>
                 ~View(x, TempDb).has]_vars

\* An application sees SQLITE4_SCHEMA only if others really kept changing the
\* schema: sqlite4_step() gives up after others have, during the call, ended as
\* many transactions with DDL as it makes retries, sqlite4LockAndPrepare() after
\* at least one.  What the connection did to itself, and what happened before
\* the call, is repaired.
SchemaErrorsPaid ==
  [][\A c \in Conn :
       Returns(c, {"schema"}) =>
         call[c].foreign >= IF call[c].op = "top" THEN MaxRetry ELSE 1]_vars

\* When sqlite4_prepare() or sqlite4_step() says "no such table" after
\* schemaIsValid() has looked at every database, there is no such table in what
\* the connection sees, however old the schema was that the name was looked up
\* in.
NoSuchTableIsTrue ==
  [][~lapse' => \A c \in Conn :
       Returns(c, {"nosuch"}) =>
         LET x == con[c]
             sql == x.vm[call[c].s].sql
         IN \A d \in Open(x) :
              sql[1] = "select" \/ sql[2] = d => ~View(x, d).has]_vars

\* An application that keeps calling sqlite4_step() does not get SQLITE4_SCHEMA
\* for ever once the others have stopped changing schemas (the DDL of a scenario
\* is finite): no retry leaves the cause of the next one in place.
StepsGetThrough ==
  \A c \in Conn :
    []<>(call[c].op = "top") =>
      []<>(call[c].op = "idle" /\ call[c].rc # "schema")
=============================================================================
