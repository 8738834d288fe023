------------------------------ MODULE MCBtLog ------------------------------
(***************************************************************************)
(* Small instances of BtLog. A case says who does what, and how often.     *)
(***************************************************************************)
EXTENDS BtLog, TLC

CONSTANTS c1, c2, c3

Left(txn, ckpt_, die, power, connect, close) ==
  [txn |-> txn, ckpt |-> ckpt_, die |-> die, power |-> power, connect |-> connect,
   close |-> close]

\* Two connections read and write, the third checkpoints.
Mvcc == [conns |-> {c1, c2, c3}, readers |-> {c1, c2}, writers |-> {c1, c2},
         ckpters |-> {c3}, dirty |-> {<<2>>}, nBuf |-> {0}, safety |-> "normal",
         nReader |-> 2, left |-> Left(3, 1, 0, 0, 0, 0)]

\* Two connections do everything, with one slot; one of them dies and may come back.
Pair == [Mvcc EXCEPT !.conns = {c1, c2}, !.ckpters = {c1, c2}, !.nReader = 1,
                     !.left = Left(3, 1, 1, 0, 1, 0)]

\* Two connections leave, the last one deleting the log, and come back.
Close == [Mvcc EXCEPT !.conns = {c1, c2}, !.ckpters = {}, !.left = Left(2, 0, 0, 0, 2, 3)]

\* One connection dies, or the power fails, without and with syncs at each commit.
Crash == [Mvcc EXCEPT !.conns = {c3}, !.readers = {c3}, !.writers = {c3},
                      !.dirty = {<<2>>, <<3, 1>>}, !.nBuf = {0, 2},
                      !.left = Left(3, 2, 1, 0, 1, 0)]
Power == [Crash EXCEPT !.left = Left(3, 1, 0, 1, 1, 0)]
PowerFull == [Power EXCEPT !.safety = "full"]

\* The transactions may write different pages.
Pages == [Mvcc EXCEPT !.dirty = {<<2>>, <<3>>}, !.left = Left(2, 1, 0, 0, 0, 0)]

MCCases == {Mvcc, Pages, Pair, Close, Crash, Power, PowerFull}

Sym == Permutations({c1, c2})
=============================================================================
