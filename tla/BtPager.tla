------------------------------ MODULE BtPager ------------------------------
(***************************************************************************)
(* The pager of the B-tree engine, bt_pager.c: the page cache with its LRU *)
(* list, nested savepoints that keep the images of the pages they changed, *)
(* and the two free lists, of pages and of blocks, that live in the pages  *)
(* they list.  bt_main.c is the client: it gets pages, changes them, frees *)
(* them, and opens and closes transaction levels (kvbt.c hands on the      *)
(* levels of the virtual machine as they are).                             *)
(*                                                                         *)
(* There is one connection.  What the log and the database file hold       *)
(* together for its snapshot is one variable; module BtLog is about how    *)
(* they do.  A page is what the code reads from it: the client's value and *)
(* the entries and the link of a free-list trunk.  Page 1 holds the        *)
(* database header as its value.                                           *)
(***************************************************************************)
EXTENDS Integers, FiniteSets, SequencesExt

CONSTANTS MaxLevel,   \* bound on the transaction level
          MaxPg,      \* bound on the size of the database
          Cases,      \* the budgets of the client, see Init
          nPgPerBlk,  \* pages in a block
          nMax,       \* entries a trunk page has space for
          nPageLimit, \* pages the cache keeps if it can
          NoSnap      \* as in StoreTxn

ASSUME BtPagerAssumption ==
  /\ MaxLevel \in Nat /\ MaxPg \in Nat
  /\ nPgPerBlk \in Nat \ {0} /\ nMax \in Nat \ {0} /\ nPageLimit \in Nat

VARIABLES p,      \* the BtPager object
          disk,   \* header and pages of the last commit
          use,    \* the pages and blocks the client has, per level
          left    \* what the client may still do

vars == <<p, disk, use, left>>

Pages == 1..MaxPg

Blank == [val |-> 0, free |-> <<>>, next |-> 0]
UserData(v) == [Blank EXCEPT !.val = v]

\* btLogZeroDbhdr(): a new database has a header and a root page.
ZeroDbhdr == [nPg |-> 2, iFreePg |-> 0, iFreeBlk |-> 0, iCookie |-> 0]

\* The pages of block b; the first one is its root.
FirstOfBlock(b) == (b - 1) * nPgPerBlk + 1
BlockPages(b) == FirstOfBlock(b)..(b * nPgPerBlk)

-----------------------------------------------------------------------------
(* The page cache.  A BtPage is [data, ref, saved]: aData, nRef and the     *)
(* saved images, innermost first.  "dirty" and "lru" are lists of pages.    *)

Without(s, pg) == SelectSeq(s, LAMBDA x : x # pg)

IsDirty(q, pg) == \E i \in DOMAIN q.dirty : q.dirty[i] = pg

SetPage(q, pg, page) ==
  [q EXCEPT !.cache = [x \in DOMAIN q.cache \cup {pg} |->
                         IF x = pg THEN page ELSE q.cache[x]]]

Uncached(q, gone) ==
  [q EXCEPT !.cache = [x \in DOMAIN q.cache \ gone |-> q.cache[x]]]

\* A page past the end of the database is all zero.
btLoadPageData(pg) == disk.page[pg]

\* btAllocatePage() takes the page at the head of the LRU list if the cache is
\* full.
btAllocatePage(q) ==
  IF Cardinality(DOMAIN q.cache) >= nPageLimit /\ q.lru # <<>>
  THEN [Uncached(q, {Head(q.lru)}) EXCEPT !.lru = Tail(q.lru)]
  ELSE q

PageGet(q, pg) ==
  IF pg \in DOMAIN q.cache
  THEN [q EXCEPT !.cache[pg].ref = @ + 1,
                 !.lru = IF q.cache[pg].ref = 0 /\ ~IsDirty(q, pg)
                         THEN Without(@, pg) ELSE @]
  ELSE SetPage(btAllocatePage(q), pg,
               [data |-> IF pg <= q.hdr.nPg THEN btLoadPageData(pg) ELSE Blank,
                ref |-> 1, saved |-> <<>>])

PageRelease(q, pg) ==
  [q EXCEPT !.cache[pg].ref = @ - 1,
            !.lru = IF q.cache[pg].ref = 1 /\ ~IsDirty(q, pg)
                    THEN Append(@, pg) ELSE @]

\* The image of a page is saved once per savepoint, before its first change.
btAddToSavepoint(q, pg) ==
  LET s == q.cache[pg].saved
  IN IF s # <<>> /\ s[1].lev = q.lvl THEN q
     ELSE [q EXCEPT !.cache[pg].saved =
                      <<[lev |-> q.lvl, data |-> q.cache[pg].data]>> \o @,
                    !.sp[q.lvl - 2].pages = @ \cup {pg}]

PageWrite(q, pg) ==
  LET s == IF q.sp # <<>> THEN btAddToSavepoint(q, pg) ELSE q
  IN [s EXCEPT !.dirty = IF IsDirty(q, pg) THEN @ ELSE <<pg>> \o @]

Put(q, pg, data) == [q EXCEPT !.cache[pg].data = data]

\* Get a page, change it and release it.
Change(q, pg, data) == PageRelease(Put(PageWrite(PageGet(q, pg), pg), pg, data), pg)

-----------------------------------------------------------------------------
(* The free lists.  "first" is the header field that holds the head of one: *)
(* "iFreePg" or "iFreeBlk".                                                 *)

DataOf(q, pg) == q.cache[pg].data

\* btFreelistAdd() with space on the first trunk page.
AddLeaf(q, trunk, n) ==
  LET g == PageWrite(PageGet(q, trunk), trunk)
      d == DataOf(g, trunk)
  IN PageRelease(Put(g, trunk, [d EXCEPT !.free = Append(@, n)]), trunk)

\* The page becomes the first trunk of the list.
AddTrunk(q, first, pg) ==
  [Put(q, pg, [DataOf(q, pg) EXCEPT !.free = <<>>, !.next = q.hdr[first]])
     EXCEPT !.hdr[first] = pg, !.dirtyHdr = TRUE]

\* btFreelistAdd() looks at the first trunk page before it knows of the space.
LookAt(q, pg) == IF pg = 0 THEN q ELSE PageRelease(PageGet(q, pg), pg)

HasSpace(q, trunk) == trunk # 0 /\ Len(DataOf(PageGet(q, trunk), trunk).free) < nMax

FreelistAddPage(q, pg) ==
  LET trunk == q.hdr.iFreePg
  IN IF HasSpace(q, trunk) THEN AddLeaf(q, trunk, pg)
     ELSE LET g == PageGet(LookAt(q, trunk), pg)
          IN PageRelease(AddTrunk(PageWrite(g, pg), "iFreePg", pg), pg)

\* btFreelistAlloc() for a page: the last leaf of the first trunk, or the trunk
\* itself, or 0 if the list is empty.
FreelistAllocPage(q) ==
  LET trunk == q.hdr.iFreePg
      g == PageWrite(PageGet(q, trunk), trunk)
      d == DataOf(g, trunk)
      n == Len(d.free)
  IN CASE trunk = 0 -> [q |-> q, pgno |-> 0]
       [] trunk # 0 /\ n > 0 ->
            [q |-> PageRelease(Put(g, trunk, [d EXCEPT !.free = SubSeq(@, 1, n - 1)]), trunk),
             pgno |-> d.free[n]]
       [] trunk # 0 /\ n = 0 ->
            [q |-> [PageRelease(g, trunk) EXCEPT !.hdr.iFreePg = d.next,
                                                 !.dirtyHdr = TRUE],
             pgno |-> trunk]

\* A new page is referenced and writable.
PageAllocate(q) ==
  LET a == FreelistAllocPage(q)
      pg == IF a.pgno = 0 THEN a.q.hdr.nPg + 1 ELSE a.pgno
      g == PageWrite(PageGet(a.q, pg), pg)
  IN [q |-> [g EXCEPT !.hdr.nPg = IF @ < pg THEN pg ELSE @], pgno |-> pg]

\* A block is listed on a page that is allocated for it.
FreelistAddBlock(q, b) ==
  LET trunk == q.hdr.iFreeBlk
  IN IF HasSpace(q, trunk) THEN AddLeaf(q, trunk, b)
     ELSE LET a == PageAllocate(LookAt(q, trunk))
              t == PageRelease(AddTrunk(a.q, "iFreeBlk", a.pgno), a.pgno)
          IN AddLeaf(t, a.pgno, b)

\* btFreelistAlloc() for a block: an empty trunk page goes to the list of free
\* pages and the search goes on with the next one.
RECURSIVE FreelistAllocBlock(_)
FreelistAllocBlock(q) ==
  LET trunk == q.hdr.iFreeBlk
      g == PageWrite(PageGet(q, trunk), trunk)
      d == DataOf(g, trunk)
      n == Len(d.free)
  IN CASE trunk = 0 -> [q |-> q, blk |-> 0]
       [] trunk # 0 /\ n > 0 ->
            [q |-> PageRelease(Put(g, trunk, [d EXCEPT !.free = SubSeq(@, 1, n - 1)]), trunk),
             blk |-> d.free[n]]
       [] trunk # 0 /\ n = 0 ->
            FreelistAllocBlock(
              PageRelease([FreelistAddPage([g EXCEPT !.dirtyHdr = TRUE], trunk)
                             EXCEPT !.hdr.iFreeBlk = d.next], trunk))

\* Mutant: the pages between the end of the file and the block are forgotten.
BlockAllocateOnly(q) ==
  LET a == FreelistAllocBlock(q)
      b == 1 + (a.q.hdr.nPg + nPgPerBlk - 1) \div nPgPerBlk
  IN IF a.blk # 0 THEN a
     ELSE [q |-> [a.q EXCEPT !.hdr.nPg = b * nPgPerBlk], blk |-> b]

\* The next block of the file starts at a multiple of nPgPerBlk, and the pages
\* before it that are in no block are freed.
BlockAllocate(q) ==
  LET a == FreelistAllocBlock(q)
      nPg == a.q.hdr.nPg
      b == 1 + (nPg + nPgPerBlk - 1) \div nPgPerBlk
      gap == [i \in 1..(FirstOfBlock(b) - nPg - 1) |-> nPg + i]
  IN IF a.blk # 0 THEN a
     ELSE [q |-> [FoldLeft(FreelistAddPage, a.q, gap)
                    EXCEPT !.hdr.nPg = b * nPgPerBlk],
           blk |-> b]

-----------------------------------------------------------------------------
(* Savepoints: sp[i] is for level i + 2 and has the header at its start and *)
(* the pages with an image saved for it.                                    *)

btOpenSavepoints(q, iLevel) ==
  [q EXCEPT !.sp = @ \o [i \in 1..(iLevel - 2 - Len(@)) |->
                           [hdr |-> q.hdr, pages |-> {}]]]

\* Mutant: the images are not kept.
PassedOnNone(q, l, iLevel) == {}

\* The pages of savepoint l whose images a commit to iLevel keeps: those that
\* no other level from iLevel up has an image of.
PassedOn(q, l, iLevel) ==
  LET next(s) == IF Len(s) > 1 THEN s[2].lev ELSE 2
  IN {pg \in q.sp[l - 2].pages : iLevel > next(q.cache[pg].saved)}

\* One turn of the loop of btCloseSavepoints(): the images of level l are put
\* back, or they become images of iLevel, or they go.
CloseLevel(q, l, iLevel, bRollback) ==
  LET mine == q.sp[l - 2].pages
      moved == IF bRollback THEN {} ELSE PassedOn(q, l, iLevel)
  IN [q EXCEPT
       !.hdr = IF bRollback THEN q.sp[l - 2].hdr ELSE @,
       !.cache = [pg \in DOMAIN @ |->
                    CASE pg \notin mine -> @[pg]
                      [] pg \in moved -> [@[pg] EXCEPT !.saved[1].lev = iLevel]
                      [] pg \in mine \ moved ->
                           [@[pg] EXCEPT !.saved = Tail(@),
                                         !.data = IF bRollback
                                                  THEN q.cache[pg].saved[1].data
                                                  ELSE @]],
       !.sp = [i \in DOMAIN @ |->
                 CASE i = l - 2 -> [@[i] EXCEPT !.pages = {}]
                   [] i # l - 2 /\ i = iLevel - 2 -> [@[i] EXCEPT !.pages = @ \cup moved]
                   [] i # l - 2 /\ i # iLevel - 2 -> @[i]]]

\* btCloseSavepoints() but for the last assignment, which shortens the array.
CloseLevels(q, iLevel, bRollback) ==
  LET top == Len(q.sp) + 2
      least == IF iLevel < 2 THEN 3 ELSE iLevel + 1
      levels == [i \in 1..(top - least + 1) |-> top + 1 - i]
  IN FoldLeft(LAMBDA s, l : CloseLevel(s, l, iLevel, bRollback), q, levels)

Shorten(q, n) == [q EXCEPT !.sp = SubSeq(@, 1, n)]

btCloseSavepoints(q, iLevel) ==
  Shorten(CloseLevels(q, iLevel, FALSE), IF iLevel < 2 THEN 0 ELSE iLevel - 2)

-----------------------------------------------------------------------------
(* Transactions *)

\* sqlite4BtLogDbhdrFlush(): the header is put on page 1.
btPagerDbhdrFlush(q) ==
  IF q.dirtyHdr
  THEN [Change(q, 1, UserData(q.hdr)) EXCEPT !.dirtyHdr = FALSE]
  ELSE q

\* Every dirty page goes to the log, with the size of the database in the last
\* frame, and then the header to shared memory.  Without a dirty page there is
\* no frame and no new header.
btCommitTransaction(q) ==
  LET f == btCloseSavepoints(btPagerDbhdrFlush(q), 2)
      done == {pg \in Pages : IsDirty(f, pg)}
  IN [q |-> [f EXCEPT !.dirty = <<>>,
                      !.lru = @ \o SelectSeq(f.dirty, LAMBDA x : f.cache[x].ref = 0)],
      disk |-> IF done = {} THEN disk
               ELSE [hdr |-> f.hdr,
                     page |-> [pg \in Pages |-> IF pg \in done THEN DataOf(f, pg)
                                                ELSE disk.page[pg]]]]

\* Dirty pages nobody holds are dropped, the others read again; the header comes
\* from shared memory.
btRollbackTransaction(q) ==
  LET c == btCloseSavepoints(q, 2)
      dropped == {pg \in DOMAIN c.cache : IsDirty(c, pg) /\ c.cache[pg].ref = 0}
      reload == {pg \in DOMAIN c.cache : IsDirty(c, pg) /\ pg <= c.hdr.nPg}
  IN [Uncached([c EXCEPT !.cache = [pg \in DOMAIN @ |->
                                      IF pg \in reload
                                      THEN [@[pg] EXCEPT !.data = btLoadPageData(pg)]
                                      ELSE @[pg]]],
               dropped)
        EXCEPT !.dirty = <<>>, !.hdr = disk.hdr]

NoRefs == \A pg \in DOMAIN p.cache : p.cache[pg].ref = 0

\* btOpenReadTransaction() takes the header of the snapshot.
PagerBegin(iLevel) ==
  /\ p.lvl < iLevel /\ iLevel <= left.level
  /\ p' = [btOpenSavepoints([p EXCEPT !.hdr = IF p.lvl = 0 THEN disk.hdr ELSE @], iLevel)
             EXCEPT !.lvl = iLevel]
  /\ use' = [use EXCEPT !.marks = @ \o [i \in 1..(iLevel - 1 - Len(@)) |-> use.own]]
  /\ UNCHANGED <<disk, left>>

\* The marks of the levels that stay open.
MarksUpTo(l) == SubSeq(use.marks, 1, IF l < 2 THEN 0 ELSE l - 1)

PagerCommit(iLevel) ==
  LET q == btCloseSavepoints(p, iLevel)
      c == btCommitTransaction(q)
      main == p.lvl >= 2 /\ iLevel < 2
  IN /\ iLevel < p.lvl /\ (iLevel = 0 => NoRefs)
     /\ p' = [(IF main THEN c.q ELSE q) EXCEPT !.lvl = iLevel]
     /\ disk' = IF main THEN c.disk ELSE disk
     /\ use' = [use EXCEPT !.marks = MarksUpTo(iLevel)]
     /\ UNCHANGED left

\* The BtPager after sqlite4BtPagerRollback().  Savepoint iLevel is rolled back
\* and stays open.
RolledBack(iLevel) ==
  LET q == CASE p.lvl < 2 -> p
             [] p.lvl >= 2 /\ iLevel <= 2 -> btRollbackTransaction(p)
             [] p.lvl >= 2 /\ iLevel > 2 ->
                  Shorten(CloseLevels(p, iLevel - 1, TRUE), iLevel - 2)
  IN [q EXCEPT !.lvl = iLevel]

\* What the client has is recorded in the pages, and goes back with them.
OwnAt(iLevel) ==
  IF p.lvl < 2 THEN use.own ELSE use.marks[IF iLevel < 2 THEN 1 ELSE iLevel - 1]

PagerRollback(iLevel) ==
  /\ iLevel <= p.lvl /\ (iLevel = 0 => NoRefs)
  /\ p' = RolledBack(iLevel)
  /\ use' = [own |-> OwnAt(iLevel), marks |-> MarksUpTo(iLevel)]
  /\ UNCHANGED <<disk, left>>

\* The connection goes away, by sqlite4BtPagerClose() or with the process, and
\* another opens the database: the header is the one of page 1, with the size
\* the last commit frame says.
NewPager ==
  [lvl |-> 0, hdr |-> ZeroDbhdr, dirtyHdr |-> FALSE, cache |-> <<>>,
   dirty |-> <<>>, lru |-> <<>>, sp |-> <<>>]

Reopen ==
  /\ left.reopen > 0 /\ p # NewPager
  /\ p' = NewPager
  /\ disk' = [disk EXCEPT !.hdr = [disk.page[1].val EXCEPT !.nPg = disk.hdr.nPg]]
  /\ use' = [own |-> OwnAt(0), marks |-> <<>>]
  /\ left' = [left EXCEPT !.reopen = @ - 1]

-----------------------------------------------------------------------------
(* The client *)

Held == {pg \in DOMAIN p.cache : p.cache[pg].ref > 0}

\* A value that no page has had.
Fresh == left.write + left.page + left.block + left.cookie

\* A change that the client makes in a write transaction.
Changes(kind, q, own) ==
  /\ p.lvl >= 2 /\ left[kind] > 0
  /\ p' = q /\ use' = [use EXCEPT !.own = own]
  /\ left' = [left EXCEPT ![kind] = @ - 1]
  /\ UNCHANGED disk

Get(pg) ==
  /\ p.lvl >= 1 /\ pg \in use.own.page /\ pg \notin Held /\ Cardinality(Held) < left.hold
  /\ p' = PageGet(p, pg)
  /\ UNCHANGED <<disk, use, left>>

Release(pg) ==
  /\ pg \in Held
  /\ p' = PageRelease(p, pg)
  /\ UNCHANGED <<disk, use, left>>

Write(pg) ==
  /\ pg \in Held /\ pg \in use.own.page
  /\ Changes("write", Put(PageWrite(p, pg), pg, UserData(Fresh)), use.own)

\* The caller of sqlite4BtPageAllocate() writes the page and then releases it.
Allocate ==
  LET a == PageAllocate(p)
  IN /\ a.q.hdr.nPg <= MaxPg
     /\ Changes("page", PageRelease(Put(a.q, a.pgno, UserData(Fresh)), a.pgno),
                [use.own EXCEPT !.page = @ \cup {a.pgno}])

\* The root page 2 is never freed, nor is a page of a block by itself.
Freeable(pg) ==
  /\ pg \in use.own.page \ {2}
  /\ \A b \in use.own.blk : pg \notin BlockPages(b)

PageTrim(pg) ==
  /\ Freeable(pg) /\ pg \in Held
  /\ Changes("page", PageRelease(FreelistAddPage(p, pg), pg),
             [use.own EXCEPT !.page = @ \ {pg}])

PageTrimPgno(pg) ==
  /\ Freeable(pg) /\ pg \notin Held
  /\ Changes("page", FreelistAddPage(p, pg), [use.own EXCEPT !.page = @ \ {pg}])

\* btFastInsertRoot(): a block is allocated and its root page written.  (The entry
\* of the new sub-tree in the meta tree is a Write() of its own.)
NewSubTree ==
  LET a == BlockAllocate(p)
      root == FirstOfBlock(a.blk)
  IN /\ a.q.hdr.nPg <= MaxPg
     /\ Changes("block", [Change(a.q, root, UserData(Fresh)) EXCEPT !.dirtyHdr = TRUE],
                [page |-> use.own.page \cup {root}, blk |-> use.own.blk \cup {a.blk}])

\* btIntegrateMerge(): the blocks of a level that was merged are freed.
BlockTrim(b) ==
  LET q == FreelistAddBlock(p, b)
  IN /\ b \in use.own.blk /\ BlockPages(b) \cap Held = {}
     /\ q.hdr.nPg <= MaxPg
     /\ Changes("block", q, [page |-> use.own.page \ BlockPages(b), blk |-> use.own.blk \ {b}])

SetCookie ==
  LET h == [p.hdr EXCEPT !.iCookie = Fresh]
  IN Changes("cookie", [Change(p, 1, UserData(h)) EXCEPT !.hdr = h], use.own)

Init ==
  /\ p = NewPager
  /\ disk = [hdr |-> ZeroDbhdr,
             page |-> [pg \in Pages |-> IF pg = 1 THEN UserData(ZeroDbhdr) ELSE Blank]]
  /\ use = [own |-> [page |-> {2}, blk |-> {}], marks |-> <<>>]
  /\ left \in Cases

Next ==
  \/ \E l \in 0..MaxLevel : PagerBegin(l) \/ PagerCommit(l) \/ PagerRollback(l)
  \/ Reopen
  \/ \E pg \in Pages :
       Get(pg) \/ Release(pg) \/ Write(pg) \/ PageTrim(pg) \/ PageTrimPgno(pg)
  \/ Allocate \/ NewSubTree \/ SetCookie
  \/ \E b \in use.own.blk : BlockTrim(b)

Spec == Init /\ [][Next]_vars

-----------------------------------------------------------------------------
(* Properties *)

\* What the client would be given for a page, and what it would have been given
\* at the start of savepoint l: the oldest image saved since.
Now(pg) == IF pg \in DOMAIN p.cache THEN DataOf(p, pg) ELSE disk.page[pg]

At(l, pg) ==
  LET s == IF pg \in DOMAIN p.cache THEN p.cache[pg].saved ELSE <<>>
      n == Cardinality({i \in DOMAIN s : s[i].lev >= l})
  IN IF n = 0 THEN Now(pg) ELSE s[n].data

\* The pages of the free list that starts at pg, data(_) giving their content.
RECURSIVE Trunks(_, _)
Trunks(data, pg) == IF pg = 0 THEN <<>> ELSE <<pg>> \o Trunks(data, data[pg].next)

\* A content of the database: the header, what the client has, and the pages
\* that matter to either.
Image(hdr, own, data) ==
  [hdr |-> hdr, own |-> own,
   page |-> [pg \in own.page \cup ToSet(Trunks(data, hdr.iFreePg))
                             \cup ToSet(Trunks(data, hdr.iFreeBlk)) |-> data[pg]]]

DiskImage(own) == Image(disk.hdr, own, disk.page)

store ==
  [lvl  |-> p.lvl,
   cont |-> IF p.lvl = 0 THEN DiskImage(use.own)
            ELSE Image(p.hdr, use.own, [pg \in Pages |-> Now(pg)]),
   snap |-> [l \in 2..MaxLevel |->
               CASE l > p.lvl -> NoSnap
                 [] l = 2 /\ l <= p.lvl -> DiskImage(use.marks[1])
                 [] l > 2 /\ l <= p.lvl ->
                      Image(p.sp[l - 2].hdr, use.marks[l - 1], [pg \in Pages |-> At(l, pg)])],
   dur  |-> DiskImage(IF p.lvl < 2 THEN use.own ELSE use.marks[1])]

Levels == INSTANCE StoreLevels WITH st <- store, Content <- {}

\* The pager keeps the promise of bt.h about Begin(), Commit() and Rollback(),
\* read from the page images it has saved, the cache and the log: a rollback to
\* any level brings back the content the level began with, a commit of the main
\* transaction makes exactly the content durable, evictions and pages held over
\* a rollback change nothing, and a new connection finds the same header and the
\* same free lists on the pages.
ImplementsLevels == Levels!Spec

\* Every page of the database has exactly one owner: it is the header, a page of
\* the client, a page of a block, a trunk or an entry of the list of free pages,
\* or a trunk of the list of free blocks, and every block is the client's or
\* listed once, whatever allocations, frees and rollbacks did to the lists that
\* btFreelistAdd() and btFreelistAlloc() keep in the free pages themselves.
PagesAccounted ==
  LET data == [pg \in Pages |-> Now(pg)]
      hdr == IF p.lvl = 0 THEN disk.hdr ELSE p.hdr
      tp == Trunks(data, hdr.iFreePg)
      tb == Trunks(data, hdr.iFreeBlk)
      leaves(t) == FlattenSeq([i \in DOMAIN t |-> data[t[i]].free])
      blocks == leaves(tb) \o SetToSeq(use.own.blk)
      inBlock == FlattenSeq([i \in DOMAIN blocks |-> SetToSeq(BlockPages(blocks[i]))])
      single == {pg \in use.own.page : \A b \in use.own.blk : pg \notin BlockPages(b)}
      all == <<1>> \o tp \o leaves(tp) \o tb \o inBlock \o SetToSeq(single)
  IN Len(all) = hdr.nPg /\ ToSet(all) = 1..hdr.nPg

=============================================================================
