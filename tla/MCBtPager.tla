----------------------------- MODULE MCBtPager -----------------------------
(***************************************************************************)
(* Instances of BtPager for TLC.                                           *)
(***************************************************************************)
EXTENDS BtPager

Budget(level, hold, write, page, block, cookie, reopen) ==
  [level |-> level, hold |-> hold, write |-> write, page |-> page,
   block |-> block, cookie |-> cookie, reopen |-> reopen]

MCCases ==
  {Budget(5, 1, 5, 0, 0, 0, 0),    \* one page under four nested levels
   Budget(3, 2, 2, 2, 0, 0, 0),    \* pages held over rollbacks
   Budget(4, 2, 2, 1, 0, 0, 0),
   Budget(2, 0, 0, 6, 0, 0, 0),    \* the list of free pages
   Budget(3, 0, 0, 5, 0, 0, 0),
   Budget(2, 0, 0, 1, 5, 0, 0),    \* the list of free blocks
   Budget(3, 0, 0, 1, 3, 0, 0),
   Budget(4, 0, 0, 1, 1, 2, 1)}    \* the header
=============================================================================
