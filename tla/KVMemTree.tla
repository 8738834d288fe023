------------------------------ MODULE KVMemTree ------------------------------
(***************************************************************************)
(* The balanced binary tree of kvmem.c, pointer by pointer: the rotations, *)
(* kvmemBalance(), linking a new leaf (kvmemReplace) and unlinking any     *)
(* node (kvmemRemoveNode).  A node is named by its key, so the tree is a   *)
(* record of functions on keys; a node outside the tree has no pointers.   *)
(***************************************************************************)
EXTENDS Integers, FiniteSets

CONSTANT Keys    \* a finite set of positive integers, in memcmp() order

Nil == 0

ASSUME KeysAssumption == Keys \subseteq Nat \ {0}

VARIABLES t,     \* the tree
          elems  \* the keys put in and not taken out

vars == <<t, elems>>

(* root pRoot, before pBefore, after pAfter, up pUp, height, imb imbalance  *)
Empty == [root |-> Nil,
          before |-> [k \in Keys |-> Nil], after |-> [k \in Keys |-> Nil],
          up |-> [k \in Keys |-> Nil],
          height |-> [k \in Keys |-> 0], imb |-> [k \in Keys |-> 0]]

Init == t = Empty /\ elems = {}

-----------------------------------------------------------------------------
HeightOf(s, p) == IF p = Nil THEN 0 ELSE s.height[p]

RecomputeHeight(s, p) ==
  LET hBefore == HeightOf(s, s.before[p])
      hAfter  == HeightOf(s, s.after[p])
  IN  [s EXCEPT !.imb[p] = hBefore - hAfter,
                !.height[p] = (IF hBefore > hAfter THEN hBefore ELSE hAfter) + 1]

SetUp(s, p, u) == IF p = Nil THEN s ELSE [s EXCEPT !.up[p] = u]

(* Both rotations return the node that comes up along with the tree.        *)
RotateBefore(s, p) ==
  LET b == s.before[p]
      y == s.after[b]
      g == SetUp([s EXCEPT !.up[b] = s.up[p], !.after[b] = p,
                           !.up[p] = b, !.before[p] = y], y, p)
  IN  [tree |-> RecomputeHeight(RecomputeHeight(g, p), b), top |-> b]

RotateAfter(s, p) ==
  LET a == s.after[p]
      y == s.before[a]
      g == SetUp([s EXCEPT !.up[a] = s.up[p], !.before[a] = p,
                           !.up[p] = a, !.after[p] = y], y, p)
  IN  [tree |-> RecomputeHeight(RecomputeHeight(g, p), a), top |-> a]

(* Mutant: the pointer is looked for on the wrong side.                     *)
RelinkOther(s, p, u, q) ==
  CASE u = Nil -> [s EXCEPT !.root = q]
    [] u # Nil /\ s.before[u] = Nil -> [s EXCEPT !.before[u] = q]
    [] u # Nil /\ s.before[u] # Nil -> [s EXCEPT !.after[u] = q]

(* *kvmemFromPtr(p, &root) = q                                              *)
Relink(s, p, u, q) ==
  CASE u = Nil -> [s EXCEPT !.root = q]
    [] u # Nil /\ s.after[u] = p -> [s EXCEPT !.after[u] = q]
    [] u # Nil /\ s.after[u] # p -> [s EXCEPT !.before[u] = q]

(* One turn of the loop of kvmemBalance(): the height of p is known.        *)
Rebalance(s, p) ==
  LET u == s.up[p]
  IN  CASE s.imb[p] >= 2 ->
             LET b == s.before[p]
                 i == IF s.imb[b] < 0 THEN RotateAfter(s, b)
                      ELSE [tree |-> s, top |-> b]
                 r == RotateBefore([i.tree EXCEPT !.before[p] = i.top], p)
             IN  [tree |-> Relink(r.tree, p, u, r.top), top |-> r.top]
        [] s.imb[p] <= -2 ->
             LET a == s.after[p]
                 i == IF s.imb[a] > 0 THEN RotateBefore(s, a)
                      ELSE [tree |-> s, top |-> a]
                 r == RotateAfter([i.tree EXCEPT !.after[p] = i.top], p)
             IN  [tree |-> Relink(r.tree, p, u, r.top), top |-> r.top]
        [] OTHER -> [tree |-> s, top |-> p]

(* kvmemBalance() returns the last node it visited, which becomes pRoot.    *)
RECURSIVE Balance(_, _)
Balance(s, p) ==
  IF p = Nil THEN [s EXCEPT !.root = Nil]
  ELSE LET r == Rebalance(RecomputeHeight(s, p), p)
           u == r.tree.up[r.top]
       IN  IF u = Nil THEN [r.tree EXCEPT !.root = r.top] ELSE Balance(r.tree, u)

-----------------------------------------------------------------------------
RECURSIVE First(_, _)
First(s, p) == IF s.before[p] = Nil THEN p ELSE First(s, s.before[p])

RECURSIVE Last(_, _)
Last(s, p) == IF s.after[p] = Nil THEN p ELSE Last(s, s.after[p])

(* Mutant: the climb stops at the parent.                                   *)
ClimbAfterOnce(s, p, prev) == s.up[p]

(* The first ancestor for which p is not on the far side.                   *)
RECURSIVE ClimbAfter(_, _, _)
ClimbAfter(s, p, prev) ==
  IF p # Nil /\ s.after[p] = prev THEN ClimbAfter(s, s.up[p], p) ELSE p

RECURSIVE ClimbBefore(_, _, _)
ClimbBefore(s, p, prior) ==
  IF p # Nil /\ s.before[p] = prior THEN ClimbBefore(s, s.up[p], p) ELSE p

NextNode(s, p) ==
  IF s.after[p] # Nil THEN First(s, s.after[p]) ELSE ClimbAfter(s, p, Nil)

PrevNode(s, p) ==
  IF s.before[p] # Nil THEN Last(s, s.before[p]) ELSE ClimbBefore(s, p, Nil)

(* The node a search for k ends at: k itself, or the parent it would have.  *)
RECURSIVE Descend(_, _, _)
Descend(s, p, k) ==
  CASE k = p -> p
    [] k < p -> IF s.before[p] = Nil THEN p ELSE Descend(s, s.before[p], k)
    [] k > p -> IF s.after[p] = Nil THEN p ELSE Descend(s, s.after[p], k)

(* kvmemReplace() where there is no node with the key.                      *)
Insert(k) ==
  /\ k \notin elems
  /\ LET p == IF t.root = Nil THEN Nil ELSE Descend(t, t.root, k)
         s == CASE p = Nil -> t
                [] p # Nil /\ k < p -> [t EXCEPT !.before[p] = k]
                [] p # Nil /\ k > p -> [t EXCEPT !.after[p] = k]
     IN  t' = Balance([s EXCEPT !.up[k] = p, !.height[k] = 1], k)
  /\ elems' = elems \cup {k}

(* The node that takes the place of old, and where balancing starts.        *)
Splice(s, old) ==
  LET b == s.before[old]
      a == s.after[old]
      u == s.up[old]
  IN  CASE b = Nil /\ a = Nil -> [tree |-> Relink(s, old, u, Nil), from |-> u]
        [] b = Nil /\ a # Nil ->
             [tree |-> SetUp(Relink(s, old, u, a), a, u), from |-> a]
        [] b # Nil /\ a = Nil ->
             [tree |-> SetUp(Relink(s, old, u, b), b, u), from |-> b]
        [] b # Nil /\ a # Nil ->
             LET x == First(s, a)
                 g == IF x = a THEN s
                      ELSE LET y == Relink(SetUp(s, s.after[x], s.up[x]), x,
                                           s.up[x], s.after[x])
                           IN  SetUp([y EXCEPT !.after[x] = a], a, x)
             IN  [tree |-> Relink([SetUp(g, b, x) EXCEPT !.before[x] = b,
                                                         !.up[x] = u],
                                  old, u, x),
                  from |-> IF x = a THEN x ELSE s.up[x]]

RemoveNode(old) ==
  /\ old \in elems
  /\ LET r == Splice(t, old)
         s == Balance(r.tree, r.from)
     IN  t' = [s EXCEPT !.before[old] = Nil, !.after[old] = Nil,
                        !.up[old] = Nil, !.height[old] = 0, !.imb[old] = 0]
  /\ elems' = elems \ {old}

Next == \E k \in Keys : Insert(k) \/ RemoveNode(k)

Spec == Init /\ [][Next]_vars

-----------------------------------------------------------------------------
RECURSIVE Below(_, _)
Below(s, p) ==
  IF p = Nil THEN {} ELSE {p} \cup Below(s, s.before[p]) \cup Below(s, s.after[p])

(* What the tree reaches from pRoot is what was put in, in search order,    *)
(* and what assertUpPointers() checks in a debug build: the parent of each  *)
(* child is the node it hangs from, and the root has none.  kvmemNext() and *)
(* kvmemPrev() climb by these pointers after any sequence of rotations.     *)
SearchTree ==
  /\ Below(t, t.root) = elems
  /\ \A p \in elems : /\ \A q \in Below(t, t.before[p]) : q < p
                      /\ \A q \in Below(t, t.after[p]) : q > p
                      /\ \A q \in {t.before[p], t.after[p]} \ {Nil} : t.up[q] = p
  /\ t.root # Nil => t.up[t.root] = Nil

(* kvmemBalance() leaves every node with its true height and with subtrees  *)
(* that differ by at most one level, on the way up from a removal too.      *)
Balanced ==
  \A p \in elems :
    /\ t.imb[p] \in -1..1
    /\ t.imb[p] = HeightOf(t, t.before[p]) - HeightOf(t, t.after[p])
    /\ \E q \in {t.before[p], t.after[p]} : t.height[p] = HeightOf(t, q) + 1

(* After any sequence of insertions and removals pRoot is a search tree of  *)
(* what is in the store, balanced, and linked both ways.                    *)
BalancedSearchTree == SearchTree /\ Balanced

(* kvmemNext() and kvmemPrev() walk the elements in key order.              *)
StepsInOrder ==
  \A p \in elems :
    LET more == {q \in elems : q > p}
        less == {q \in elems : q < p}
    IN  /\ NextNode(t, p) = IF more = {} THEN Nil
                            ELSE CHOOSE q \in more : \A r \in more : q <= r
        /\ PrevNode(t, p) = IF less = {} THEN Nil
                            ELSE CHOOSE q \in less : \A r \in less : q >= r
=============================================================================
