----------------------------- MODULE RbTreeOps ------------------------------
(***************************************************************************)
(* The left-leaning red-black tree of ic-certification (rb_tree/mod.rs) as *)
(* operators on tree terms: every node carries the hash of the hash tree   *)
(* built from its subtree, recomputed by hand wherever the tree changes.   *)
(* A NodeRef is None or a node record; a value is a leaf, or another tree  *)
(* (the two AsHashTree implementations values have: bytes and RbTree).     *)
(* Taking a field of None is the code's unwrap() of an absent child: TLC   *)
(* stops on it, so every run also shows that no operation panics.          *)
(***************************************************************************)
EXTENDS HashTree, SequencesExt

CONSTANT None  \* an absent child, an absent bound, an absent result

LeafValue(v)    == [nested |-> FALSE, data |-> v]
NestedValue(rt) == [nested |-> TRUE, data |-> rt]

(***************************************************************************)
(* Hashes of values and of subtrees.                                       *)
(***************************************************************************)
RootHash(rt) == IF rt = None THEN EmptyHash ELSE rt.subtree_hash

ValueHash(v) == IF v.nested THEN RootHash(v.data) ELSE LeafHash(v.data)

DataHash(n) == LabeledHash(n.key, ValueHash(n.value))

ComputeSubtreeHash(n) ==
  LET h == DataHash(n)
  IN  CASE n.left = None /\ n.right = None -> h
        [] n.left # None /\ n.right = None -> ForkHash(n.left.subtree_hash, h)
        [] n.left = None /\ n.right # None -> ForkHash(h, n.right.subtree_hash)
        [] OTHER -> ForkHash(n.left.subtree_hash, ForkHash(h, n.right.subtree_hash))

UpdateSubtreeHash(n) == [n EXCEPT !.subtree_hash = ComputeSubtreeHash(n)]

NewNode(k, v) ==
  [key |-> k, value |-> v, left |-> None, right |-> None, red |-> TRUE,
   subtree_hash |-> LabeledHash(k, ValueHash(v))]

(***************************************************************************)
(* Colours and rotations.                                                  *)
(***************************************************************************)
IsRed(n) == n # None /\ n.red

FlipColors(h) ==
  [h EXCEPT !.red = ~@, !.left.red = ~@, !.right.red = ~@]

RotateRight(h) ==
  LET x    == h.left
      down == UpdateSubtreeHash([h EXCEPT !.left = x.right])
  IN  UpdateSubtreeHash([x EXCEPT !.right = [down EXCEPT !.red = TRUE],
                                  !.red = h.red])

\* Mutant: the node rotated down keeps its old hash.
RotateLeftStale(h) ==
  LET x == h.right
  IN  UpdateSubtreeHash([x EXCEPT !.left = [h EXCEPT !.right = x.left, !.red = TRUE],
                                  !.red = h.red])

RotateLeft(h) ==
  LET x    == h.right
      down == UpdateSubtreeHash([h EXCEPT !.right = x.left])
  IN  UpdateSubtreeHash([x EXCEPT !.left = [down EXCEPT !.red = TRUE],
                                  !.red = h.red])

\* Mutant: a red link may lean right.
BalanceNoLeftRotation(h) ==
  LET a == IF IsRed(h.left) /\ IsRed(h.left.left) THEN RotateRight(h) ELSE h
  IN  IF IsRed(a.left) /\ IsRed(a.right) THEN FlipColors(a) ELSE a

Balance(h) ==
  LET a == IF IsRed(h.right) /\ ~IsRed(h.left) THEN RotateLeft(h) ELSE h
      b == IF IsRed(a.left) /\ IsRed(a.left.left) THEN RotateRight(a) ELSE a
  IN  IF IsRed(b.left) /\ IsRed(b.right) THEN FlipColors(b) ELSE b

(***************************************************************************)
(* The map operations.                                                     *)
(***************************************************************************)
RECURSIVE Get(_, _)
Get(n, k) ==
  IF n = None THEN None
  ELSE IF k = n.key THEN n.value
  ELSE Get(IF Less(k, n.key) THEN n.left ELSE n.right, k)

\* modify gives the value in place a new value and refreshes the way down to it.
RECURSIVE Modify(_, _, _)
\* Mutant: the search for the key to modify goes the wrong way.
ModifyWrongWay(n, k, v) ==
  IF n = None THEN None
  ELSE UpdateSubtreeHash(
         IF k = n.key THEN [n EXCEPT !.value = v]
         ELSE IF Less(k, n.key) THEN [n EXCEPT !.right = Modify(@, k, v)]
         ELSE [n EXCEPT !.left = Modify(@, k, v)])

\* Mutant: the hashes on the way down to the modified value are not refreshed.
ModifyStale(n, k, v) ==
  IF n = None THEN None
  ELSE IF k = n.key THEN [n EXCEPT !.value = v]
  ELSE IF Less(k, n.key) THEN [n EXCEPT !.left = Modify(@, k, v)]
  ELSE [n EXCEPT !.right = Modify(@, k, v)]

Modify(n, k, v) ==
  IF n = None THEN None
  ELSE UpdateSubtreeHash(
         IF k = n.key THEN [n EXCEPT !.value = v]
         ELSE IF Less(k, n.key) THEN [n EXCEPT !.left = Modify(@, k, v)]
         ELSE [n EXCEPT !.right = Modify(@, k, v)])

RECURSIVE InsertAtNode(_, _, _)
InsertAtNode(h, k, v) ==
  IF h = None THEN NewNode(k, v)
  ELSE Balance(UpdateSubtreeHash(
         IF k = h.key THEN [h EXCEPT !.value = v]
         ELSE IF Less(k, h.key) THEN [h EXCEPT !.left = InsertAtNode(@, k, v)]
         ELSE [h EXCEPT !.right = InsertAtNode(@, k, v)]))

Blacken(n) == IF n = None THEN None ELSE [n EXCEPT !.red = FALSE]

Insert(rt, k, v) == Blacken(InsertAtNode(rt, k, v))

MoveRedLeft(h) ==
  LET f == FlipColors(h)
  IN  IF IsRed(f.right.left)
      THEN FlipColors(RotateLeft([f EXCEPT !.right = RotateRight(@)]))
      ELSE f

MoveRedRight(h) ==
  LET f == FlipColors(h)
  IN  IF IsRed(f.left.left) THEN FlipColors(RotateRight(f)) ELSE f

RECURSIVE MinNode(_)
\* Mutant: the root of the right subtree is taken for its least node.
MinNodeNoDescent(h) == h

MinNode(h) == IF h.left = None THEN h ELSE MinNode(h.left)

RECURSIVE DeleteMin(_)
DeleteMin(h) ==
  IF h.left = None THEN None
  ELSE LET a == IF ~IsRed(h.left) /\ ~IsRed(h.left.left) THEN MoveRedLeft(h) ELSE h
       IN  Balance(UpdateSubtreeHash([a EXCEPT !.left = DeleteMin(@)]))

\* The deleted key is swapped into the least node of the right subtree, which
\* delete_min then drops: only the key and value swapped out of it survive.
RECURSIVE DeleteAtNode(_, _)
DeleteAtNode(h, k) ==
  IF Less(k, h.key)
  THEN LET a == IF ~IsRed(h.left) /\ ~IsRed(h.left.left) THEN MoveRedLeft(h) ELSE h
       IN  Balance(UpdateSubtreeHash([a EXCEPT !.left = DeleteAtNode(@, k)]))
  ELSE LET a == IF IsRed(h.left) THEN RotateRight(h) ELSE h
       IN  IF k = a.key /\ a.right = None THEN None
           ELSE LET b == IF ~IsRed(a.right) /\ ~IsRed(a.right.left)
                         THEN MoveRedRight(a) ELSE a
                    m == MinNode(b.right)
                IN  Balance(UpdateSubtreeHash(
                      IF k = b.key
                      THEN [b EXCEPT !.key = m.key, !.value = m.value,
                                     !.right = DeleteMin(@)]
                      ELSE [b EXCEPT !.right = DeleteAtNode(@, k)]))

Delete(rt, k) ==
  IF Get(rt, k) = None THEN rt
  ELSE Blacken(DeleteAtNode(
         IF ~IsRed(rt.left) /\ ~IsRed(rt.right) THEN [rt EXCEPT !.red = TRUE] ELSE rt,
         k))

(***************************************************************************)
(* Iteration: the step of Iter on its stack of nodes, the last one first.  *)
(***************************************************************************)
IterStart(rt) == [visit |-> "Pre", parents |-> IF rt = None THEN <<>> ELSE <<rt>>]

\* Mutant: coming back from a left child does not visit the parent.
IterStepSkipsParent(it) ==
  LET tip == Head(it.parents)
  IN  CASE it.visit = "Pre" ->
             IF tip.left # None THEN [it EXCEPT !.parents = <<tip.left>> \o @]
             ELSE [it EXCEPT !.visit = "In"]
        [] it.visit = "In" ->
             IF tip.right # None
             THEN [visit |-> "Pre", parents |-> <<tip.right>> \o it.parents]
             ELSE [it EXCEPT !.visit = "Post"]
        [] it.visit = "Post" -> [visit |-> "Post", parents |-> Tail(it.parents)]

IterStep(it) ==
  LET tip == Head(it.parents)
      up  == Tail(it.parents)
  IN  CASE it.visit = "Pre" ->
             IF tip.left # None THEN [it EXCEPT !.parents = <<tip.left>> \o @]
             ELSE [it EXCEPT !.visit = "In"]
        [] it.visit = "In" ->
             IF tip.right # None
             THEN [visit |-> "Pre", parents |-> <<tip.right>> \o it.parents]
             ELSE [it EXCEPT !.visit = "Post"]
        [] it.visit = "Post" ->
             [visit |-> IF up # <<>> /\ Head(up).left = tip THEN "In" ELSE "Post",
              parents |-> up]

RECURSIVE Iterate(_)
Iterate(it) ==
  IF it.parents = <<>> THEN <<>>
  ELSE LET next == IterStep(it)
       IN  (IF next.visit = "In" THEN <<<<Head(next.parents).key, Head(next.parents).value>>>>
            ELSE <<>>) \o Iterate(next)

Entries(rt) == Iterate(IterStart(rt))

\* A tree collected from entries, inserted in the order they come in.
FromEntries(es) == FoldLeft(LAMBDA rt, e : Insert(rt, e[1], e[2]), None, es)

\* Trees are equal if they hold the same entries, whatever their shapes and root hashes.
SameEntries(s, t) == Entries(s) = Entries(t)

-----------------------------------------------------------------------------
(***************************************************************************)
(* Witnesses: hash trees with the root hash of the tree that reveal one    *)
(* entry, the absence of one, or a range of keys, and prune the rest to    *)
(* the cached subtree hashes.  `show` is the function f the range          *)
(* witnesses take: "data_tree" reveals an entry, "witness_tree" its key    *)
(* only.                                                                   *)
(***************************************************************************)
ThreeWayFork(l, m, r) ==
  CASE Is("empty", l) /\ Is("empty", r)  -> m
    [] ~Is("empty", l) /\ Is("empty", r) -> Fork(l, m)
    [] Is("empty", l) /\ ~Is("empty", r) -> Fork(m, r)
    [] OTHER ->
         IF Is("pruned", m) /\ Is("pruned", r)
         THEN IF Is("pruned", l)
              THEN Pruned(ForkHash(l[2], ForkHash(m[2], r[2])))
              ELSE Fork(l, Pruned(ForkHash(m[2], r[2])))
         ELSE Fork(l, Fork(m, r))

PrunedSubtree(n) == IF n = None THEN Empty ELSE Pruned(n.subtree_hash)

WitnessTree(n) == Labeled(n.key, Pruned(ValueHash(n.value)))

RECURSIVE FullWitnessTree(_, _)
RECURSIVE Show(_, _)

AsHashTree(rt) == FullWitnessTree(rt, "data_tree")

ValueAsHashTree(v) == IF v.nested THEN AsHashTree(v.data) ELSE Leaf(v.data)

Show(n, show) ==
  IF show = "witness_tree" THEN WitnessTree(n)
  ELSE Labeled(n.key, ValueAsHashTree(n.value))

FullWitnessTree(n, show) ==
  IF n = None THEN Empty
  ELSE ThreeWayFork(FullWitnessTree(n.left, show), Show(n, show),
                    FullWitnessTree(n.right, show))

(***************************************************************************)
(* One entry: None when the key is absent.                                 *)
(***************************************************************************)
RECURSIVE LookupAndBuildWitness(_, _, _)
LookupAndBuildWitness(n, k, inner) ==
  IF n = None THEN None
  ELSE IF k = n.key
  THEN ThreeWayFork(PrunedSubtree(n.left), Labeled(k, inner), PrunedSubtree(n.right))
  ELSE LET left  == Less(k, n.key)
           below == LookupAndBuildWitness(IF left THEN n.left ELSE n.right, k, inner)
       IN  IF below = None THEN None
           ELSE IF left
           THEN ThreeWayFork(below, Pruned(DataHash(n)), PrunedSubtree(n.right))
           ELSE ThreeWayFork(PrunedSubtree(n.left), Pruned(DataHash(n)), below)

(***************************************************************************)
(* Bounds of a range: the key itself, its neighbour, or None.              *)
(***************************************************************************)
Exact(k)    == [exact |-> TRUE, key |-> k]
Neighbor(k) == [exact |-> FALSE, key |-> k]

OrElse(bound, other) == IF bound = None THEN other ELSE bound

RECURSIVE LowerBound(_, _)
\* Mutant: the first key below k is taken for its neighbour.
LowerBoundTooLow(n, k) ==
  IF n = None THEN None
  ELSE IF n.key = k THEN Exact(k)
  ELSE IF Less(n.key, k) THEN Neighbor(n.key)
  ELSE LowerBound(n.left, k)

LowerBound(n, k) ==
  IF n = None THEN None
  ELSE IF n.key = k THEN Exact(k)
  ELSE IF Less(n.key, k) THEN OrElse(LowerBound(n.right, k), Neighbor(n.key))
  ELSE LowerBound(n.left, k)

RECURSIVE UpperBound(_, _)
UpperBound(n, k) ==
  IF n = None THEN None
  ELSE IF n.key = k THEN Exact(k)
  ELSE IF Less(n.key, k) THEN UpperBound(n.right, k)
  ELSE OrElse(UpperBound(n.left, k), Neighbor(n.key))

RECURSIVE RightPrefixNeighbor(_, _)
\* Mutant: any key above the prefix bounds it, the keys that have it included.
RightPrefixNeighborIgnoresPrefix(n, p) ==
  IF n = None THEN None
  ELSE IF ~Less(p, n.key) THEN RightPrefixNeighbor(n.right, p)
  ELSE OrElse(RightPrefixNeighbor(n.left, p), Neighbor(n.key))

RightPrefixNeighbor(n, p) ==
  IF n = None THEN None
  ELSE IF ~Less(p, n.key) \/ IsPrefix(p, n.key) THEN RightPrefixNeighbor(n.right, p)
  ELSE OrElse(RightPrefixNeighbor(n.left, p), Neighbor(n.key))

(***************************************************************************)
(* Range witnesses.                                                        *)
(***************************************************************************)
\* Mutant: a neighbour's key is pruned along with its value.
AtBoundHidesNeighbor(n, exact, show) ==
  IF exact THEN Show(n, show) ELSE Pruned(DataHash(n))

AtBound(n, exact, show) == IF exact THEN Show(n, show) ELSE WitnessTree(n)

RECURSIVE WitnessRangeAbove(_, _, _)
\* Mutant: what lies between the bound and the node above it is pruned.
WitnessRangeAbovePrunesLeft(n, lo, show) ==
  IF n = None THEN Empty
  ELSE IF Less(n.key, lo.key)
  THEN ThreeWayFork(PrunedSubtree(n.left), Pruned(DataHash(n)),
                    WitnessRangeAbove(n.right, lo, show))
  ELSE ThreeWayFork(PrunedSubtree(n.left), AtBound(n, n.key # lo.key \/ lo.exact, show),
                    FullWitnessTree(n.right, show))

WitnessRangeAbove(n, lo, show) ==
  IF n = None THEN Empty
  ELSE IF n.key = lo.key
  THEN ThreeWayFork(PrunedSubtree(n.left), AtBound(n, lo.exact, show),
                    FullWitnessTree(n.right, show))
  ELSE IF Less(n.key, lo.key)
  THEN ThreeWayFork(PrunedSubtree(n.left), Pruned(DataHash(n)),
                    WitnessRangeAbove(n.right, lo, show))
  ELSE ThreeWayFork(WitnessRangeAbove(n.left, lo, show), Show(n, show),
                    FullWitnessTree(n.right, show))

RECURSIVE WitnessRangeBelow(_, _, _)
WitnessRangeBelow(n, hi, show) ==
  IF n = None THEN Empty
  ELSE IF n.key = hi.key
  THEN ThreeWayFork(FullWitnessTree(n.left, show), AtBound(n, hi.exact, show),
                    PrunedSubtree(n.right))
  ELSE IF Less(hi.key, n.key)
  THEN ThreeWayFork(WitnessRangeBelow(n.left, hi, show), Pruned(DataHash(n)),
                    PrunedSubtree(n.right))
  ELSE ThreeWayFork(FullWitnessTree(n.left, show), Show(n, show),
                    WitnessRangeBelow(n.right, hi, show))

RECURSIVE WitnessRangeBetween(_, _, _, _)
WitnessRangeBetween(n, lo, hi, show) ==
  IF n = None THEN Empty
  ELSE LET left  == WitnessRangeBetween(n.left, lo, hi, show)
           right == WitnessRangeBetween(n.right, lo, hi, show)
           atLo  == lo.key = n.key
           atHi  == n.key = hi.key
           above == Less(lo.key, n.key)
           below == Less(n.key, hi.key)
       IN  CASE above /\ below -> ThreeWayFork(left, Show(n, show), right)
             [] atLo /\ atHi ->
                  ThreeWayFork(PrunedSubtree(n.left),
                               AtBound(n, lo.exact \/ hi.exact, show),
                               PrunedSubtree(n.right))
             [] atHi /\ ~atLo ->
                  ThreeWayFork(left, AtBound(n, hi.exact, show), PrunedSubtree(n.right))
             [] atLo /\ ~atHi ->
                  ThreeWayFork(PrunedSubtree(n.left), AtBound(n, lo.exact, show), right)
             [] above /\ ~below /\ ~atHi ->
                  ThreeWayFork(left, Pruned(DataHash(n)), PrunedSubtree(n.right))
             [] ~above /\ ~atLo /\ below ->
                  ThreeWayFork(PrunedSubtree(n.left), Pruned(DataHash(n)), right)
             [] OTHER -> Pruned(n.subtree_hash)

RangeWitness(rt, lo, hi, show) ==
  CASE lo = None /\ hi = None -> FullWitnessTree(rt, show)
    [] lo # None /\ hi = None -> WitnessRangeAbove(rt, lo, show)
    [] lo = None /\ hi # None -> WitnessRangeBelow(rt, hi, show)
    [] OTHER                  -> WitnessRangeBetween(rt, lo, hi, show)

(***************************************************************************)
(* The public witnesses.  inner is what nested_witness's f makes of the    *)
(* value found at the key.                                                 *)
(***************************************************************************)
NestedWitness(rt, k, inner) ==
  LET found == LookupAndBuildWitness(rt, k, inner)
  IN  IF found # None THEN found
      ELSE RangeWitness(rt, LowerBound(rt, k), UpperBound(rt, k), "witness_tree")

Witness(rt, k) == NestedWitness(rt, k, ValueAsHashTree(Get(rt, k)))

WitnessKeys(rt) == FullWitnessTree(rt, "witness_tree")

KeyRange(rt, first, last) ==
  RangeWitness(rt, LowerBound(rt, first), UpperBound(rt, last), "witness_tree")

ValueRange(rt, first, last) ==
  RangeWitness(rt, LowerBound(rt, first), UpperBound(rt, last), "data_tree")

KeysWithPrefix(rt, p) ==
  RangeWitness(rt, LowerBound(rt, p), RightPrefixNeighbor(rt, p), "witness_tree")
=============================================================================
