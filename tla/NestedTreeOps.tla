--------------------------- MODULE NestedTreeOps ----------------------------
(***************************************************************************)
(* NestedTree of ic-certification (nested_rb_tree.rs): a leaf, or a        *)
(* red-black tree whose values are nested trees, addressed by paths.       *)
(***************************************************************************)
EXTENDS RbTreeOps

EmptyTree == NestedValue(None)

RECURSIVE GetPath(_, _)
GetPath(t, p) ==
  IF p = <<>> THEN IF t.nested THEN None ELSE t.data
  ELSE LET child == IF t.nested THEN Get(t.data, Head(p)) ELSE None
       IN  IF child = None THEN None ELSE GetPath(child, Tail(p))

RECURSIVE ContainsPath(_, _)
ContainsPath(t, p) ==
  \/ p = <<>>
  \/ LET child == IF t.nested THEN Get(t.data, Head(p)) ELSE None
     IN  child # None /\ ContainsPath(child, Tail(p))

ContainsLeaf(t, p) == GetPath(t, p) # None

RECURSIVE InsertPath(_, _, _)
\* Mutant: a leaf in the way of the path stays, and the value is lost.
InsertPathStopsAtLeaf(t, p, v) ==
  IF p = <<>> THEN LeafValue(v)
  ELSE IF ~t.nested THEN t
  ELSE LET k    == Head(p)
           room == IF Get(t.data, k) = None THEN Insert(t.data, k, EmptyTree) ELSE t.data
       IN  NestedValue(Modify(room, k, InsertPath(Get(room, k), Tail(p), v)))

\* A leaf in the way is cleared; a missing child is first inserted empty.
InsertPath(t, p, v) ==
  IF p = <<>> THEN LeafValue(v)
  ELSE LET rt   == IF t.nested THEN t.data ELSE None
           k    == Head(p)
           room == IF Get(rt, k) = None THEN Insert(rt, k, EmptyTree) ELSE rt
       IN  NestedValue(Modify(room, k, InsertPath(Get(room, k), Tail(p), v)))

RECURSIVE DeletePath(_, _)
\* Mutant: a subtree that has become empty stays in its parent.
DeletePathKeepsEmpty(t, p) ==
  IF p = <<>> THEN EmptyTree
  ELSE IF ~t.nested \/ Get(t.data, Head(p)) = None THEN t
  ELSE NestedValue(Modify(t.data, Head(p), DeletePath(Get(t.data, Head(p)), Tail(p))))

\* A child that is empty once the path below it is gone is deleted too.
DeletePath(t, p) ==
  IF p = <<>> THEN EmptyTree
  ELSE IF ~t.nested \/ Get(t.data, Head(p)) = None THEN t
  ELSE LET k     == Head(p)
           child == DeletePath(Get(t.data, k), Tail(p))
           rt    == Modify(t.data, k, child)
       IN  NestedValue(IF child = EmptyTree THEN Delete(rt, k) ELSE rt)

RECURSIVE WitnessPath(_, _)
\* Mutant: the end of the path is pruned instead of shown.
WitnessPathPrunesEnd(t, p) ==
  IF p = <<>> THEN Pruned(ValueHash(t))
  ELSE IF ~t.nested THEN ValueAsHashTree(t)
  ELSE LET child == Get(t.data, Head(p))
       IN  NestedWitness(t.data, Head(p),
                         IF child = None THEN Empty ELSE WitnessPath(child, Tail(p)))

WitnessPath(t, p) ==
  IF p = <<>> \/ ~t.nested THEN ValueAsHashTree(t)
  ELSE LET child == Get(t.data, Head(p))
       IN  NestedWitness(t.data, Head(p),
                         IF child = None THEN Empty ELSE WitnessPath(child, Tail(p)))
=============================================================================
