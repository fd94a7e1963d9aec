----------------------------- MODULE NestedTree -----------------------------
(***************************************************************************)
(* A nested tree that is inserted into, deleted from and cleared in any    *)
(* order, its witnesses after any such history, and the map from paths to  *)
(* values it implements.                                                   *)
(***************************************************************************)
EXTENDS NestedTreeOps

CONSTANTS
  Paths,  \* the paths that are used
  Values  \* the values that are stored

VARIABLES
  tree,
  call  \* the last operation, with its arguments

vars == <<tree, call>>

InsertLeaf(p, v) ==
  /\ call' = <<"insert", p, v>>
  /\ tree' = InsertPath(tree, p, v)

DeleteSubtree(p) ==
  /\ call' = <<"delete", p>>
  /\ tree' = DeletePath(tree, p)

Clear ==
  /\ call' = <<"clear">>
  /\ tree' = EmptyTree

Init == tree = EmptyTree /\ call = <<"new">>

Next ==
  \/ \E p \in Paths, v \in Values : InsertLeaf(p, v)
  \/ \E p \in Paths : DeleteSubtree(p)
  \/ Clear

Spec == Init /\ [][Next]_vars

\* The last operation is there for ImplementsPathMap; nothing else depends on it.
View == tree

-----------------------------------------------------------------------------
RECURSIVE Nodes(_)
Nodes(n) == IF n = None THEN {} ELSE {n} \cup Nodes(n.left) \cup Nodes(n.right)

\* The red-black trees inside a tree, with their place.
RECURSIVE Levels(_)
Levels(t) ==
  IF ~t.nested THEN {}
  ELSE {t.data} \cup UNION {Levels(n.value) : n \in Nodes(t.data)}

\* At every level keys are in order, and only the outermost tree may be empty:
\* an emptied subtree would certify a path that leads nowhere.
Ordered ==
  /\ tree.nested => \A n \in Nodes(tree.data) : None \notin Levels(n.value)
  /\ \A rt \in Levels(tree) : \A n \in Nodes(rt) :
       /\ \A m \in Nodes(n.left) : Less(m.key, n.key)
       /\ \A m \in Nodes(n.right) : Less(n.key, m.key)

\* A change below is in the cached hashes of every level above it.
HashesFresh ==
  \A rt \in Levels(tree) : \A n \in Nodes(rt) : n.subtree_hash = Digest(AsHashTree(n))

\* Whatever is inserted and deleted, no empty subtree is left behind and no cached
\* hash of any level is stale.
WellFormed == Ordered /\ HashesFresh

\* The witness of a path has the root hash of the tree and settles the path: it
\* shows what is there, and proves absent what is not.  Of any other path it
\* says nothing false.
WitnessSettlesPath ==
  \A p \in Paths :
    LET w == WitnessPath(tree, p)
    IN  /\ Digest(w) = ValueHash(tree)
        /\ LookupSubtree(w, p).kind = IF ContainsPath(tree, p) THEN "Found" ELSE "Absent"
        /\ ContainsPath(tree, p) => LookupSubtree(w, p) = LookupSubtree(ValueAsHashTree(tree), p)
        /\ \A q \in Paths :
             LET found == LookupPath(w, q)
             IN  /\ found.kind = "Found"  => found.node = Leaf(GetPath(tree, q))
                 /\ found.kind = "Absent" => ~ContainsLeaf(tree, q)

\* Any two witnesses merge into one that settles both paths.
MergeSettlesBoth ==
  \A p, q \in Paths :
    LET w == MergeHashTrees(WitnessPath(tree, p), WitnessPath(tree, q))
    IN  /\ ~HasPanic(w) /\ Digest(w) = ValueHash(tree)
        /\ \A r \in {p, q} :
             LookupSubtree(w, r).kind = IF ContainsPath(tree, r) THEN "Found" ELSE "Absent"

\* Witnesses, merged or not, settle the paths they are made for.
WitnessesSettle == WitnessSettlesPath /\ MergeSettlesBoth

-----------------------------------------------------------------------------
Map == INSTANCE PathMap WITH at <- [p \in Paths |-> GetPath(tree, p)]

\* Operation by operation the tree is a map from paths to values: an insert drops
\* a leaf above its path or a subtree below it and nothing else, and a delete
\* drops the whole of what is at its path and nothing else.
ImplementsPathMap == Map!PathMapSpec
=============================================================================
