------------------------------- MODULE RbTree -------------------------------
(***************************************************************************)
(* The certified map of ic-certification as a state machine: one tree that *)
(* is inserted into, deleted from and modified in any order, and what must *)
(* hold of it and of every witness it gives out after any such history.    *)
(***************************************************************************)
EXTENDS RbTreeOps

CONSTANTS
  Keys,    \* the keys that are used
  Labels,  \* a bound: witnesses are looked at of trees that hold these keys only
  Values   \* the leaf values that are stored

ASSUME LabelsAssumption == Labels \subseteq Keys

VARIABLES
  root,
  call  \* the last operation, with its arguments

vars == <<root, call>>

InsertKey(k, v) ==
  /\ call' = <<"insert", k, v>>
  /\ root' = Insert(root, k, LeafValue(v))

DeleteKey(k) ==
  /\ call' = <<"delete", k>>
  /\ root' = Delete(root, k)

ModifyKey(k, v) ==
  /\ call' = <<"modify", k, v>>
  /\ root' = Modify(root, k, LeafValue(v))

Init == root = None /\ call = <<"new">>

Next ==
  \/ \E k \in Keys, v \in Values : InsertKey(k, v)
  \/ \E k \in Keys : DeleteKey(k)
  \/ \E k \in Keys, v \in Values : ModifyKey(k, v)

Spec == Init /\ [][Next]_vars

\* The last operation is there for ImplementsMap; nothing else depends on it.
View == root

-----------------------------------------------------------------------------
(***************************************************************************)
(* The tree itself.                                                        *)
(***************************************************************************)
RECURSIVE Nodes(_)
Nodes(n) == IF n = None THEN {} ELSE {n} \cup Nodes(n.left) \cup Nodes(n.right)

\* Every node is a node, and every key below it is on its side of it.
Ordered ==
  \A n \in Nodes(root) :
     /\ n.key \in Keys
     /\ n.value \in {LeafValue(v) : v \in Values}
     /\ n.red \in BOOLEAN
     /\ \A m \in Nodes(n.left) : Less(m.key, n.key)
     /\ \A m \in Nodes(n.right) : Less(n.key, m.key)

RECURSIVE BlackHeights(_)
BlackHeights(n) ==
  IF n = None THEN {0}
  ELSE {h + (IF n.red THEN 0 ELSE 1) : h \in BlackHeights(n.left) \cup BlackHeights(n.right)}

\* After any history every path from the root crosses as many black nodes, a
\* red node has black children, the root is black and red links lean left:
\* what the comment on Node and is_balanced ask of insert and delete.
Balanced ==
  /\ ~IsRed(root)
  /\ \A h, g \in BlackHeights(root) : h = g
  /\ \A n \in Nodes(root) : ~IsRed(n.right) /\ (n.red => ~IsRed(n.left))

\* No rotation, colour flip, swap or in-place change leaves a cached hash behind:
\* every node's subtree_hash is the digest of the hash tree of its subtree.
HashesFresh ==
  \A n \in Nodes(root) : n.subtree_hash = Digest(AsHashTree(n))

\* What get returns for each key.
Contents ==
  [k \in Keys |-> LET v == Get(root, k) IN IF v = None THEN None ELSE v.data]

\* The iterator, which walks the tree with a stack and no parent links, returns
\* every entry once and in the order of the keys, as list_paths does on the hash tree.
\* A tree collected from them, which may have another shape, equals this one.
IterationInOrder ==
  LET es == Entries(root)
  IN  /\ \A i \in 1 .. Len(es) - 1 : Less(es[i][1], es[i + 1][1])
      /\ ListPaths(AsHashTree(root)) = [i \in DOMAIN es |-> <<es[i][1]>>]
      /\ ToSet(es) = {<<k, LeafValue(Contents[k])>> : k \in {j \in Keys : Contents[j] # None}}
      /\ SameEntries(FromEntries(es), root)

\* After any history of inserts, deletes and modifications the tree is in order, in
\* balance and iterated in order, and no cached hash in it is stale.
WellFormed == Ordered /\ Balanced /\ HashesFresh /\ IterationInOrder

-----------------------------------------------------------------------------
(***************************************************************************)
(* Witnesses, of the trees that hold Labels only.                          *)
(***************************************************************************)
OverLabels == {n.key : n \in Nodes(root)} \subseteq Labels

\* A tree with the root hash of the map that says nothing false of any key.
Truthful(w) ==
  /\ Digest(w) = RootHash(root)
  /\ \A k \in Labels :
       LET at == LookupPath(w, <<k>>)
       IN  /\ at.kind = "Found"  => at.node = Leaf(Contents[k])
           /\ at.kind = "Absent" => Contents[k] = None
           /\ at.kind # "Error"

\* The witness of a key has the certified root hash, settles that key (its
\* value, or that it is absent) and is never wrong about another one.
WitnessSettlesKey == OverLabels =>
  \A k \in Labels :
    LET w == Witness(root, k)
    IN  Truthful(w) /\ LookupPath(w, <<k>>).kind # "Unknown"

\* The keys a witness shows as labels.
RECURSIVE Shown(_)
Shown(w) ==
  CASE Is("fork", w)    -> Shown(w[2]) \cup Shown(w[3])
    [] Is("labeled", w) -> {w[2]}
    [] OTHER            -> {}

Ranges == {r \in Labels \X Labels : ~Less(r[2], r[1])}

InRange(k, first, last) == ~Less(k, first) /\ ~Less(last, k)

\* A range witness shows every key of the range and proves every other key of
\* the range absent, and value_range shows the value of every key of the range.
RangesComplete == OverLabels =>
  \A <<first, last>> \in Ranges :
    LET kr == KeyRange(root, first, last)
        vr == ValueRange(root, first, last)
    IN  /\ Truthful(kr) /\ Truthful(vr)
        /\ \A k \in {j \in Labels : InRange(j, first, last)} :
             IF Contents[k] = None
             THEN /\ LookupPath(kr, <<k>>).kind = "Absent"
                  /\ LookupPath(vr, <<k>>).kind = "Absent"
             ELSE k \in Shown(kr) /\ LookupPath(vr, <<k>>).kind = "Found"

\* value_range reveals no value outside the range asked for.
RangesReveal == OverLabels =>
  \A <<first, last>> \in Ranges, k \in Labels :
    LookupPath(ValueRange(root, first, last), <<k>>).kind = "Found"
      => InRange(k, first, last)

\* keys() shows every key, and keys_with_prefix shows every key with the prefix
\* and proves every other key with the prefix absent.
PrefixesComplete == OverLabels =>
  /\ Truthful(WitnessKeys(root)) /\ Shown(WitnessKeys(root)) = {k \in Labels : Contents[k] # None}
  /\ \A p \in Labels :
       LET w == KeysWithPrefix(root, p)
       IN  /\ Truthful(w)
           /\ \A k \in {j \in Labels : IsPrefix(p, j)} :
                IF Contents[k] = None THEN LookupPath(w, <<k>>).kind = "Absent"
                ELSE k \in Shown(w)

\* Every witness of a range of keys or values, of a prefix and of all keys proves all
\* that it is asked for.
RangesSettled == RangesComplete /\ PrefixesComplete

\* However much of the hash tree is pruned away, a lookup is never wrong: what
\* it finds is there, and what it says is absent is not.
PruningNeverLies == OverLabels => \A w \in Prunings(AsHashTree(root)) : Truthful(w)

-----------------------------------------------------------------------------
Map == INSTANCE OrderedMap WITH map <- Contents

\* Insert, delete and modify change what get returns for their own key, and for
\* that key only, in every tree they can meet and whatever they rotate.
ImplementsMap == Map!MapSpec
=============================================================================
