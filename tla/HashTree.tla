------------------------------ MODULE HashTree ------------------------------
(***************************************************************************)
(* Hash trees of ic-certification (hash_tree/mod.rs): the trees a canister *)
(* hands out as witnesses and a verifier looks paths up in, and the merge  *)
(* of two witnesses of one tree (nested_rb_tree.rs).                       *)
(*                                                                         *)
(* SHA-256 is taken to be injective: a hash is the term it was computed    *)
(* from, so Pruned(h) still says which tree it stands for and two hashes   *)
(* are equal only when they hash the same thing.  Definitions here are     *)
(* recursive over trees and are evaluated by TLC only.                     *)
(***************************************************************************)
EXTENDS Naturals, Sequences

CONSTANT Less(_, _)  \* the order of labels (byte strings, compared as slices)

(***************************************************************************)
(* Hashes and nodes.                                                       *)
(***************************************************************************)
EmptyHash         == <<"#empty">>
ForkHash(l, r)    == <<"#fork", l, r>>
LabeledHash(k, h) == <<"#labeled", k, h>>
LeafHash(v)       == <<"#leaf", v>>

Empty         == <<"empty">>
Fork(l, r)    == <<"fork", l, r>>
Labeled(k, n) == <<"labeled", k, n>>
Leaf(v)       == <<"leaf", v>>
Pruned(h)     == <<"pruned", h>>

Is(kind, n) == n[1] = kind

RECURSIVE Digest(_)
Digest(n) ==
  CASE Is("empty", n)   -> EmptyHash
    [] Is("fork", n)    -> ForkHash(Digest(n[2]), Digest(n[3]))
    [] Is("labeled", n) -> LabeledHash(n[2], Digest(n[3]))
    [] Is("leaf", n)    -> LeafHash(n[2])
    [] Is("pruned", n)  -> n[2]

(***************************************************************************)
(* Lookups.  LookupLabel answers with the kind of the result and, when     *)
(* Found, the node under the label.                                        *)
(***************************************************************************)
Answer(kind) == [kind |-> kind, node |-> Empty]

RECURSIVE LookupLabel(_, _)
\* Mutant: a label before the first one seen is absent, pruned part or not.
LookupLabelTrustsLess(n, k) ==
  CASE Is("labeled", n) ->
         IF k = n[2] THEN [kind |-> "Found", node |-> n[3]]
         ELSE Answer(IF Less(n[2], k) THEN "Greater" ELSE "Less")
    [] Is("fork", n) ->
         LET left == LookupLabel(n[2], k)
         IN  IF left.kind \in {"Greater", "Unknown"} THEN LookupLabel(n[3], k) ELSE left
    [] Is("pruned", n) -> Answer("Unknown")
    [] OTHER           -> Answer("Absent")

LookupLabel(n, k) ==
  CASE Is("labeled", n) ->
         IF k = n[2] THEN [kind |-> "Found", node |-> n[3]]
         ELSE Answer(IF Less(n[2], k) THEN "Greater" ELSE "Less")
    [] Is("fork", n) ->
         LET left  == LookupLabel(n[2], k)
             right == LookupLabel(n[3], k)
         IN  CASE left.kind = "Greater" ->
                    IF right.kind = "Less" THEN Answer("Absent") ELSE right
               [] left.kind = "Unknown" ->
                    IF right.kind = "Less" THEN Answer("Unknown") ELSE right
               [] OTHER -> left
    [] Is("pruned", n) -> Answer("Unknown")
    [] OTHER           -> Answer("Absent")

RECURSIVE LookupSubtree(_, _)
LookupSubtree(n, path) ==
  IF path = <<>> THEN [kind |-> "Found", node |-> n]
  ELSE LET at == LookupLabel(n, Head(path))
       IN  CASE at.kind = "Found"   -> LookupSubtree(at.node, Tail(path))
             [] at.kind = "Unknown" -> Answer("Unknown")
             [] OTHER               -> Answer("Absent")

\* lookup_path walks as lookup_subtree does and then asks for a leaf.
LookupPath(n, path) ==
  LET at == LookupSubtree(n, path)
  IN  IF at.kind # "Found" THEN at
      ELSE CASE Is("leaf", at.node)   -> at
             [] Is("empty", at.node)  -> Answer("Absent")
             [] Is("pruned", at.node) -> Answer("Unknown")
             [] OTHER                 -> Answer("Error")

RECURSIVE ListPathsFrom(_, _)
ListPathsFrom(n, path) ==
  CASE Is("fork", n)    -> ListPathsFrom(n[2], path) \o ListPathsFrom(n[3], path)
    [] Is("labeled", n) -> ListPathsFrom(n[3], Append(path, n[2]))
    [] Is("leaf", n)    -> <<path>>
    [] OTHER            -> <<>>

ListPaths(n) == ListPathsFrom(n, <<>>)

(***************************************************************************)
(* merge_hash_trees panics on trees that are not prunings of one tree:     *)
(* here the merge is then a node of kind "panic".                          *)
(***************************************************************************)
Panic == <<"panic">>

RECURSIVE MergeHashTrees(_, _)
\* Mutant: a pruned left side hides what the right side reveals.
MergeHashTreesKeepsPruned(l, r) ==
  CASE Is("pruned", l) -> l
    [] ~Is("pruned", l) /\ Is("pruned", r) -> l
    [] Is("fork", l) /\ Is("fork", r) ->
         Fork(MergeHashTrees(l[2], r[2]), MergeHashTrees(l[3], r[3]))
    [] Is("labeled", l) /\ Is("labeled", r) -> Labeled(l[2], MergeHashTrees(l[3], r[3]))
    [] OTHER -> l

MergeHashTrees(l, r) ==
  CASE Is("pruned", l) /\ Is("pruned", r) -> IF l = r THEN l ELSE Panic
    [] Is("pruned", l) /\ ~Is("pruned", r) -> r
    [] ~Is("pruned", l) /\ Is("pruned", r) -> l
    [] Is("fork", l) /\ Is("fork", r) ->
         Fork(MergeHashTrees(l[2], r[2]), MergeHashTrees(l[3], r[3]))
    [] Is("labeled", l) /\ Is("labeled", r) ->
         IF l[2] = r[2] THEN Labeled(l[2], MergeHashTrees(l[3], r[3])) ELSE Panic
    [] Is("empty", l) /\ ~Is("pruned", r) -> r
    [] ~Is("empty", l) /\ ~Is("pruned", l) /\ Is("empty", r) -> l
    [] Is("leaf", l) /\ Is("leaf", r) -> IF l = r THEN l ELSE Panic
    [] OTHER -> Panic

(***************************************************************************)
(* Reference notions the properties are stated with.                       *)
(***************************************************************************)
\* Every tree obtained from n by replacing subtrees with their hashes.
RECURSIVE Prunings(_)
Prunings(n) ==
  {Pruned(Digest(n))} \cup
  CASE Is("fork", n)    -> {Fork(l, r) : l \in Prunings(n[2]), r \in Prunings(n[3])}
    [] Is("labeled", n) -> {Labeled(n[2], m) : m \in Prunings(n[3])}
    [] OTHER            -> {n}

RECURSIVE HasPanic(_)
HasPanic(n) ==
  CASE Is("panic", n)   -> TRUE
    [] Is("fork", n)    -> HasPanic(n[2]) \/ HasPanic(n[3])
    [] Is("labeled", n) -> HasPanic(n[3])
    [] OTHER            -> FALSE
=============================================================================
