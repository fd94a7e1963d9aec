----------------------- MODULE HttpCertificationTree ------------------------
(***************************************************************************)
(* HttpCertificationTree of ic-http-certification (tree/): the certified   *)
(* tree of a canister, whose entries put a certification under a path, and *)
(* the witnesses it makes for requests.                                    *)
(*                                                                         *)
(* A certification is identified by the hashes it consists of, labels      *)
(* here: cel, the hash of its CEL expression, which also decides the kind  *)
(* of the certification; req, of the request; resp, of the response.       *)
(***************************************************************************)
EXTENDS NestedTreeOps, UrlPaths

CONSTANTS
  TreeEntries,  \* the entries that are used: records of a path and a certification
  Kind(_)       \* the kind a CEL expression asks for: Skip, ResponseOnly or Full

VARIABLES
  tree,  \* the NestedTree
  call   \* the last operation, with its arguments

vars == <<tree, call>>

(***************************************************************************)
(* Where an entry lies in the tree.                                        *)
(***************************************************************************)
\* The request of a response-only certification is the empty label.
CertificationTreePath(c) ==
  CASE Kind(c.cel) = "Skip"         -> <<c.cel>>
    [] Kind(c.cel) = "ResponseOnly" -> <<c.cel, "", c.resp>>
    [] Kind(c.cel) = "Full"         -> <<c.cel, c.req, c.resp>>

\* Mutant: no segment ends the path, so certifications lie among its continuations.
EntryTreePathUnterminated(e) ==
  Segments(e.path.url) \o CertificationTreePath(e.certification)

EntryTreePath(e) == ToTreePath(e.path) \o CertificationTreePath(e.certification)

(***************************************************************************)
(* The operations.                                                         *)
(***************************************************************************)
InsertEntry(e) ==
  /\ call' = <<"insert", Place(e.path), e.certification>>
  /\ tree' = InsertPath(tree, EntryTreePath(e), "")

DeleteEntry(e) ==
  /\ call' = <<"delete", Place(e.path), e.certification>>
  /\ tree' = DeletePath(tree, EntryTreePath(e))

DeleteByPath(path) ==
  /\ call' = <<"delete_by_path", Place(path)>>
  /\ tree' = DeletePath(tree, ToTreePath(path))

ClearTree ==
  /\ call' = <<"clear">>
  /\ tree' = EmptyTree

Init == tree = EmptyTree /\ call = <<"new">>

Next ==
  \/ \E e \in TreeEntries : InsertEntry(e) \/ DeleteEntry(e) \/ DeleteByPath(e.path)
  \/ ClearTree

Spec == Init /\ [][Next]_vars

View == tree

-----------------------------------------------------------------------------
(***************************************************************************)
(* root_hash and witness.  The witness of an entry for a request is an     *)
(* error, None, if its wildcard path is longer than the request's.         *)
(***************************************************************************)
CertifiedData == LabeledHash(PathPrefix, ValueHash(tree))

\* Mutant: the witness of a wildcard does not prove longer wildcards absent.
WitnessForNoMoreSpecific(e, url) ==
  LET requested  == ToTreePath([exact |-> TRUE, url |-> url])
      responding == ToTreePath(e.path)
  IN  IF e.path.exact THEN Labeled(PathPrefix, WitnessPath(tree, EntryTreePath(e)))
      ELSE IF Len(responding) > Len(requested) THEN None
      ELSE Labeled(PathPrefix, MergeHashTrees(WitnessPath(tree, requested),
                                              WitnessPath(tree, responding)))

WitnessFor(e, url) ==
  LET requested  == ToTreePath([exact |-> TRUE, url |-> url])
      responding == ToTreePath(e.path)
      shown      == <<requested, responding>> \o MoreSpecificWildcardsFor(requested, responding)
      witnesses  == [i \in DOMAIN shown |-> WitnessPath(tree, shown[i])]
  IN  IF e.path.exact THEN Labeled(PathPrefix, WitnessPath(tree, EntryTreePath(e)))
      ELSE IF Len(responding) > Len(requested) THEN None
      ELSE Labeled(PathPrefix, FoldLeft(MergeHashTrees, Head(witnesses), Tail(witnesses)))

-----------------------------------------------------------------------------
RECURSIVE Nodes(_)
Nodes(n) == IF n = None THEN {} ELSE {n} \cup Nodes(n.left) \cup Nodes(n.right)

\* The paths from the root of a nested tree to its leaves.
RECURSIVE LeafPaths(_)
LeafPaths(t) ==
  IF ~t.nested THEN {<<>>}
  ELSE UNION {{<<n.key>> \o p : p \in LeafPaths(n.value)} : n \in Nodes(t.data)}

StoredEntries == UNION {{e \in TreeEntries : EntryTreePath(e) = p} : p \in LeafPaths(tree)}

Set == INSTANCE CertificationSet WITH
  Pairs     <- {<<Place(e.path), e.certification>> : e \in TreeEntries},
  certified <- {<<Place(e.path), e.certification>> : e \in StoredEntries}

\* Entry by entry the tree is a set of certifications under places: no insertion
\* covers another entry and no deletion takes one with it, whether their paths
\* continue one another, differ in the slash at the end or are spelt differently.
ImplementsSet == Set!SetSpec
=============================================================================
