------------------------------ MODULE MCRbTree ------------------------------
(***************************************************************************)
(* An instance of RbTree for TLC: eight keys, enough for delete to move *)
(* red links both ways and to swap in a successor from below a rotation.   *)
(* Keys are byte strings over the bytes 1 to 3, so that some are prefixes  *)
(* of others; witnesses are looked at for six of them.                     *)
(***************************************************************************)
EXTENDS RbTree

ByteOrder(a, b) ==
  \/ IsStrictPrefix(a, b)
  \/ \E i \in 1 .. Len(a) : i <= Len(b) /\ a[i] < b[i] /\ SubSeq(a, 1, i - 1) = SubSeq(b, 1, i - 1)

SomeLabels == {<<>>, <<1>>, <<1, 1>>, <<1, 2>>, <<2>>, <<2, 1>>}
ManyLabels == SomeLabels \cup {<<1, 1, 1>>, <<3>>}

Rank == [a \in ManyLabels |-> Cardinality({b \in ManyLabels : ByteOrder(b, a)})]
InOrder(a, b) == Rank[a] < Rank[b]
=============================================================================
