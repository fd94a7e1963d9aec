-------------------------- MODULE MCCertifiedHttp ---------------------------
(***************************************************************************)
(* Instances of CertifiedHttp for TLC.  Labels are strings in the order of *)
(* their bytes; the hashes in an entry are named for what they hash.       *)
(***************************************************************************)
EXTENDS CertifiedHttp

LabelOrder ==
  <<"", "<$>", "<*>", "a", "b", "full", "http_expr", "only", "req1", "resp1", "resp2",
    "skip">>

Rank == [l \in ToSet(LabelOrder) |-> CHOOSE i \in DOMAIN LabelOrder : LabelOrder[i] = l]

LabelLess(a, b) == Rank[a] < Rank[b]

MCKind(cel) ==
  CASE cel = "skip" -> "Skip" [] cel = "only" -> "ResponseOnly" [] cel = "full" -> "Full"

Root == <<"", "">>       \* "/"
A    == <<"", "a">>      \* "/a"
ADir == <<"", "a", "">>  \* "/a/"
AB   == <<"", "a", "b">>           \* "/a/b"
ABx2 == <<"", "a", "", "b">>       \* "/a//b"
ABDir == <<"", "a", "b", "">>      \* "/a/b/"
ABA  == <<"", "a", "b", "a">>      \* "/a/b/a"
B    == <<"", "b">>      \* "/b"
NoUrl == <<"">>          \* the empty string

Exactly(url) == [exact |-> TRUE, url |-> url]
Wildcard(url) == [exact |-> FALSE, url |-> url]

Full(req, resp) == [cel |-> "full", req |-> req, resp |-> resp]
Only(resp) == [cel |-> "only", req |-> "", resp |-> resp]
Skip == [cel |-> "skip", req |-> "", resp |-> ""]

At(path, c) == [path |-> path, certification |-> c]

ManyEntries ==
  {At(Exactly(A), Full("req1", "resp1")), At(Exactly(A), Full("req1", "resp2")),
   At(Exactly(ADir), Only("resp1")), At(Exactly(ABx2), Only("resp1")), At(Exactly(AB), Only("resp1")),
   At(Wildcard(NoUrl), Skip), At(Wildcard(Root), Only("resp2")), At(Wildcard(A), Only("resp1")),
   At(Wildcard(ADir), Only("resp2")), At(Wildcard(AB), Skip)}

ManyUrls == {Root, A, ADir, AB, ABx2, ABDir, ABA, B}

ManyPaths == {e.path : e \in ManyEntries}

FewUrls == {A, ADir, AB, B}
=============================================================================
