--------------------------- MODULE MCWireFormats ----------------------------
(***************************************************************************)
(* Messages of every format and of every kind of node and expression, with *)
(* lengths that take none, one and two bytes to state.  Bytes that stand   *)
(* in for others are heads of every type and argument, and bytes that are  *)
(* no UTF-8.  A map of more than 255 pairs does not occur.                 *)
(***************************************************************************)
EXTENDS WireFormats

Before(a, b) == a[1] < b[1]

Times(n, byte) == [i \in 1 .. n |-> byte]

Digest1 == Times(DigestLength, 7)

Witness ==
  Fork(Fork(Labeled(<<97>>, Leaf(<<1, 2>>)), Pruned(Digest1)), Labeled(<<>>, Fork(Empty, Leaf(<<>>))))

Trees == {Empty, Witness, Leaf(Times(30, 5)), Labeled(<<98>>, Leaf(Times(260, 5)))}

Paths == {<<>>, << <<104>>, <<97, 98>>, <<>>, <<36>> >>, <<Times(24, 97), <<42>> >>}

Certificate(delegation) ==
  [tree |-> Fork(Labeled(<<97>>, Leaf(<<1>>)), Pruned(Digest1)), signature |-> <<9, 9>>, delegation |-> delegation]

Certificates ==
  {Certificate(<<>>), Certificate(<<[subnet_id |-> <<1>>, certificate |-> <<161, 0, 0>>]>>)}

RangeLists == {<<>>, << << <<1>>, <<2, 3>> >>, << <<4>>, <<4>> >> >>}

Responses ==
  {CertifiedResponseHeaders(h) : h \in {<<>>, <<"etag">>, <<"x-a", "etag">>}}
    \cup {ResponseHeaderExclusions(h) : h \in {<<>>, <<"x-a">>, <<"x_b">>}}

RequestParts ==
  {DefaultRequestCertification, RequestCertification(<<"x-a">>, <<"q", "etag">>), RequestCertification(<<>>, <<"x_b">>),
   RequestCertification(<<"x-a", "x-a">>, <<"">>)}

Expressions == {Skip} \cup {ResponseOnly(r) : r \in Responses} \cup {Full(q, r) : q \in RequestParts, r \in Responses}

AllOf(format, values) == {[format |-> format, value |-> v] : v \in values}

Messages ==
  AllOf("tree", Trees) \cup AllOf("expr_path", Paths) \cup AllOf("certificate", Certificates)
    \cup AllOf("ranges", RangeLists) \cup AllOf("cel", Expressions)
    \cup AllOf("header", [certificate : {"C"}, tree : {"T"}, expr_path : {"P"}, version : {2}])

FieldValues == ("certificate" :> {"C", "D"}) @@ ("tree" :> {"T"}) @@ ("expr_path" :> {"P"})
SomeText    == {"certificate", "tree", "expr_path", "version", "=", ":", ",", " ", "C", "D", "T", "P"}

SomeBytes == {0, 1, 2, 3, 4, 5, 24, 25, 56, 64, 65, 66, 88, 96, 97, 100, 115, 128, 129, 130, 131, 160, 161, 162, 193, 216, 246, 255}

SomeTokens ==
  Punctuation \cup {"x-a", "etag", "x_b", "headers", "certified_response_headers", "response_header_exclusions",
                    "no_certification", "certification", "no_request_certification", "request_certification", "Empty"}
=============================================================================
