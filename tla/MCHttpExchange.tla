--------------------------- MODULE MCHttpExchange ---------------------------
(***************************************************************************)
(* Cases of every kind of expression, with headers that occur twice, that  *)
(* are spelt differently and that do not count, and requests that differ   *)
(* from the certified ones in what counts or does not.                     *)
(***************************************************************************)
EXTENDS HttpExchange

Lower == ("ETag" :> "etag") @@ ("X-A" :> "x-a") @@ ("Q" :> "q") @@ ("Location" :> "location")
           @@ ("Content-Encoding" :> "content-encoding") @@ (CertificateHeaderName :> "ic-certificate")
           @@ (CertificateExpressionHeaderName :> "ic-certificateexpression")

MCLowerCase(name) == IF name \in DOMAIN Lower THEN Lower[name] ELSE name

MCPercentDecoded(part) == CASE part = "a%2Fb" -> <<"a", "b">> [] part = "%61" -> <<"a">> [] OTHER -> <<part>>

PathA  == <<"", "a">>
PathAD == <<"", "a", "">>
PathB  == <<"", "b">>
PathC  == <<"", "c">>
Paths  == <<PathA, PathB, IndexPath>>

MCLabelBefore(p, q) ==
  \E i, j \in DOMAIN Paths : Paths[i] = p /\ Paths[j] = q /\ i < j

Assets == INSTANCE HashTree WITH Less <- MCLabelBefore

MCLookupAsset(tree, path) ==
  LET at == Assets!LookupPath(tree, <<path>>)
  IN  [kind |-> at.kind, body |-> IF at.kind = "Found" THEN at.node[2] ELSE None]

MCAssetDigest(tree) == Assets!Digest(tree)

MCInflate(body, encoding) == IF encoding = "gzip" /\ body = "page.gz" THEN {"page"} ELSE {}

-----------------------------------------------------------------------------
Listed   == ResponseOnly(CertifiedResponseHeaders(<<"ETag">>))
Excluded == ResponseOnly(ResponseHeaderExclusions(<<"x-a">>))
Whole    == Full(RequestCertification(<<"X-A">>, <<"q">>), ResponseHeaderExclusions(<<"x-a">>))

Cel(e) == <<CertificateExpressionHeaderName, CreateDefaultCelExpr(e)>>

WithQuery(parameters) == Url(PathB, <<parameters>>)

Q1 == Parameter("q", "1")
P2 == Parameter("p", "2")
Q3 == Parameter("Q", "3")

RequestA == BuildRequest(Get(Url(PathA, <<>>)))
RequestC == BuildRequest(Get(Url(PathC, <<>>)))
RequestB == BuildRequest(WithHeaders(Get(WithQuery(<<Q1, P2, Q3>>)), << <<"x-a", "1">> >>))
PostB    == BuildRequest(WithBody(Post(WithQuery(<<P2>>)), "page"))

Case(exact, url, e, q, r, hash) ==
  [path |-> [exact |-> exact, url |-> url], expression |-> e, request |-> q, response |-> BuildResponse(r), bodyHash |-> hash]

\* What the constructors make that are not used below.
OtherResponses ==
  LET headers == <<Cel(Excluded)>>
  IN  {Created("page", headers), NoContent(headers), NotModified(headers), TemporaryRedirect("/a", headers),
       BadRequest("other", headers), Unauthorized("", headers), Forbidden("", headers), MethodNotAllowed("", headers),
       InternalServerError("other", headers), WithUpgrade(BuilderFrom(BuildResponse(OK("page", headers))), TRUE)}

MCCases ==
  {Case(TRUE, PathA, Listed, RequestA, OK("page", <<Cel(Listed), <<"ETag", "1">>, <<"x-a", "1">> >>), <<"page">>),
   Case(TRUE, PathAD, Excluded, RequestA, MovedPermanently("/a", <<Cel(Excluded), <<"X-A", "1">> >>), <<>>),
   Case(TRUE, PathB, Whole, RequestB, NotFound("other", <<Cel(Whole), <<"etag", "1">>, <<"etag", "1">> >>), <<>>),
   Case(TRUE, PathB, Whole, PostB, TooManyRequests("", <<Cel(Whole)>>), <<>>),
   Case(FALSE, <<"">>, Skip, RequestA, WithHeaders(NewResponse, <<Cel(Skip)>>), <<>>),
   Case(TRUE, PathC, Listed, RequestC, OK("page", <<>>), <<>>),
   Case(TRUE, PathC, Listed, RequestC, NoContent(<<Cel(Listed), Cel(Listed)>>), <<>>),
   Case(TRUE, PathC, Listed, RequestC, NotModified(<<Cel(Whole)>>), <<>>)}
    \cup {Case(TRUE, PathC, Excluded, RequestC, r, <<>>) : r \in OtherResponses}

MCUncertified ==
  {BuildResponse(WithBody(NewResponse, "page")), BuildResponse(NotFound("", <<Cel(Listed), <<"ETag", "1">> >>))}

MCRequests ==
  {RequestA, RequestB, PostB, BuildRequest(NewRequest), BuildRequest(Get(MalformedUrl)),
   BuildRequest(Get(Url(PathAD, <<>>))), BuildRequest(Delete(Url(<<"", "%61">>, <<>>))),
   BuildRequest(Get(Url(<<"", "a%2Fb">>, <<>>))), RequestC,
   BuildRequest(WithHeaders(Get(WithQuery(<<Q1, Q3>>)), << <<"etag", "1">>, <<"X-A", "1">> >>)),
   BuildRequest(WithHeaders(Get(WithQuery(<<Q3, P2, Q1>>)), << <<"x-a", "1">> >>)),
   BuildRequest(Get(WithQuery(<<Q1, P2, Q3>>))),
   BuildRequest(WithBody(Put(Url(PathB, <<>>)), "page")),
   BuildRequest(WithBody(Patch(Url(PathB, <<>>)), "page")),
   BuildRequest(WithCertificateVersion(WithBody(Post(Url(PathB, <<>>)), "page"), 2))}

MCBodies        == (PathA :> "page") @@ (PathB :> "page.gz") @@ (IndexPath :> "page")
MCBodyEncodings == (PathB :> "gzip") @@ (IndexPath :> "br")

MCEmptyAssets == Assets!Empty

Tree(p) == Assets!Labeled(p, Assets!Leaf(MCBodies[p]))

MCAssetTree == Assets!Fork(Assets!Fork(Tree(PathA), Tree(PathB)), Tree(IndexPath))

MCOtherHeaders ==
  {<<"etag", "1">>, <<"X-A", "2">>, <<":ic-cert-status", "200">>, <<"content-encoding", "gzip">>, <<"Content-Encoding", "deflate">>,
   Cel(Listed), Cel(Skip), <<CertificateExpressionHeaderName, <<"headers">> >>, <<CertificateHeaderName, <<>> >>,
   <<CertificateHeaderName, <<[name |-> "expr_path", value |-> Place([exact |-> TRUE, url |-> PathA])],
                              [name |-> "version", value |-> 2]>> >>}

Hidden(n) == Assets!Pruned(Assets!Digest(n))

\* Any of the bodies left out, one with its label still shown, or all of them.
MCWitnesses ==
  {Assets!Fork(Assets!Fork(a, b), i) :
     a \in {Tree(PathA), Hidden(Tree(PathA)), Assets!Labeled(PathA, Hidden(Assets!Leaf(MCBodies[PathA])))},
     b \in {Tree(PathB), Hidden(Tree(PathB))}, i \in {Tree(IndexPath), Hidden(Tree(IndexPath))}}
    \cup {Hidden(MCAssetTree)}

\* Nothing but the time; a canister, but another one; and not even a time.
MCCustomTrees == {TimePath :> Now, (TimePath :> Now) @@ (CertifiedDataPath(2) :> Garbled), PublicKeyPath(1) :> "key"}

\* A subnet of the canister and others, and one of others.
MCSubnets == (1 :> {<<0, 0>>, <<1, 3>>}) @@ (2 :> {<<0, 0>>, <<2, 3>>})
=============================================================================
