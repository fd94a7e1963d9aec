---------------------------- MODULE HttpExchange ----------------------------
(***************************************************************************)
(* A request, the response of a canister that certified it, what may       *)
(* become of the response on the way, and the verifier, as JavaScript      *)
(* calls it.                                                               *)
(*                                                                         *)
(* The canister certifies a number of cases, each a path, an expression, a *)
(* request and a response, and answers with any whose path answers the     *)
(* request; a canister that skips certification answers as it likes; one   *)
(* that keeps to version 1 certifies bodies.  Its certificate is one that  *)
(* the certificate builder makes.                                          *)
(***************************************************************************)
EXTENDS HttpVerification, CertificateBuilder

CONSTANTS
  Cases,         \* what the canister certifies
  Uncertified,   \* the responses of a canister that skips certification
  Bodies,        \* the bodies it certifies for version 1, by URL path
  BodyEncodings, \* the encodings it sends them in
  AssetTree,     \* the hash tree of these bodies
  EmptyAssets,   \* that of none
  Witnesses,     \* which it shows with some of it left out
  Requests,      \* the requests of the client
  OtherCodes,    \* what may come instead of a status,
  OtherBodies,   \* of a body,
  OtherHeaders,  \* in addition to the headers,
  Spellings,     \* and instead of the name of a header
  CustomTrees,   \* the contents of certificates that say nothing of the canister
  Subnets,       \* the canister ranges of subnets, by subnet
  Times,         \* the times of certificates in nanoseconds
  TimesJs,       \* and in milliseconds
  Now, Offset,   \* the time of the verifier, and how far that of a certificate may be from it
  MaxEdits       \* a bound on how often the certificate or the response is changed

Canister == 1

VARIABLES
  builder,   \* the builder of the certificate
  skips,     \* whether the canister skips certification
  request,   \* what the client asks
  response,  \* the response on its way, once there is one
  edits      \* how often it was changed

ASSUME WitnessAssumption == \A w \in Witnesses : AssetDigest(w) = AssetDigest(AssetTree)

\* A header that anyone may add: it brings no certificate that decodes.
BringsNoCertificate(h) ==
  /\ h = <<h[1], h[2]>>
  /\ LowerCase(h[1]) = "ic-certificate" => FirstField(h[2], "certificate") \in {None, Garbled}

IsResponse(r) ==
  /\ r = [status_code |-> r.status_code, headers |-> r.headers, body |-> r.body, upgrade |-> r.upgrade]
  /\ IsStatusCode(r.status_code)
  /\ r.headers \in Seq({h \in ToSet(r.headers) : BringsNoCertificate(h)})

IsRequest(q) ==
  /\ q.headers \in Seq(ToSet(q.headers))
  /\ \A path \in ToSet(GetPath(q)) : path \in Seq(ToSet(path))
  /\ \/ q.url.query = <<>>
     \/ q.url.query = <<q.url.query[1]>> /\ q.url.query[1] \in Seq(ToSet(q.url.query[1]))

\* An expression that is read as it was written, and that lists no header by a name that
\* none can have, those which stand for the method and for the query in a hash.
IsExpression(e) ==
  /\ ReadCel(CreateDefaultCelExpr(e)) = {e}
  /\ e.kind \in {"Skip", "ResponseOnly", "Full"}
  /\ e.kind = "Full" =>
       \A n \in ToSet(e.request.headers) : LowerCase(n) \notin {":ic-cert-method", ":ic-cert-query"}

\* A hash of a body that is given to certify a response is that of its body.  Of a
\* response to skip nothing makes sure that the expression stands in it.
ASSUME MessageAssumption ==
  /\ \A c \in Cases :
       /\ IsRequest(c.request) /\ IsResponse(c.response)
       /\ c.bodyHash \in {<<>>, <<c.response.body>>}
       /\ c.expression.kind = "Skip" => ValidateResponse(c.response, CreateDefaultCelExpr(c.expression))
  /\ \A e \in {Skip} \cup {c.expression : c \in Cases} : IsExpression(e)
  /\ \A q \in Requests : IsRequest(q)
  /\ \A r \in Uncertified : IsResponse(r)
  /\ \A h \in OtherHeaders : BringsNoCertificate(h)

ASSUME NameAssumption ==
  /\ LowerCase(CertificateHeaderName) = "ic-certificate"
  /\ LowerCase(CertificateExpressionHeaderName) = "ic-certificateexpression"
  /\ LowerCase("Content-Encoding") = "content-encoding"

ASSUME BodyAssumption ==
  /\ IndexPath \in DOMAIN Bodies
  /\ \A p \in DOMAIN BodyEncodings : p \in DOMAIN Bodies /\ DecodeBody(Bodies[p], BodyEncodings[p]) # {}

\* What a tree shows for a path that may be asked for is the body that is certified for
\* it; and what a witness shows to be absent is not certified.
ASSUME LookupAssumption ==
  LET Asked == {IndexPath} \cup UNION {ToSet(GetPath(q)) : q \in Requests}
  IN  /\ \A tree \in {AssetTree, EmptyAssets} \cup Witnesses : \A p \in Asked :
           LookupAsset(tree, p).kind = "Found" => p \in DOMAIN Bodies /\ LookupAsset(tree, p).body = Bodies[p]
      /\ \A w \in Witnesses : \A p \in Asked : LookupAsset(w, p).kind = "Absent" => p \notin DOMAIN Bodies

ASSUME BuilderAssumption ==
  /\ Times \subseteq Nat /\ TimesJs \subseteq Nat /\ Now \in Nat /\ Offset \in Nat
  /\ \A subnet \in DOMAIN Subnets : Subnets[subnet] \subseteq Int \X Int
  /\ \A contents \in CustomTrees : CertifiedDataPath(Canister) \notin DOMAIN contents

vars == <<builder, skips, request, response, edits>>

-----------------------------------------------------------------------------
(***************************************************************************)
(* The canister.                                                           *)
(***************************************************************************)
\* The certification of a case, or none.
Certification(c) ==
  CASE c.expression.kind = "Skip"         -> <<SkipCertification>>
    [] c.expression.kind = "ResponseOnly" -> ResponseOnlyCertification(c.expression, c.response, c.bodyHash)
    [] c.expression.kind = "Full"         -> FullCertification(c.expression, c.request, c.response, c.bodyHash)

CertifiedCases == {c \in Cases : Certification(c) # <<>>}

CertifiedTree ==
  [http_expr   |-> {<<Place(c.path), Certification(c)[1]>> : c \in CertifiedCases},
   http_assets |-> AssetTree]

SkippingTree == [http_expr |-> SkipCertificationTree, http_assets |-> EmptyAssets]

CanisterTree == IF skips THEN SkippingTree ELSE CertifiedTree

Root == Build(builder).root_key

Certificate == Build(builder).certificate

Places == {pc[1] : pc \in CanisterTree.http_expr}

WellFormed == ~request.url.malformed

PathOf == GetPath(request)[1]

Init ==
  /\ skips \in BOOLEAN
  /\ \/ builder = NewBuilder(Canister, RootHash(CanisterTree))
     \/ \E contents \in CustomTrees : builder = FromCustomTree(contents)
  /\ request \in Requests
  /\ response = <<>>
  /\ edits = 0

\* In how many ways the certificate is not the one of the canister alone.
Settings(b) ==
  Cardinality({f \in {"time", "subnet", "nested_subnet", "signature", "custom_tree"} : b[f] # None})

SetBuilder(changed) ==
  /\ response = <<>>
  /\ Settings(changed) <= MaxEdits
  /\ builder' = changed
  /\ UNCHANGED <<skips, request, response, edits>>

Prepare ==
  \/ \E subnet \in DOMAIN Subnets :
       \/ SetBuilder(WithDelegation(builder, subnet, Subnets[subnet]))
       \/ SetBuilder(WithNestedDelegation(builder, subnet, Subnets[subnet]))
  \/ \E ns \in Times : SetBuilder(WithTime(builder, ns))
  \/ \E ms \in TimesJs : SetBuilder(WithTimeJs(builder, ms))
  \/ SetBuilder(WithInvalidSignature(builder))

Answer(c) ==
  /\ response = <<>> /\ ~skips /\ WellFormed
  /\ Answers(Place(c.path), PathOf) /\ ~Outdone(Places, Place(c.path), PathOf)
  /\ response' = <<AddV2CertificateHeader(c.response, Certificate, CertifiedTree, Place(c.path))>>
  /\ UNCHANGED <<builder, skips, request, edits>>

AnswerSkipping(r) ==
  /\ response = <<>> /\ skips
  /\ response' = <<AddSkipCertificationHeader(r, Certificate, SkippingTree)>>
  /\ UNCHANGED <<builder, skips, request, edits>>

\* With parts of the tree of bodies left out.  The header states no version.
AnswerVersion1(witness) ==
  LET path     == IF PathOf \in DOMAIN Bodies THEN PathOf ELSE IndexPath
      header   == <<[name |-> "certificate", value |-> Certificate],
                    [name |-> "tree", value |-> [CertifiedTree EXCEPT !.http_assets = witness]]>>
      encoding == IF path \in DOMAIN BodyEncodings THEN << <<"Content-Encoding", BodyEncodings[path]>> >> ELSE <<>>
  IN  /\ response = <<>> /\ ~skips /\ WellFormed
      /\ response' = <<AddHeader(BuildResponse(OK(Bodies[path], encoding)), <<CertificateHeaderName, header>>)>>
      /\ UNCHANGED <<builder, skips, request, edits>>

-----------------------------------------------------------------------------
(***************************************************************************)
(* The way to the verifier.                                                *)
(***************************************************************************)
Edited(changed) ==
  /\ response # <<>> /\ Settings(builder) + edits < MaxEdits
  /\ response' = <<changed>>
  /\ edits' = edits + 1
  /\ UNCHANGED <<builder, skips, request>>

SetStatus(code)       == Edited([response[1] EXCEPT !.status_code = code])
SetBody(body)         == Edited([response[1] EXCEPT !.body = body])
SetUpgrade            == Edited([response[1] EXCEPT !.upgrade = <<TRUE>>])
PrependHeader(header) == Edited([response[1] EXCEPT !.headers = <<header>> \o @])
AppendHeader(header)  == Edited(AddHeader(response[1], header))
DropHeader(i)         == Edited([response[1] EXCEPT !.headers = RemoveAt(@, i)])

SwapHeaders(i) ==
  LET headers == response[1].headers
  IN  Edited([response[1] EXCEPT !.headers[i] = headers[i + 1], !.headers[i + 1] = headers[i]])

Respell(i, name) ==
  /\ EqualIgnoringCase(name, response[1].headers[i][1])
  /\ Edited([response[1] EXCEPT !.headers[i][1] = name])

Next ==
  \/ Prepare
  \/ \E c \in CertifiedCases : Answer(c)
  \/ \E r \in Uncertified : AnswerSkipping(r)
  \/ \E witness \in Witnesses : AnswerVersion1(witness)
  \/ \E code \in OtherCodes : SetStatus(code)
  \/ \E body \in OtherBodies : SetBody(body)
  \/ SetUpgrade
  \/ \E header \in OtherHeaders : PrependHeader(header) \/ AppendHeader(header)
  \/ \E r \in ToSet(response) : \E i \in DOMAIN r.headers :
       \/ DropHeader(i)
       \/ i < Len(r.headers) /\ SwapHeaders(i)
       \/ \E name \in Spellings : Respell(i, name)

Spec == Init /\ [][Next]_vars

-----------------------------------------------------------------------------
(***************************************************************************)
(* What it means for a message to be the one that was certified.           *)
(***************************************************************************)
NamesIn(headers) == {LowerCase(h[1]) : h \in ToSet(headers)}

ValuesOf(headers, name) ==
  BagOf([i \in {i \in DOMAIN headers : LowerCase(headers[i][1]) = name} |-> headers[i][2]])

SameValues(a, b, names) == \A n \in names : ValuesOf(a, n) = ValuesOf(b, n)

\* The headers of a response that an expression says something about.
CountedNames(e, headers) ==
  LET listed == {LowerCase(n) : n \in ToSet(e.response.headers)}
      counted == IF e.response.type = "certified_response_headers" THEN NamesIn(headers) \cap listed
                 ELSE NamesIn(headers) \ listed
  IN  (counted \ {"ic-certificate"}) \cup {"ic-certificateexpression"}

SameRequestFor(e, a, b) ==
  LET Counted(q) ==
        LET names == {LowerCase(n) : n \in ToSet(e.request.query_parameters)}
            query == GivenOr(q.url.query, <<>>)
        IN  InOrder(Restrict(query, {i \in DOMAIN query : LowerCase(query[i].name) \in names}))
  IN  /\ a.method = b.method /\ a.body = b.body
      /\ SameValues(a.headers, b.headers, {LowerCase(n) : n \in ToSet(e.request.headers)})
      /\ Counted(a) = Counted(b)

SameResponseFor(e, a, b) ==
  /\ a.status_code = b.status_code /\ a.body = b.body
  /\ SameValues(a.headers, b.headers, CountedNames(e, a.headers) \cup CountedNames(e, b.headers))

\* What a canister that skips certification has certified: nothing, for all paths.
SkippedCase == [path |-> [exact |-> FALSE, url |-> <<"">>], expression |-> Skip]

Represents(c, q, r) ==
  /\ c.expression.kind = "Full" => SameRequestFor(c.expression, c.request, q)
  /\ c.expression.kind # "Skip" => SameResponseFor(c.expression, c.response, r)

\* The cases a response that claims version 2 can be taken for.
Represented(r) ==
  {c \in IF skips THEN {SkippedCase} ELSE CertifiedCases :
     /\ WellFormed
     /\ LastHeader(r, "ic-certificateexpression") = CreateDefaultCelExpr(c.expression)
     /\ FirstField(LastHeader(r, "ic-certificate"), "expr_path") = Place(c.path)
     /\ Answers(Place(c.path), PathOf) /\ ~Outdone(Places, Place(c.path), PathOf)
     /\ Represents(c, request, r)}

\* Whether the certificate is one of the canister, now and under the root.
Trusted ==
  LET time == (IF builder.time = None THEN DefaultCertificateTime ELSE builder.time) % (MaxU64 + 1)
  IN  /\ builder.custom_tree = None
      /\ builder.signature = None
      /\ Now - Offset <= time /\ time <= Now + Offset
      /\ builder.subnet # None =>
           /\ builder.nested_subnet = None
           /\ \E range \in builder.subnet.canister_id_ranges : Canister \in range[1] .. range[2]

Verdict(r) == VerifyRequestResponsePairJs(request, r, Canister, Now, Offset, Root, MinVerificationVersion)

Accepted(r) == Verdict(r).code = "Ok"

IsCertificate(header) == EqualIgnoringCase(header[1], CertificateHeaderName)

Claims(r, version) ==
  LastHeader(r, "ic-certificate") # None /\ Version(LastHeader(r, "ic-certificate")) = version

-----------------------------------------------------------------------------
\* A response is accepted if and only if it comes with the certificate of the canister,
\* which is to be trusted, its status is one, and it is a response that was certified
\* under the place it claims, or differs from it only in what its expression leaves open:
\* headers that do not count, the order of headers, the case of their names.  One more or
\* one less of a header that counts makes a difference, whatever its value.
AcceptedExactly ==
  \A r \in ToSet(response) : Claims(r, 2) =>
    (Accepted(r) <=> /\ FirstField(LastHeader(r, "ic-certificate"), "certificate") = Certificate
                     /\ Trusted
                     /\ IsStatusCode(r.status_code)
                     /\ LastHeader(r, "ic-certificateexpression") # None
                     /\ Represented(r) # {})

\* Whatever is handed on of a response that is accepted was certified: of version 2
\* the status, the body and each header but the certificate, and nothing at all if
\* certification is skipped; of version 1 the body alone, as it is or decoded, as that
\* of the path that was asked for or of the index.
ReturnedIsCertified ==
  \A r \in ToSet(response) : Accepted(r) => \A out \in {Verdict(r).info.response} \ {None} :
    IF Claims(r, 1)
    THEN /\ out.headers = <<>> /\ "statusCode" \notin DOMAIN out
         /\ LET encoding == LastHeader(r, "content-encoding")
            IN  \E p \in {PathOf, IndexPath} \cap DOMAIN Bodies :
                  Bodies[p] \in {out.body} \cup Inflate(out.body, encoding)
    ELSE \E c \in Represented(r) :
           /\ c.expression.kind # "Skip"
           /\ out.statusCode = c.response.status_code /\ out.body = c.response.body
           /\ NamesIn(out.headers) \ {"ic-certificate"} = CountedNames(c.expression, c.response.headers)
           /\ SameValues(out.headers, c.response.headers, CountedNames(c.expression, c.response.headers))

\* What a canister certified it can serve: a response that equals the certified one, in
\* whatever order its headers are, with the certificate of the canister anywhere among
\* them and no other, is accepted for the request it was certified for; a response to
\* skip, if unchanged, for any; and a body of version 1, if unchanged, when its witness
\* leaves neither its path nor the index out.
CertifiedVerifies ==
  Trusted => \A r \in ToSet(response) :
    /\ edits = 0 /\ Claims(r, 1) =>
         LET tree == FirstField(LastHeader(r, "ic-certificate"), "tree").http_assets
         IN  (\A p \in {PathOf, IndexPath} : LookupAsset(tree, p).kind \in {"Found", "Absent"}) => Accepted(r)
    /\ edits = 0 /\ skips /\ WellFormed => Accepted(r)
    /\ ~skips => \A c \in CertifiedCases :
         /\ c.expression.kind # "Skip" /\ c.request = request
         /\ LET certificates == {i \in DOMAIN r.headers : IsCertificate(r.headers[i])}
            IN  /\ Cardinality(certificates) = 1
                /\ SameResponse(c.response, [r EXCEPT !.headers = Restrict(@, DOMAIN @ \ certificates)])
         /\ Claims(r, 2)
         /\ FirstField(LastHeader(r, "ic-certificate"), "certificate") = Certificate
         /\ FirstField(LastHeader(r, "ic-certificate"), "expr_path") = Place(c.path)
         => Accepted(r)

\* Under a certificate that is not to be trusted nothing is accepted, whatever version
\* it claims, and of a response that comes as it was sent the client is told that it
\* is the certificate that fails; it is told so of no certificate that is to be
\* trusted, whatever became of the response.
UntrustedIsNamed ==
  \A r \in ToSet(response) :
    LET code == Verdict(r).code
    IN  /\ ~Trusted => code # "Ok"
        /\ ~Trusted /\ edits = 0 /\ WellFormed =>
             code \in {"CertificateVerificationFailed", "CertificateMissingCertifiedData"}
        /\ Trusted => code # "CertificateVerificationFailed"
=============================================================================
