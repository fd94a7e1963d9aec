-------------------------- MODULE HttpVerification --------------------------
(***************************************************************************)
(* Certifications of requests and responses, as a canister makes them      *)
(* (tree/certification.rs), with the headers that its responses carry      *)
(* (utils/), and verify_request_response_pair from a whole request and     *)
(* response to what is handed on of the response: version 2, which follows *)
(* the expression in its headers, and version 1, which compares the body.  *)
(* A certification is where it lies below the place of its path: the       *)
(* expression and the hashes of request and response.                      *)
(*                                                                         *)
(* The tree in a header shows the certifications under "http_expr", as a   *)
(* set that it is shown to implement (HttpCertificationTree), and under    *)
(* "http_assets" a hash tree (HashTree) of a body for each path.           *)
(***************************************************************************)
EXTENDS GatewayVerification, HttpMessages

CONSTANTS
  LookupAsset(_, _), \* what lookup_path answers for a path under "http_assets": a kind and a body
  AssetDigest(_),    \* the root hash of what is under "http_assets"
  Inflate(_, _)      \* what a body in an encoding decodes to: a set of at most one

-----------------------------------------------------------------------------
(***************************************************************************)
(* The canister.                                                           *)
(***************************************************************************)
SkipCertification == <<CreateDefaultCelExpr(Skip)>>

Expressions(headers) ==
  {i \in DOMAIN headers : EqualIgnoringCase(headers[i][1], CertificateExpressionHeaderName)}

\* Mutant: a response without an expression header is certified too.
ValidateResponseMissing(response, cel) ==
  \A i \in Expressions(response.headers) : response.headers[i][2] = cel

\* The expression stands in the headers, once, and no other does; else an error.
ValidateResponse(response, cel) ==
  \E i \in DOMAIN response.headers : Expressions(response.headers) = {i} /\ response.headers[i][2] = cel

\* The certification, or none if the response is refused.
ResponseOnlyCertification(e, response, bodyHash) ==
  LET cel == CreateDefaultCelExpr(e)
  IN  IF ValidateResponse(response, cel)
      THEN << <<cel, <<>>, ResponseHash(response, e.response, bodyHash)>> >> ELSE <<>>

FullCertification(e, request, response, bodyHash) ==
  LET cel == CreateDefaultCelExpr(e)
  IN  IF ValidateResponse(response, cel) /\ ~request.url.malformed
      THEN << <<cel, RequestHash(request, e.request), ResponseHash(response, e.response, bodyHash)>> >> ELSE <<>>

AddV2CertificateHeader(response, certificate, witness, place) ==
  AddHeader(response, <<CertificateHeaderName, CertificateHeader(certificate, witness, place)>>)

SkipPlace == Place([exact |-> FALSE, url |-> <<"">>])

\* What a canister certifies that has no certification at all, skip_certification_asset_tree.
SkipCertificationTree == {<<SkipPlace, SkipCertification>>}

AddSkipCertificationHeader(response, certificate, witness) ==
  AddHeader(AddV2CertificateHeader(response, certificate, witness, SkipPlace),
            <<CertificateExpressionHeaderName, CreateDefaultCelExpr(Skip)>>)

-----------------------------------------------------------------------------
(***************************************************************************)
(* The verifier.                                                           *)
(***************************************************************************)
RootHash(tree) == [http_expr |-> tree.http_expr, http_assets |-> AssetDigest(tree.http_assets)]

\* A header by its name in lower case: of several the last.
LastHeader(response, name) ==
  LET found == {i \in DOMAIN response.headers : LowerCase(response.headers[i][1]) = name}
  IN  IF found = {} THEN None ELSE response.headers[Max(found)][2]

IndexPath == <<"", "index.html">>

\* Whatever becomes of looking up the path, if nothing is found the index counts.
ValidateBody(tree, path, body) ==
  LET found == LookupAsset(tree, path)
      index == LookupAsset(tree, IndexPath)
  IN  IF found.kind = "Found" THEN found.body = body
      ELSE index.kind = "Found" /\ index.body = body

\* decode_body: as it is, unless it has an encoding that is known.
DecodeBody(body, encoding) ==
  IF encoding \in {"gzip", "deflate"} THEN Inflate(body, encoding) ELSE {body}

\* How v1_verification fares with the body: decoded or as it is.
BodyOutcome(request, response, tree) ==
  LET encoding == LastHeader(response, "content-encoding")
      decoded  == DecodeBody(response.body, encoding)
      path     == GetPath(request)
      hashed   == decoded \cup IF encoding = None THEN {} ELSE {response.body}
  IN  IF path = <<>> THEN "MalformedUrl"
      ELSE IF decoded = {} THEN "IoError"
      ELSE IF \E body \in hashed : ValidateBody(tree.http_assets, path[1], body) THEN "Ok"
      ELSE "InvalidResponseBody"

\* The certification that is computed from what came, under the expression e in it.
RecomputedCertification(cel, e, request, response) ==
  CASE e.kind = "Skip" -> <<cel>>
    [] e.kind = "ResponseOnly" -> <<cel, <<>>, ResponseHash(response, e.response, <<>>)>>
    [] e.kind = "Full" -> <<cel, RequestHash(request, e.request), ResponseHash(response, e.response, <<>>)>>

VerifyExchange(request, response, canister, rootKey, now, offset, minVersion) ==
  LET fields      == LastHeader(response, "ic-certificate")
      cel         == LastHeader(response, "ic-certificateexpression")
      certificate == FirstField(fields, "certificate")
      tree        == FirstField(fields, "tree")
      place       == FirstField(fields, "expr_path")
      path        == GetPath(request)
      read        == ReadCel(cel)
  IN  VerifyVersion(fields, cel, minVersion,
        V1Verification(BodyOutcome(request, response, tree), certificate, RootHash(tree),
                       canister, rootKey, now, offset),
        IF read = {} THEN "CelError"
        ELSE IF path = <<>> THEN "MalformedUrl"
        ELSE V2Verification(path[1], RecomputedCertification(cel, CHOOSE e \in read : TRUE, request, response),
                            certificate, RootHash(tree), tree.http_expr, place,
                            canister, rootKey, now, offset))

\* Mutant: the headers are handed on as they came.
VerifiedResponseAll(response) ==
  LET cel == LastHeader(response, "ic-certificateexpression")
      e   == CHOOSE e \in ReadCel(cel) : TRUE
  IN  IF Version(LastHeader(response, "ic-certificate")) = 1
      THEN << [status_code |-> <<>>, headers |-> <<>>, body |-> response.body] >>
      ELSE IF e.kind = "Skip" THEN <<>>
      ELSE << [status_code |-> <<response.status_code>>, headers |-> Lowered(response.headers), body |-> response.body] >>

\* VerificationInfo: what is handed on of a response that verifies, if anything.
VerifiedResponse(response) ==
  LET cel      == LastHeader(response, "ic-certificateexpression")
      e        == CHOOSE e \in ReadCel(cel) : TRUE
      filtered == FilterResponseHeaders(response, e.response)
  IN  IF Version(LastHeader(response, "ic-certificate")) = 1
      THEN << [status_code |-> <<>>, headers |-> <<>>, body |-> response.body] >>
      ELSE IF e.kind = "Skip" THEN <<>>
      ELSE << [status_code |-> <<response.status_code>>,
               headers     |-> Append(InOrder(filtered.headers), <<CertificateHeaderName, filtered.certificate[1]>>),
               body        |-> response.body] >>

-----------------------------------------------------------------------------
(***************************************************************************)
(* The bindings for JavaScript (ic-response-verification-wasm): objects    *)
(* become requests and responses, and what comes of the verification       *)
(* becomes an object again or a code.                                      *)
(***************************************************************************)
\* The version that a client asks for is not among the fields that are read.
RequestFromJs(request) ==
  BuildRequest(WithBody(WithHeaders(WithUrl(WithMethod(NewRequest, request.method), request.url),
                                    request.headers), request.body))

IsStatusCode(code) == code \in 100 .. 999

\* None, for the code panics, if there is no such status.
ResponseFromJs(response) ==
  IF ~IsStatusCode(response.status_code) THEN <<>>
  ELSE <<BuildResponse(WithBody(WithHeaders(WithStatusCode(NewResponse, response.status_code),
                                            response.headers), response.body))>>

\* A status that there is none of is left out.
VerifiedResponseToJs(r) ==
  IF r.status_code = <<>> THEN [body |-> r.body, headers |-> r.headers]
  ELSE [statusCode |-> r.status_code[1], body |-> r.body, headers |-> r.headers]

VerificationInfoToJs(response) ==
  LET verified == VerifiedResponse(response)
  IN  [response            |-> IF verified = <<>> THEN None ELSE VerifiedResponseToJs(verified[1]),
       verificationVersion |-> Version(LastHeader(response, "ic-certificate"))]

\* The errors of ic-certificate-verification.
CertificateErrors ==
  {"DerKeyMismatch", "TimeTooFarInTheFuture", "TimeTooFarInThePast", "PrincipalOutOfRange",
   "SubnetCanisterIdRangesNotFound", "SubnetPublicKeyNotFound", "MissingTimePathInTree", "TimeDecodingFailed",
   "SignatureVerificationFailed", "CborDecodingFailed", "CertificateHasTooManyDelegations"}

\* The errors of ic-response-verification: what of a header does not decode, and why
\* an expression path is refused, are not told apart here.
ResponseVerificationErrors ==
  {"IoError", "UnsupportedVerificationVersion", "RequestedVerificationVersionMismatch", "CelError",
   "DecodingError", "InvalidTreeRootHash", "CertificateMissingCertifiedData", "ExpressionPathRefused",
   "InvalidExpressionHash", "InvalidResponseBody", "HeaderMissingCertificate", "HeaderMissingTree",
   "HeaderMissingCertificateExpressionPath", "HeaderMissingCertification"}

\* The code that stands for an error.
JsErrorCode(error) ==
  CASE error \in CertificateErrors -> "CertificateVerificationFailed"
    [] error = "MalformedUrl" -> "HttpCertificationError"
    [] error = "HeaderMissingCertificateExpressionPath" -> "HeaderMissingCertificateExpression"
    [] error \in ResponseVerificationErrors \ {"HeaderMissingCertificateExpressionPath"} -> error
    [] error = "Ok" -> "Ok"

\* A code, "Ok" or "panic", and what is handed on.
VerifyRequestResponsePairJs(request, response, canister, now, offset, rootKey, minVersion) ==
  LET read    == ResponseFromJs(response)
      verdict == VerifyExchange(RequestFromJs(request), read[1], canister, rootKey, now, offset, minVersion)
  IN  IF read = <<>> THEN [code |-> "panic", info |-> None]
      ELSE [code |-> JsErrorCode(verdict),
            info |-> IF verdict = "Ok" THEN VerificationInfoToJs(read[1]) ELSE None]
=============================================================================
