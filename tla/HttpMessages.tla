---------------------------- MODULE HttpMessages ----------------------------
(***************************************************************************)
(* HTTP requests and responses of ic-http-certification (http/), what      *)
(* builds them, and what of them goes into their hashes (hash/).           *)
(*                                                                         *)
(* A header is a pair of a name, in some letter case, and a value.  A URL  *)
(* has a path, the sequence of strings between its slashes as they are     *)
(* spelt, and parameters: none, <<>>, if it has no question mark, and      *)
(* otherwise a sequence of one sequence, of what stands between the "&"s.  *)
(* An optional value is a sequence of at most one.                         *)
(***************************************************************************)
EXTENDS CelExpressions, FiniteSets

CONSTANTS
  LowerCase(_),      \* a header or parameter name in lower case
  PercentDecoded(_)  \* what a part of a path as spelt stands for: several if it encodes slashes

GivenOr(optional, default) == IF optional = <<>> THEN default ELSE optional[1]

Parameter(name, value) == [name |-> name, value |-> value]

Url(path, query) == [path |-> path, query |-> query, malformed |-> FALSE]

\* One that is no URI, or whose path decodes to bytes that are no UTF-8.
MalformedUrl == [path |-> <<>>, query |-> <<>>, malformed |-> TRUE]

RootUrl == Url(<<"", "">>, <<>>)

-----------------------------------------------------------------------------
(***************************************************************************)
(* Builders.                                                               *)
(***************************************************************************)
NewRequest  == [method |-> <<>>, url |-> <<>>, headers |-> <<>>, body |-> "", certificate_version |-> <<>>]
NewResponse == [status_code |-> <<>>, headers |-> <<>>, body |-> "", upgrade |-> <<>>]

WithMethod(builder, method)              == [builder EXCEPT !.method = <<method>>]
WithUrl(builder, url)                    == [builder EXCEPT !.url = <<url>>]
WithStatusCode(builder, code)            == [builder EXCEPT !.status_code = <<code>>]
WithHeaders(builder, headers)            == [builder EXCEPT !.headers = headers]
WithBody(builder, body)                  == [builder EXCEPT !.body = body]
WithUpgrade(builder, upgrade)            == [builder EXCEPT !.upgrade = <<upgrade>>]
WithCertificateVersion(builder, version) == [builder EXCEPT !.certificate_version = <<version>>]

BuildRequest(builder) ==
  [builder EXCEPT !.method = GivenOr(@, "GET"), !.url = GivenOr(@, RootUrl)]

BuildResponse(builder) == [builder EXCEPT !.status_code = GivenOr(@, 200)]

Get(url)    == WithUrl(WithMethod(NewRequest, "GET"), url)
Post(url)   == WithUrl(WithMethod(NewRequest, "POST"), url)
Put(url)    == WithUrl(WithMethod(NewRequest, "PUT"), url)
Patch(url)  == WithUrl(WithMethod(NewRequest, "PATCH"), url)
Delete(url) == WithUrl(WithMethod(NewRequest, "DELETE"), url)

Respond(code, headers) == WithHeaders(WithStatusCode(NewResponse, code), headers)

OK(body, headers)                  == WithBody(Respond(200, headers), body)
Created(body, headers)             == WithBody(Respond(201, headers), body)
NoContent(headers)                 == Respond(204, headers)
MovedPermanently(to, headers)      == Respond(301, Append(headers, <<"Location", to>>))
NotModified(headers)               == Respond(304, headers)
TemporaryRedirect(to, headers)     == Respond(307, Append(headers, <<"Location", to>>))
BadRequest(body, headers)          == WithBody(Respond(400, headers), body)
Unauthorized(body, headers)        == WithBody(Respond(401, headers), body)
Forbidden(body, headers)           == WithBody(Respond(403, headers), body)
NotFound(body, headers)            == WithBody(Respond(404, headers), body)
MethodNotAllowed(body, headers)    == WithBody(Respond(405, headers), body)
TooManyRequests(body, headers)     == WithBody(Respond(429, headers), body)
InternalServerError(body, headers) == WithBody(Respond(500, headers), body)

\* HttpResponseBuilder::from.
BuilderFrom(response) == [response EXCEPT !.status_code = <<@>>]

AddHeader(response, header) == [response EXCEPT !.headers = Append(@, header)]

-----------------------------------------------------------------------------
(***************************************************************************)
(* Reading.                                                                *)
(***************************************************************************)
\* The path after percent-decoding, or none.  An encoded slash separates as any other.
GetPath(request) ==
  IF request.url.malformed THEN <<>>
  ELSE <<FlattenSeq([i \in DOMAIN request.url.path |-> PercentDecoded(request.url.path[i])])>>

\* The parameters as they are spelt.
GetQuery(request) == request.url.query

\* The values of a function on places in a sequence, in the order of the places.
InOrder(f) ==
  LET Rank(i) == Cardinality({j \in DOMAIN f : j <= i})
  IN  [n \in 1 .. Cardinality(DOMAIN f) |-> f[CHOOSE i \in DOMAIN f : Rank(i) = n]]

\* How often each value occurs, in a sequence or at places of one.
BagOf(s) == [x \in ToSet(s) |-> Cardinality({i \in DOMAIN s : s[i] = x})]

\* PartialEq: in which order headers come makes no difference; how their names are
\* spelt does.
SameResponse(a, b) ==
  /\ a.status_code = b.status_code /\ a.body = b.body /\ a.upgrade = b.upgrade
  /\ BagOf(a.headers) = BagOf(b.headers)

-----------------------------------------------------------------------------
(***************************************************************************)
(* What of a request and of a response goes into their hashes under a      *)
(* certification expression: the canister computes them to certify a       *)
(* response, the verifier to compare.                                      *)
(*                                                                         *)
(* SHA-256 is taken to be injective, so a hash is what it is computed      *)
(* from.  Values are tagged with their kind: the number of a status is     *)
(* never encoded as a string's bytes are, its second byte being no UTF-8,  *)
(* for the statuses from 128 on that are modelled.                         *)
(***************************************************************************)
CertificateHeaderName           == "IC-Certificate"
CertificateExpressionHeaderName == "IC-CertificateExpression"

Text(value)   == <<"String", value>>
Number(value) == <<"Number", value>>

\* Mutant: of pairs that are the same one counts.
RepresentationIndependentHashOnce(pairs) == ToSet(pairs)

\* Pairs of names and values count as often as they occur, in no order.  They are kept
\* at the places where they stand in the message.
RepresentationIndependentHash(pairs) == BagOf(pairs)

EqualIgnoringCase(a, b) == LowerCase(a) = LowerCase(b)

Lists(names, name) == \E i \in DOMAIN names : EqualIgnoringCase(names[i], name)

Lowered(headers) == [i \in DOMAIN headers |-> <<LowerCase(headers[i][1]), headers[i][2]>>]

Texts(headers) == [i \in DOMAIN headers |-> <<headers[i][1], Text(headers[i][2])>>]

WithPair(pairs, place, pair) ==
  [i \in DOMAIN pairs \cup {place} |-> IF i = place THEN pair ELSE pairs[i]]

-----------------------------------------------------------------------------
(***************************************************************************)
(* Requests.  The path is in neither hash.                                 *)
(***************************************************************************)
GetFilteredHeaders(headers, certification) ==
  Restrict(Lowered(headers), {i \in DOMAIN headers : Lists(certification.headers, headers[i][1])})

\* The parameters that are certified, in the order of the URL; none if there are none.
GetFilteredQuery(query, certification) ==
  LET places == {i \in DOMAIN query : Lists(certification.query_parameters, query[i].name)}
  IN  IF places = {} THEN <<>> ELSE <<InOrder(Restrict(query, places))>>

RequestHash(request, certification) ==
  LET query    == GetQuery(request)
      filtered == IF query = <<>> THEN <<>> ELSE GetFilteredQuery(query[1], certification)
      pairs    == WithPair(Texts(GetFilteredHeaders(request.headers, certification)),
                           0, <<":ic-cert-method", Text(request.method)>>)
      all      == IF filtered = <<>> THEN pairs
                  ELSE WithPair(pairs, Len(request.headers) + 1, <<":ic-cert-query", Text(filtered[1])>>)
  IN  [headers |-> RepresentationIndependentHash(all), body |-> request.body]

-----------------------------------------------------------------------------
(***************************************************************************)
(* Responses.                                                              *)
(***************************************************************************)
\* The expression counts whether it is listed or excluded or not, the certificate
\* never does; of several certificates the last is kept.
FilterResponseHeaders(response, certification) ==
  LET headers      == response.headers
      certificates == {i \in DOMAIN headers : EqualIgnoringCase(headers[i][1], CertificateHeaderName)}
      Counts(name) ==
        /\ ~EqualIgnoringCase(name, CertificateHeaderName)
        /\ \/ EqualIgnoringCase(name, CertificateExpressionHeaderName)
           \/ Lists(certification.headers, name) <=> certification.type = "certified_response_headers"
  IN  [headers     |-> Restrict(Lowered(headers), {i \in DOMAIN headers : Counts(headers[i][1])}),
       certificate |-> IF certificates = {} THEN <<>> ELSE <<headers[Max(certificates)][2]>>]

ResponseHeadersHash(code, filtered) ==
  RepresentationIndependentHash(WithPair(Texts(filtered.headers), 0, <<":ic-cert-status", Number(code)>>))

\* With the hash of the body that the caller gives, if any.
ResponseHash(response, certification, bodyHash) ==
  [headers |-> ResponseHeadersHash(response.status_code, FilterResponseHeaders(response, certification)),
   body    |-> GivenOr(bodyHash, response.body)]
=============================================================================
