--------------------------- MODULE CelExpressions ---------------------------
(***************************************************************************)
(* Expressions that say what of a request and a response is certified: the *)
(* canister builds one and writes it out (ic-http-certification, cel/),    *)
(* and the verifier reads it (ic-response-verification, cel/).             *)
(*                                                                         *)
(* The text is a sequence of tokens, its words and punctuation marks.      *)
(* White space, which may stand between any two, is left out.  A reader    *)
(* gives the set of what it reads, empty where the code returns an error.  *)
(***************************************************************************)
EXTENDS Naturals, SequencesExt, TLC

CONSTANTS
  Underscored, \* the words with an underscore in them, other than those written below
  Hyphened     \* the words with a hyphen in them

CertifiedResponseHeaders(headers) == [type |-> "certified_response_headers", headers |-> headers]
ResponseHeaderExclusions(headers) == [type |-> "response_header_exclusions", headers |-> headers]
RequestCertification(headers, parameters) == [headers |-> headers, query_parameters |-> parameters]

Skip                    == [kind |-> "Skip"]
ResponseOnly(response)  == [kind |-> "ResponseOnly", response |-> response]
Full(request, response) == [kind |-> "Full", request |-> request, response |-> response]

\* What the builders start from.
DefaultResponseCertification == CertifiedResponseHeaders(<<>>)
DefaultRequestCertification  == RequestCertification(<<>>, <<>>)

-----------------------------------------------------------------------------
(***************************************************************************)
(* Writing.                                                                *)
(***************************************************************************)
Quote == "\""

\* Names are put between quotes as they are.
Quoted(name) == IF name = "" THEN <<Quote, Quote>> ELSE <<Quote, name, Quote>>

List(names) ==
  <<"[">> \o FlattenSeq([i \in DOMAIN names |-> (IF i = 1 THEN <<>> ELSE <<",">>) \o Quoted(names[i])])
          \o <<"]">>

\* Mutant: the names of the headers are written for both.
CreateRequestCelExprTwice(r) ==
  <<"request_certification", ":", "RequestCertification", "{", "certified_request_headers", ":">>
    \o List(r.headers) \o <<",", "certified_query_parameters", ":">> \o List(r.headers) \o <<"}", ",">>

CreateRequestCelExpr(r) ==
  <<"request_certification", ":", "RequestCertification", "{", "certified_request_headers", ":">>
    \o List(r.headers) \o <<",", "certified_query_parameters", ":">> \o List(r.query_parameters) \o <<"}", ",">>

CreateResponseCelExpr(r) ==
  <<"response_certification", ":", "ResponseCertification", "{", r.type, ":", "ResponseHeaderList",
    "{", "headers", ":">> \o List(r.headers) \o <<"}", "}">>

CreateDefaultCelExpr(e) ==
  <<"default_certification", "(", "ValidationArgs", "{">>
    \o (IF e.kind = "Skip" THEN <<"no_certification", ":", "Empty", "{", "}">>
        ELSE <<"certification", ":", "Certification", "{">>
               \o (IF e.kind = "Full" THEN CreateRequestCelExpr(e.request)
                   ELSE <<"no_request_certification", ":", "Empty", "{", "}", ",">>)
               \o CreateResponseCelExpr(e.response) \o <<"}">>)
    \o <<"}", ")">>

-----------------------------------------------------------------------------
(***************************************************************************)
(* Parsing (nom).  A bracket once opened has to be closed after what may   *)
(* stand in it, or the whole does not parse; so no alternative but the     *)
(* first to open one is ever taken.                                        *)
(***************************************************************************)
Punctuation == {"{", "}", "(", ")", "[", "]", ":", ",", Quote}

Keywords == {"default_certification", "no_certification", "no_request_certification", "request_certification",
             "certified_request_headers", "certified_query_parameters", "response_certification",
             "certified_response_headers", "response_header_exclusions"}

At(ts, token) == ts # <<>> /\ Head(ts) = token

\* ident takes letters, digits and underscores, possibly none at all; what it leaves of
\* a word with a hyphen fits nothing.
Ident(ts) ==
  IF ts # <<>> /\ Head(ts) \notin Punctuation \cup Hyphened THEN <<Head(ts), Tail(ts)>> ELSE <<"", ts>>

\* parse_str takes letters, digits and hyphens; what it leaves of a word with an
\* underscore is no closing quote.
ParseStr(ts) ==
  IF ts # <<>> /\ Head(ts) \notin Punctuation \cup Keywords \cup Underscored
  THEN <<Head(ts), Tail(ts)>> ELSE <<"", ts>>

\* Of properties with one name the last counts.
Collect(properties) == FoldLeft(LAMBDA map, p : (p[1] :> p[2]) @@ map, <<>>, properties)

\* The rules below take the function that reads tokens by a rule, for what they call.
\* separated_list0, once an item has begun: a comma has to be followed by another.
Items(read, Is, ts) ==
  UNION {IF At(p[2], ",") THEN {<< <<p[1]>> \o q[1], q[2]>> : q \in read[Is, TRUE, Tail(p[2])]}
         ELSE {<< <<p[1]>>, p[2]>>} : p \in read[Is, FALSE, ts]}

Enclosed(read, Is, close, ts) ==
  IF At(ts, close) THEN {<< <<>>, Tail(ts)>>}
  ELSE {<<r[1], Tail(r[2])>> : r \in {r \in read[Is, TRUE, ts] : At(r[2], close)}}

KeyValue(read, ts) ==
  LET key == Ident(ts)
  IN  IF At(key[2], ":") THEN {<< <<key[1], v[1]>>, v[2]>> : v \in read["value", FALSE, Tail(key[2])]} ELSE {}

CelValue(read, ts) ==
  LET name  == Ident(ts)[1]
      after == Ident(ts)[2]
      text  == ParseStr(Tail(ts))
  IN  CASE At(after, "{") ->
             {<<[kind |-> "Object", name |-> name, properties |-> Collect(r[1])], r[2]>> :
                r \in Enclosed(read, "property", "}", Tail(after))}
        [] At(after, "(") ->
             {<<[kind |-> "Function", name |-> name, arguments |-> r[1]], r[2]>> :
                r \in Enclosed(read, "value", ")", Tail(after))}
        [] At(ts, "[") ->
             {<<[kind |-> "Array", items |-> r[1]], r[2]>> : r \in Enclosed(read, "value", "]", Tail(ts))}
        [] At(ts, Quote) ->
             IF At(text[2], Quote) THEN {<<[kind |-> "String", text |-> text[1]], Tail(text[2])>>} ELSE {}
        [] OTHER -> {}

\* What follows the value is ignored.
ParseCelExpression(tokens) ==
  LET read[Is \in {"value", "property"}, list \in BOOLEAN, ts \in Seq(ToSet(tokens))] ==
        IF list THEN Items(read, Is, ts)
        ELSE IF Is = "property" THEN KeyValue(read, ts) ELSE CelValue(read, ts)
  IN  {r[1] : r \in read["value", FALSE, tokens]}

-----------------------------------------------------------------------------
(***************************************************************************)
(* Mapping of what was parsed to an expression.                            *)
(***************************************************************************)
Property(properties, name) == {properties[k] : k \in DOMAIN properties \cap {name}}

\* validate_object, of a value that may be missing.
Objects(values, name) == {v.properties : v \in {v \in values : v.kind = "Object" /\ v.name = name}}

\* validate_string_array, of a value that may be missing.
StringArrays(values) ==
  {[i \in DOMAIN v.items |-> v.items[i].text] :
     v \in {v \in values : v.kind = "Array" /\ \A i \in DOMAIN v.items : v.items[i].kind = "String"}}

\* A sequence of at most one list of names: none if the property is missing or is a
\* list of headers without headers.
ResponseHeaders(properties, name) ==
  LET lists == Property(properties, name)
  IN  IF lists = {} THEN {<<>>}
      ELSE UNION {LET headers == Property(list, "headers")
                  IN  IF headers = {} THEN {<<>>} ELSE {<<names>> : names \in StringArrays(headers)} :
                    list \in Objects(lists, "ResponseHeaderList")}

ValidateResponseCertification(certification) ==
  UNION {UNION {CASE included # <<>> /\ excluded = <<>> -> {CertifiedResponseHeaders(included[1])}
                  [] included = <<>> /\ excluded # <<>> -> {ResponseHeaderExclusions(excluded[1])}
                  [] OTHER -> {} :
                  included \in ResponseHeaders(r, "certified_response_headers"),
                  excluded \in ResponseHeaders(r, "response_header_exclusions")} :
           r \in Objects(Property(certification, "response_certification"), "ResponseCertification")}

\* A sequence of at most one.
ValidateRequestCertification(certification) ==
  LET none == Property(certification, "no_request_certification")
      some == Property(certification, "request_certification")
  IN  CASE none # {} /\ some = {} -> {<<>>}
        [] none = {} /\ some # {} ->
             UNION {{<<RequestCertification(h, p)>> :
                       h \in StringArrays(Property(r, "certified_request_headers")),
                       p \in StringArrays(Property(r, "certified_query_parameters"))} :
                      r \in Objects(some, "RequestCertification")}
        [] OTHER -> {}

MapCertification(certification) ==
  {IF request = <<>> THEN ResponseOnly(response) ELSE Full(request[1], response) :
     request \in ValidateRequestCertification(certification),
     response \in ValidateResponseCertification(certification)}

\* The arguments of a function of this name.
Functions(value, name) ==
  {v.arguments : v \in {v \in {value} : v.kind = "Function" /\ v.name = name}}

\* map_cel_ast.  Of the arguments only the first is looked at.
MapCelAst(value) ==
  LET arguments == UNION {{as[i] : i \in DOMAIN as \cap {1}} : as \in Functions(value, "default_certification")}
  IN  UNION {LET none == Property(v, "no_certification")
                 some == Property(v, "certification")
             IN  CASE none # {} /\ some = {} -> {Skip}
                   [] none = {} /\ some # {} ->
                        UNION {MapCertification(c) : c \in Objects(some, "Certification")}
                   [] OTHER -> {} :
               v \in Objects(arguments, "ValidationArgs")}

ReadCel(ts) == UNION {MapCelAst(v) : v \in ParseCelExpression(ts)}
=============================================================================
