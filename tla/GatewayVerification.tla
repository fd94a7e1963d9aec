------------------------ MODULE GatewayVerification -------------------------
(***************************************************************************)
(* verify_request_response_pair, the entry point of                        *)
(* ic-response-verification, from the headers of a response to the verdict *)
(* (verification/): the certificate header, the version, the certificate,  *)
(* the tree and the response.                                              *)
(*                                                                         *)
(* A tree is the set of certifications under places that it is shown to    *)
(* implement (HttpCertificationTree, ImplementsSet), which is also its     *)
(* digest; a response passes in it as CertifiedHttp shows it does.  An     *)
(* expression stands for its own hash.                                     *)
(***************************************************************************)
EXTENDS CertificateVerification, UrlPaths

MinVerificationVersion == 1

-----------------------------------------------------------------------------
(***************************************************************************)
(* The certificate header: a text of names, punctuation and encoded        *)
(* values, or the fields that are read in it.                              *)
(***************************************************************************)
\* add_v2_certificate_header.
HeaderText(certificate, tree, exprPath) ==
  LET Field(name, value) == <<name, "=", ":", value, ":", ",", " ">>
  IN  Field("certificate", certificate) \o Field("tree", tree) \o Field("expr_path", exprPath)
        \o <<"version", "=", "2">>

SplitAtCommas(text) ==
  FoldLeft(LAMBDA parts, t : IF t = "," THEN Append(parts, <<>>) ELSE [parts EXCEPT ![Len(parts)] = Append(@, t)],
           << <<>> >>, text)

Trim(part) ==
  LET kept == {i \in DOMAIN part : part[i] # " "}
  IN  IF kept = {} THEN <<>> ELSE SubSeq(part, Min(kept), Max(kept))

UpTo(s, t) == LET i == SelectInSeq(s, LAMBDA x : x = t) IN IF i = 0 THEN s ELSE SubSeq(s, 1, i - 1)

WithoutColon(s) == IF s # <<>> /\ Head(s) = ":" THEN Tail(s) ELSE s

\* A name, "=" and a value, which may stand between colons; or none.
ExtractHeaderField(part) ==
  LET text   == Trim(part)
      name   == UpTo(text, "=")
      opened == WithoutColon(SubSeq(text, Len(name) + 2, Len(text)))
      value  == UpTo(opened, ":")
      rest   == WithoutColon(SubSeq(opened, Len(value) + 1, Len(opened)))
  IN  IF name \in {text, <<>>} \/ value = <<>> \/ rest # <<>> THEN <<>>
      ELSE <<[name |-> name, value |-> value]>>

\* The fields of a text, their values as they are written; what is no field is ignored.
FieldsOf(text) ==
  FlattenSeq([i \in DOMAIN SplitAtCommas(text) |-> ExtractHeaderField(SplitAtCommas(text)[i])])

\* The first field of a name counts and later ones are ignored, unread.
FirstField(fields, name) ==
  LET found == {i \in DOMAIN fields : fields[i].name = name}
  IN  IF found = {} THEN None ELSE fields[CHOOSE i \in found : \A j \in found : i <= j].value

FieldNames == {"certificate", "tree", "version", "expr_path"}

\* CertificateHeader::from: "Ok", or its error.
CertificateHeaderFrom(fields) ==
  IF \E n \in FieldNames : FirstField(fields, n) = Garbled THEN "DecodingError"
  ELSE IF FirstField(fields, "certificate") = None THEN "HeaderMissingCertificate"
  ELSE IF FirstField(fields, "tree") = None THEN "HeaderMissingTree"
  ELSE "Ok"

Version(fields) ==
  LET v == FirstField(fields, "version") IN IF v = None THEN MinVerificationVersion ELSE v

\* What add_v2_certificate_header puts into the header.
CertificateHeader(certificate, witness, place) ==
  <<[name |-> "certificate", value |-> certificate], [name |-> "tree", value |-> witness],
    [name |-> "expr_path", value |-> place], [name |-> "version", value |-> 2]>>

ValidateTree(canister, certificate, tree) ==
  LET data == LookupPath(certificate.tree, CertifiedDataPath(canister))
  IN  IF data = None THEN "CertificateMissingCertifiedData"
      ELSE IF data # tree THEN "InvalidTreeRootHash"
      ELSE "Ok"

\* v1_verification; body is the outcome of decoding the body of the response and of
\* looking for it in the tree.
V1Verification(body, certificate, tree, canister, rootKey, now, offset) ==
  LET verified  == Verify(certificate, canister, rootKey, now, offset)
      validated == ValidateTree(canister, certificate, tree)
  IN  IF verified # "Ok" THEN verified
      ELSE IF body \in {"MalformedUrl", "IoError"} THEN body
      ELSE IF validated # "Ok" THEN validated
      ELSE body

\* The certification that the verifier computes from what it was sent.
Recomputed(request, response) ==
  [cel  |-> response.cel,
   req  |-> IF response.cel = "Full" THEN request.method ELSE None,
   resp |-> IF response.cel = "Skip" THEN None ELSE [status |-> response.status, body |-> response.body]]

\* v2_verification, of a request for url and the certification recomputed for it;
\* certified are the certifications in the tree, by place.
V2Verification(url, recomputed, certificate, tree, certified, place, canister, rootKey, now, offset) ==
  LET verified  == Verify(certificate, canister, rootKey, now, offset)
      validated == ValidateTree(canister, certificate, tree)
      places    == {pc[1] : pc \in certified}
  IN  IF verified # "Ok" THEN verified
      ELSE IF validated # "Ok" THEN validated
      ELSE IF place \notin places \/ ~Answers(place, url) \/ Outdone(places, place, url)
      THEN "ExpressionPathRefused"
      ELSE IF <<place, recomputed>> \notin certified
      THEN "InvalidExpressionHash"
      ELSE "Ok"

\* The way to the verification of the version asked for, v1 or v2.
VerifyVersion(fields, cel, minVersion, v1, v2) ==
  LET version == Version(fields)
  IN  IF fields = None THEN "HeaderMissingCertification"
      ELSE IF CertificateHeaderFrom(fields) # "Ok" THEN CertificateHeaderFrom(fields)
      ELSE IF version < minVersion THEN "RequestedVerificationVersionMismatch"
      ELSE IF version = 1 THEN v1
      ELSE IF version # 2 THEN "UnsupportedVerificationVersion"
      ELSE IF cel = None THEN "HeaderMissingCertification"
      ELSE IF FirstField(fields, "expr_path") = None THEN "HeaderMissingCertificateExpressionPath"
      ELSE v2

\* Of a tree that certifies nothing under "http_assets", in which version 1 finds no
\* body to compare with.
VerifyRequestResponsePair(request, response, canister, rootKey, now, offset, minVersion) ==
  LET fields      == response.fields
      certificate == FirstField(fields, "certificate")
      tree        == FirstField(fields, "tree")
      place       == FirstField(fields, "expr_path")
  IN  VerifyVersion(fields, response.cel, minVersion,
        V1Verification("InvalidResponseBody", certificate, tree, canister, rootKey, now, offset),
        IF response.cel = Garbled THEN "CelError"
        ELSE V2Verification(request.url, Recomputed(request, response), certificate, tree, tree, place,
                            canister, rootKey, now, offset))
=============================================================================
