---------------------------- MODULE WireFormats -----------------------------
(***************************************************************************)
(* What a response carries encoded, on its way from the canister to the    *)
(* verifier: a witness, an expression path, a certificate and the canister *)
(* ranges in its delegation, all as CBOR, a certification expression, and  *)
(* a certificate header, whose values are taken for single tokens.         *)
(* On the way it may be cut, extended, or changed in places.               *)
(***************************************************************************)
EXTENDS Cbor, CelExpressions

CONSTANTS
  Sent,        \* what may be sent: a format and a value
  OtherBytes,  \* the bytes that may come instead of another or at the end
  OtherTokens, \* the same for the tokens of an expression,
  OtherText,   \* and of a header
  Values,      \* the values that decode as those of a field of a header, by its name
  None,        \* no value
  Garbled,     \* one that does not decode
  MaxChanges   \* a bound on the places in which one message is changed

VARIABLES
  sent,    \* the format and the value that were sent
  wire,    \* the bytes or tokens on the wire
  damage,  \* what happened to them: "none", "cut", "extended", "changed"
  changes  \* in how many places

vars == <<sent, wire, damage, changes>>

Header == INSTANCE GatewayVerification WITH MaxU128 <- NumberLimit

\* What a text stands for as the value of a field.
FieldValue(name, text) ==
  IF name = "version" THEN (IF text = <<"2">> THEN 2 ELSE Garbled)
  ELSE IF name \in DOMAIN Values /\ Len(text) = 1 /\ text[1] \in Values[name] THEN text[1]
  ELSE Garbled

\* A name of several tokens is none that the verifier knows.
ReadField(field) ==
  LET name == IF Len(field.name) = 1 THEN field.name[1] ELSE ""
  IN  [name |-> name, value |-> FieldValue(name, field.value)]

ReadHeader(text) ==
  LET written == Header!FieldsOf(text)
      fields  == [i \in DOMAIN written |-> ReadField(written[i])]
  IN  IF Header!CertificateHeaderFrom(fields) # "Ok" THEN {}
      ELSE {[certificate |-> Header!FirstField(fields, "certificate"), tree |-> Header!FirstField(fields, "tree"),
             expr_path |-> Header!FirstField(fields, "expr_path"), version |-> Header!Version(fields)]}

Encode(format, v) ==
  CASE format = "cel"    -> CreateDefaultCelExpr(v)
    [] format = "header" -> Header!HeaderText(v.certificate, v.tree, v.expr_path)
    [] OTHER             -> CborEncode(format, v)

Decode(format, s) ==
  CASE format = "cel"    -> ReadCel(s)
    [] format = "header" -> ReadHeader(s)
    [] OTHER             -> FromCbor(format, s)

Others ==
  CASE sent.format = "cel" -> OtherTokens [] sent.format = "header" -> OtherText [] OTHER -> OtherBytes

Init ==
  /\ sent \in Sent
  /\ wire = Encode(sent.format, sent.value)
  /\ damage = "none"
  /\ changes = 0

Cut(n) ==
  /\ damage = "none"
  /\ wire' = SubSeq(wire, 1, n)
  /\ damage' = "cut"
  /\ UNCHANGED <<sent, changes>>

Extend(x) ==
  /\ damage = "none"
  /\ wire' = Append(wire, x)
  /\ damage' = "extended"
  /\ UNCHANGED <<sent, changes>>

Change(i, x) ==
  /\ damage \in {"none", "changed"} /\ changes < MaxChanges
  /\ wire' = ReplaceAt(wire, i, x)
  /\ damage' = "changed"
  /\ changes' = changes + 1
  /\ UNCHANGED sent

Next ==
  \/ \E n \in 0 .. Len(wire) - 1 : Cut(n)
  \/ \E x \in Others : Extend(x)
  \/ \E i \in DOMAIN wire, x \in Others : Change(i, x)

Spec == Init /\ [][Next]_vars

-----------------------------------------------------------------------------
Names(e) ==
  (IF e.kind = "Full" THEN Range(e.request.headers) \cup Range(e.request.query_parameters) ELSE {})
    \cup IF e.kind = "Skip" THEN {} ELSE Range(e.response.headers)

RECURSIVE DigestsFit(_)
DigestsFit(n) ==
  CASE Is("fork", n)    -> DigestsFit(n[2]) /\ DigestsFit(n[3])
    [] Is("labeled", n) -> DigestsFit(n[3])
    [] Is("pruned", n)  -> Len(n[2]) = DigestLength
    [] OTHER            -> TRUE

\* Whether the verifier can make something of it: names of headers and parameters in
\* an expression are without underscores, and the rest of the right length and kind.
Legal(format, v) ==
  CASE format = "cel"         -> Names(v) \cap (Underscored \cup Keywords) = {}
    [] format = "tree"        -> DigestsFit(v)
    [] format = "certificate" -> DigestsFit(v.tree)
    [] format = "expr_path"   -> \A i \in DOMAIN v : IsUtf8(v[i])
    [] format = "header"      -> v.version = 2 /\ v.expr_path # None
    [] OTHER                  -> TRUE

\* What serde decodes, where it has a decoder.
SerdeDecode(format, s) ==
  UNION {IF format = "tree" THEN VisitTree(v) ELSE VisitCertificate(v) : v \in ParseCbor(s)}

\* What the canister sends is what the verifier makes of it, with either of the two
\* decoders of trees and certificates; an expression that names a header or a query
\* parameter with an underscore is written all the same and then not read.
RoundTrip ==
  damage = "none" =>
    LET readable == {v \in {sent.value} : Legal(sent.format, v)}
    IN  /\ Decode(sent.format, wire) = readable
        /\ sent.format \in {"tree", "certificate"} => SerdeDecode(sent.format, wire) = readable

\* What a message may decode to of which the end is missing: a certificate without
\* its delegation, which the root did not sign then, and a header of version 1.
CutShort ==
  CASE sent.format = "certificate" -> {[sent.value EXCEPT !.delegation = <<>>]} \ {sent.value}
    [] sent.format = "header"      -> [certificate : {sent.value.certificate}, tree : {sent.value.tree},
                                       expr_path : {None, sent.value.expr_path}, version : {1}]
    [] OTHER                       -> {}

\* Nothing that is cut or that is followed by something decodes, with few exceptions:
\* what is cut short right before its delegation or version, and what is followed by
\* what is ignored, anything after an expression and a separator after a header.
OnlyWholeDecodes ==
  LET decoded == Decode(sent.format, wire)
  IN  /\ damage = "cut" => decoded \subseteq CutShort
      /\ damage = "extended" =>
           decoded = CASE sent.format = "cel"    -> Decode("cel", Front(wire))
                       [] sent.format = "header" -> IF Last(wire) \in {",", " ", ":"} THEN {sent.value} ELSE {}
                       [] OTHER                  -> {}

\* Whatever the verifier makes of a message, changed or not, is something that could
\* have been sent: it is legal, and it is what comes of encoding it and decoding that.
\* The one exception is a header whose version is not read, which is one of version 1.
DecodesToNormalForm ==
  \A v \in Decode(sent.format, wire) :
    \/ sent.format = "header" /\ (v.version = 1 \/ v.expr_path = None)
    \/ /\ Legal(sent.format, v)
       /\ Decode(sent.format, Encode(sent.format, v)) = {v}
=============================================================================
