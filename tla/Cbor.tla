-------------------------------- MODULE Cbor --------------------------------
(***************************************************************************)
(* The CBOR that responses carry: the decoder of ic-cbor (cbor_parser.rs,  *)
(* cbor_parse_hash_tree.rs, cbor_parse_certificate.rs), and how serde      *)
(* encodes certificates, trees and paths and decodes them                  *)
(* (ic-certification: hash_tree/mod.rs, certificate.rs).                   *)
(*                                                                         *)
(* Input is a sequence of bytes; a decoder gives the set of what it        *)
(* decodes, which is empty where the code returns an error.  The names of  *)
(* the fields of certificates stand for themselves in their first letter.  *)
(***************************************************************************)
EXTENDS HashTree, FiniteSetsExt, SequencesExt

CONSTANTS
  DigestLength, \* 32
  NumberLimit   \* numbers are not told apart above it, which no input is as long as

ASSUME LimitAssumption == DigestLength \in Nat \ {0} /\ NumberLimit \in 2 ^ 16 .. 2 ^ 22

\* The major types that both sides use.
Bytes == 2
Text  == 3
Array == 4
Map   == 5

\* The names of the fields of certificates and delegations.
TreeField        == <<116>>
SignatureField   == <<115>>
DelegationField  == <<100>>
SubnetIdField    == <<117>>
CertificateField == <<99>>

From(s, i) == SubSeq(s, i, Len(s))

-----------------------------------------------------------------------------
(***************************************************************************)
(* The parser (nom): values with what follows them.                        *)
(***************************************************************************)
BigEndian(bytes) ==
  FoldLeft(LAMBDA n, b : IF 256 * n + b > NumberLimit THEN NumberLimit ELSE 256 * n + b, 0, bytes)

\* extract_cbor_value: the number that a head states and in how many bytes.
ExtractCborValue(s) ==
  LET info == Head(s) % 32
      size == 2 ^ (info - 24)
  IN  IF s = <<>> THEN {}
      ELSE IF info <= 23 THEN {[n |-> info, size |-> 1, rest |-> Tail(s)]}
      ELSE IF info > 27 \/ Len(s) <= size THEN {}
      ELSE {[n |-> BigEndian(SubSeq(s, 2, size + 1)), size |-> size, rest |-> From(s, size + 2)]}

\* What the encoded value is cast to wraps; numbers of four and more bytes are
\* looked at below the limit only.
ToNegative(n, size) ==
  IF size <= 2 /\ n >= 2 ^ (8 * size - 1) THEN -1 - (n - 2 ^ (8 * size)) ELSE -1 - n

IsUtf8(bytes) == \A i \in DOMAIN bytes : bytes[i] < 128

RECURSIVE Parse(_), ParseItems(_, _), ParsePairs(_, _)
Parse(s) ==
  UNION {
    LET type == Head(s) \div 32
        n    == h.n
    IN  CASE type = 0 ->
               {<<[kind |-> IF h.size = 1 /\ n <= 4 THEN "HashTree" ELSE "Unsigned", n |-> n], h.rest>>}
          [] type = 1 -> {<<[kind |-> "Signed", n |-> ToNegative(n, h.size)], h.rest>>}
          [] type \in {Bytes, Text} ->
               IF n > Len(h.rest) THEN {}
               ELSE {<<[kind |-> "ByteString", bytes |-> SubSeq(h.rest, 1, n)], From(h.rest, n + 1)>>}
          [] type = Array -> {<<[kind |-> "Array", items |-> p[1]], p[2]>> : p \in ParseItems(h.rest, n)}
          [] type = Map   -> {<<[kind |-> "Map", pairs |-> p[1]], p[2]>> : p \in ParsePairs(h.rest, n)}
          [] OTHER        -> Parse(h.rest) : h \in ExtractCborValue(s)}

\* count
ParseItems(s, n) ==
  IF n = 0 THEN {<< <<>>, s>>}
  ELSE UNION {{<< <<p[1]>> \o q[1], q[2]>> : q \in ParseItems(p[2], n - 1)} : p \in Parse(s)}

\* extract_key_val_pair
KeyValuePairs(s) ==
  UNION {{<<k[1].bytes, v[1], v[2]>> : v \in Parse(k[2])} :
           k \in {k \in Parse(s) : k[1].kind = "ByteString" /\ IsUtf8(k[1].bytes)}}

\* fold_many_m_n from 0: it ends, without an error, before the first pair that does
\* not parse.  Of pairs with one key the last counts.
ParsePairs(s, n) ==
  LET pairs == IF n = 0 THEN {} ELSE KeyValuePairs(s)
  IN  IF pairs = {} THEN {<< <<>>, s>>}
      ELSE UNION {{<<q[1] @@ (p[1] :> p[2]), q[2]>> : q \in ParsePairs(p[3], n - 1)} : p \in pairs}

\* Mutant: what follows the value is ignored.
ParseCborPrefix(s) == {p[1] : p \in Parse(s)}

ParseCbor(s) == {p[1] : p \in {p \in Parse(s) : p[2] = <<>>}}

-----------------------------------------------------------------------------
(***************************************************************************)
(* From values to what they stand for.                                     *)
(***************************************************************************)
IsArray(v)      == v.kind = "Array"
IsByteString(v) == v.kind = "ByteString"

\* What a map has under a key, or a sequence at an index.
Get(map, key) == {map[k] : k \in DOMAIN map \cap {key}}

GetBytes(map, key) == {v.bytes : v \in {v \in Get(map, key) : IsByteString(v)}}

\* Mutant: hashes of any length.
ToDigestUnchecked(bytes) == {bytes}

ToDigest(bytes) == IF Len(bytes) = DigestLength THEN {bytes} ELSE {}

\* parsed_cbor_to_tree.  Items after those a node needs are ignored.
RECURSIVE ParsedCborToTree(_)
ParsedCborToTree(v) ==
  LET items   == v.items
      tag     == items[1].n
      Data    == GetBytes(items, 2)
      Node(i) == UNION {ParsedCborToTree(w) : w \in Get(items, i)}
  IN  IF ~IsArray(v) \/ items = <<>> \/ items[1].kind # "HashTree" THEN {}
      ELSE CASE tag = 0 -> {Empty}
             [] tag = 1 -> {Fork(l, r) : l \in Node(2), r \in Node(3)}
             [] tag = 2 -> {Labeled(k, c) : k \in Data, c \in Node(3)}
             [] tag = 3 -> {Leaf(b) : b \in Data}
             [] tag = 4 -> {Pruned(h) : h \in UNION {ToDigest(b) : b \in Data}}

\* A delegation is a sequence of at most one; what is no map counts as none.
ParsedCborToDelegation(map) ==
  LET found == {v.pairs : v \in {v \in Get(map, DelegationField) : v.kind = "Map"}}
  IN  IF found = {} THEN {<<>>}
      ELSE UNION {{<<[subnet_id |-> i, certificate |-> c]>> :
                     i \in GetBytes(d, SubnetIdField), c \in GetBytes(d, CertificateField)} : d \in found}

ParsedCborToCertificate(v) ==
  IF v.kind # "Map" THEN {}
  ELSE {[tree |-> t, signature |-> s, delegation |-> d] :
          t \in UNION {ParsedCborToTree(w) : w \in Get(v.pairs, TreeField)},
          s \in GetBytes(v.pairs, SignatureField), d \in ParsedCborToDelegation(v.pairs)}

\* parse_cbor_string_array and parse_cbor_principals_array.
StringArray(v) ==
  IF IsArray(v) /\ \A i \in DOMAIN v.items : IsByteString(v.items[i]) /\ IsUtf8(v.items[i].bytes)
  THEN {[i \in DOMAIN v.items |-> v.items[i].bytes]} ELSE {}

IsRange(v) == IsArray(v) /\ Len(v.items) >= 2 /\ IsByteString(v.items[1]) /\ IsByteString(v.items[2])

PrincipalsArray(v) ==
  IF IsArray(v) /\ \A i \in DOMAIN v.items : IsRange(v.items[i])
  THEN {[i \in DOMAIN v.items |-> <<v.items[i].items[1].bytes, v.items[i].items[2].bytes>>]} ELSE {}

FromCbor(format, s) ==
  UNION {CASE format = "tree"        -> ParsedCborToTree(v)
           [] format = "certificate" -> ParsedCborToCertificate(v)
           [] format = "expr_path"   -> StringArray(v)
           [] format = "ranges"      -> PrincipalsArray(v) : v \in ParseCbor(s)}

-----------------------------------------------------------------------------
(***************************************************************************)
(* Encoding.                                                               *)
(***************************************************************************)
HeadOf(type, n) ==
  IF n < 24 THEN <<32 * type + n>>
  ELSE IF n < 256 THEN <<32 * type + 24, n>>
  ELSE <<32 * type + 25, n \div 256, n % 256>>

EncodeBytes(b) == HeadOf(Bytes, Len(b)) \o b
EncodeText(t)  == HeadOf(Text, Len(t)) \o t

EncodeArray(encoded) == HeadOf(Array, Len(encoded)) \o FlattenSeq(encoded)

RECURSIVE SerializeTree(_)
SerializeTree(n) ==
  EncodeArray(CASE Is("empty", n)   -> << <<0>> >>
                [] Is("fork", n)    -> << <<1>>, SerializeTree(n[2]), SerializeTree(n[3])>>
                [] Is("labeled", n) -> << <<2>>, EncodeBytes(n[2]), SerializeTree(n[3])>>
                [] Is("leaf", n)    -> << <<3>>, EncodeBytes(n[2])>>
                [] Is("pruned", n)  -> << <<4>>, EncodeBytes(n[2])>>)

SerializeDelegation(d) ==
  HeadOf(Map, 2) \o EncodeText(SubnetIdField) \o EncodeBytes(d.subnet_id)
                 \o EncodeText(CertificateField) \o EncodeBytes(d.certificate)

SerializeCertificate(c) ==
  HeadOf(Map, 2 + Len(c.delegation)) \o EncodeText(TreeField) \o SerializeTree(c.tree)
    \o EncodeText(SignatureField) \o EncodeBytes(c.signature)
    \o IF c.delegation = <<>> THEN <<>>
       ELSE EncodeText(DelegationField) \o SerializeDelegation(c.delegation[1])

\* cbor_encode: tagged as CBOR that describes itself.
SelfDescribe == <<217, 217, 247>>

CborEncode(format, v) ==
  SelfDescribe \o
    CASE format = "tree"        -> SerializeTree(v)
      [] format = "certificate" -> SerializeCertificate(v)
      [] format = "expr_path"   -> EncodeArray([i \in DOMAIN v |-> EncodeText(v[i])])
      [] format = "ranges"      -> EncodeArray([i \in DOMAIN v |-> EncodeArray(<<EncodeBytes(v[i][1]), EncodeBytes(v[i][2])>>)])

-----------------------------------------------------------------------------
(***************************************************************************)
(* The visitors of serde: as many items as a node needs and no more, and   *)
(* the fields of a certificate in any order and no others.                 *)
(***************************************************************************)
RECURSIVE VisitTree(_)
VisitTree(v) ==
  LET items          == v.items
      Data           == GetBytes(items, 2)
      Node(tag, len) == items[1].n = tag /\ Len(items) = len
  IN  IF ~IsArray(v) \/ items = <<>> \/ items[1].kind \notin {"HashTree", "Unsigned"} THEN {}
      ELSE CASE Node(0, 1) -> {Empty}
             [] Node(1, 3) -> {Fork(l, r) : l \in VisitTree(items[2]), r \in VisitTree(items[3])}
             [] Node(2, 3) -> {Labeled(k, c) : k \in Data, c \in VisitTree(items[3])}
             [] Node(3, 2) -> {Leaf(b) : b \in Data}
             [] Node(4, 2) -> {Pruned(h) : h \in UNION {ToDigest(b) : b \in Data}}
             [] OTHER      -> {}

VisitDelegation(v) ==
  IF v.kind # "Map" \/ DOMAIN v.pairs # {SubnetIdField, CertificateField} THEN {}
  ELSE {[subnet_id |-> i, certificate |-> c] :
          i \in GetBytes(v.pairs, SubnetIdField), c \in GetBytes(v.pairs, CertificateField)}

VisitCertificate(v) ==
  LET fields == {TreeField, SignatureField}
      has    == DOMAIN v.pairs
      delegation == IF DelegationField \in has THEN {<<d>> : d \in VisitDelegation(v.pairs[DelegationField])} ELSE {<<>>}
  IN  IF v.kind # "Map" \/ has \notin {fields, fields \cup {DelegationField}} THEN {}
      ELSE {[tree |-> t, signature |-> s, delegation |-> d] :
              t \in VisitTree(v.pairs[TreeField]), s \in GetBytes(v.pairs, SignatureField), d \in delegation}
=============================================================================
