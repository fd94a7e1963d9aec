------------------------- MODULE HttpExchangeProofs -------------------------
(***************************************************************************)
(* Which responses are accepted, what is handed on of them, and what       *)
(* becomes of one under a certificate that is not to be trusted, for any   *)
(* cases, responses, requests, bodies, certificates and times, and however *)
(* often the response is changed on its way.                               *)
(*                                                                         *)
(* The invariant follows the certificate.  The builder is one of those     *)
(* that its calls make, so that its certificate passes verification if and *)
(* only if it is to be trusted, and certifies the root hash of the         *)
(* canister's tree; and every header of a response on its way that could   *)
(* be taken for the one with the certificate brings that certificate with  *)
(* a tree of that root hash, or one that does not decode.                  *)
(*                                                                         *)
(* What is accepted under it follows from the hashes: counted value by     *)
(* value, those of two messages are the same if and only if what the       *)
(* expression lets count of the messages is.  What is handed on are the    *)
(* headers that count, put into lower case and in their order, so that     *)
(* again they are the same as those of the case, counted value by value.   *)
(* And a response that equals the certified one has each header as often,  *)
(* since the headers of the two can be paired.                             *)
(***************************************************************************)
EXTENDS HttpExchange, UrlPathsProofs, FiniteSetTheorems

\* The root keys that the builder signs with.
Keys == {"key", "subnet_key", "nested_key"}

\* The values that stand for an absent and for a garbled one are like none that occur:
\* in the code they are variants of their own, None and Err.
MarkersApart ==
  /\ None # Garbled
  /\ None \notin CustomTrees
  /\ \A marker \in {None, Garbled} :
       /\ marker \notin Nat \cup Keys \cup {"gzip", "deflate"} \cup SUBSET (Int \X Int)
       /\ \A a, b, c : marker # [tree |-> a, signature |-> b, delegation |-> c]
       /\ \A a, b : marker # [by |-> a, of |-> b]
       /\ \A a, b : marker # [subnet_id |-> a, certificate |-> b]
       /\ \A a, b : marker # [subnet_id |-> a, canister_id_ranges |-> b]
       /\ \A a, b : marker # [segments |-> a, exact |-> b]
       /\ \A a, b : marker # [http_expr |-> a, http_assets |-> b]
       /\ \A a, b : marker # <<a, b>>
       /\ \A a, b, c, d : marker # <<a, b, c, d>>
       /\ \A e \in {Skip} \cup {k.expression : k \in Cases} : marker # CreateDefaultCelExpr(e)

-----------------------------------------------------------------------------
(***************************************************************************)
(* Verdicts and their codes.                                               *)
(***************************************************************************)
LEMMA VerifyAnswers ==
  ASSUME NEW c, NEW canister, NEW key, NEW now, NEW offset
  PROVE  Verify(c, canister, key, now, offset) \in CertificateErrors \cup {"Ok"}
<1>1. VerifyCertificateTime(c, now, offset) \in CertificateErrors \cup {"Ok"}
  BY DEF VerifyCertificateTime, CertificateErrors
<1>2. VerifyDelegation(c.delegation, canister, key) \in CertificateErrors \cup {"Ok"}
  <2>1. VerifyCertificateSignature(c.delegation.certificate, key) \in CertificateErrors \cup {"Ok"}
    BY DEF VerifyCertificateSignature, CertificateErrors
  <2> QED
    BY <2>1 DEF VerifyDelegation, CertificateErrors
<1>3. VerifyCertificateSignature(c, SigningKey(c, key)) \in CertificateErrors \cup {"Ok"}
  BY DEF VerifyCertificateSignature, CertificateErrors
<1> QED
  BY <1>1, <1>2, <1>3, Zenon DEF Verify

LEMMA CodeLemma ==
  /\ JsErrorCode("Ok") = "Ok"
  /\ JsErrorCode("MalformedUrl") = "HttpCertificationError"
  /\ \A e \in CertificateErrors : JsErrorCode(e) = "CertificateVerificationFailed"
  /\ \A e \in ResponseVerificationErrors :
       JsErrorCode(e) \in (ResponseVerificationErrors \cup {"HeaderMissingCertificateExpression"})
  /\ JsErrorCode("CertificateMissingCertifiedData") = "CertificateMissingCertifiedData"
BY DEF JsErrorCode, CertificateErrors, ResponseVerificationErrors

-----------------------------------------------------------------------------
(***************************************************************************)
(* Headers.                                                                *)
(***************************************************************************)
\* Of several headers with a name the last counts.
LEMMA LastHeaderLemma ==
  ASSUME NEW r, NEW S, r.headers \in Seq(S), NEW name
  PROVE  LET found == {i \in DOMAIN r.headers : LowerCase(r.headers[i][1]) = name}
         IN  \/ found = {} /\ LastHeader(r, name) = None
             \/ \E i \in found : LastHeader(r, name) = r.headers[i][2] /\ \A j \in found : j <= i
<1> DEFINE found == {i \in DOMAIN r.headers : LowerCase(r.headers[i][1]) = name}
<1>1. CASE found = {}
  BY <1>1 DEF LastHeader
<1>2. CASE found # {}
  <2>1. found \in SUBSET (0 .. Len(r.headers)) /\ Len(r.headers) \in Nat
    OBVIOUS
  <2>2. PICK i \in found : \A j \in found : j <= i
    <3> HIDE DEF found
    <3> QED
      BY <1>2, <2>1, GreatestExists
  <2>3. Max(found) \in found /\ \A j \in found : Max(found) >= j
    <3>1. \A j \in found : i >= j
      BY <2>1, <2>2
    <3> HIDE DEF found
    <3> QED
      BY <2>2, <3>1 DEF Max
  <2>4. LastHeader(r, name) = r.headers[Max(found)][2]
    BY <1>2 DEF LastHeader
  <2>5. \A j \in found : j <= Max(found)
    BY <2>1, <2>3
  <2> QED
    BY <2>3, <2>4, <2>5
<1> QED
  BY <1>1, <1>2

IsBuilt(r) ==
  r = [status_code |-> r.status_code, headers |-> r.headers, body |-> r.body, upgrade |-> r.upgrade]

\* A response with other headers.
LEMMA HeadersLemma ==
  ASSUME NEW r, IsBuilt(r), NEW headers
  PROVE  LET changed == [r EXCEPT !.headers = headers]
         IN  /\ IsBuilt(changed) /\ changed.headers = headers
             /\ changed.status_code = r.status_code /\ changed.body = r.body
<1>1. PICK a, s, b, u : r = [status_code |-> a, headers |-> s, body |-> b, upgrade |-> u]
  BY DEF IsBuilt
<1>2. [r EXCEPT !.headers = headers] = [status_code |-> a, headers |-> headers, body |-> b, upgrade |-> u]
  BY <1>1
<1>3. r.status_code = a /\ r.body = b
  BY <1>1
<1> HIDE <1>1
<1> QED
  BY <1>2, <1>3 DEF IsBuilt

\* The header that is added last is the last of its name.
LEMMA AddHeaderLemma ==
  ASSUME NEW r, IsBuilt(r), NEW S, r.headers \in Seq(S), NEW name, NEW value, NEW other
  PROVE  LET added == AddHeader(r, <<name, value>>)
         IN  /\ IsBuilt(added) /\ added.status_code = r.status_code /\ added.body = r.body
             /\ added.headers = Append(r.headers, <<name, value>>)
             /\ LastHeader(added, other) = IF LowerCase(name) = other THEN value ELSE LastHeader(r, other)
<1> DEFINE added == AddHeader(r, <<name, value>>)
           T     == S \cup {<<name, value>>}
           n     == Len(r.headers)
<1>1. /\ IsBuilt(added) /\ added.status_code = r.status_code /\ added.body = r.body
      /\ added.headers = Append(r.headers, <<name, value>>)
  BY HeadersLemma DEF AddHeader
<1>2. /\ r.headers \in Seq(T) /\ added.headers \in Seq(T) /\ n \in Nat
      /\ DOMAIN r.headers = 1 .. n /\ DOMAIN added.headers = 1 .. n + 1
      /\ added.headers[n + 1] = <<name, value>>
      /\ \A i \in 1 .. n : added.headers[i] = r.headers[i]
  <2> DEFINE s == r.headers
             h == <<name, value>>
  <2>1. h \in T /\ s \in Seq(T)
    OBVIOUS
  <2>2. Append(s, h) \in Seq(T) /\ DOMAIN Append(s, h) = 1 .. n + 1 /\ Append(s, h)[n + 1] = h
        /\ n \in Nat /\ DOMAIN s = 1 .. n /\ \A i \in 1 .. n : Append(s, h)[i] = s[i]
    <3>1. n = Len(s)
      OBVIOUS
    <3> HIDE DEF s, h, T, n
    <3> QED
      BY <2>1, <3>1, SMT
  <2> QED
    BY <1>1, <2>1, <2>2
<1> HIDE DEF added, T, n
<1>3. CASE LowerCase(name) = other
  <2>1. n + 1 \in DOMAIN added.headers /\ LowerCase(added.headers[n + 1][1]) = other
    BY <1>2, <1>3
  <2>2. PICK i \in DOMAIN added.headers :
          LastHeader(added, other) = added.headers[i][2] /\ n + 1 <= i
    BY <1>2, <2>1, LastHeaderLemma
  <2>3. i = n + 1
    BY <1>2, <2>2
  <2>4. LastHeader(added, other) = value
    BY <1>2, <2>2, <2>3
  <2> QED
    BY <1>1, <1>3, <2>4 DEF added
<1>4. CASE LowerCase(name) # other
  <2> DEFINE before == {i \in DOMAIN r.headers : LowerCase(r.headers[i][1]) = other}
             after  == {i \in DOMAIN added.headers : LowerCase(added.headers[i][1]) = other}
  <2>1. before = after
    BY <1>2, <1>4
  <2>2. LastHeader(added, other) = LastHeader(r, other)
    <3>1. CASE after = {}
      BY <2>1, <3>1 DEF LastHeader
    <3>2. CASE after # {}
      <4>1. PICK i \in after : LastHeader(added, other) = added.headers[i][2] /\ \A j \in after : j <= i
        BY <1>2, <3>2, LastHeaderLemma
      <4>2. PICK k \in before : LastHeader(r, other) = r.headers[k][2] /\ \A j \in before : j <= k
        BY <1>2, <2>1, <3>2, LastHeaderLemma
      <4>3. i = k /\ i \in 1 .. n
        BY <1>2, <2>1, <4>1, <4>2
      <4> QED
        BY <1>2, <4>1, <4>2, <4>3
    <3> QED
      BY <3>1, <3>2
  <2> QED
    BY <1>1, <1>4, <2>2 DEF added
<1> QED
  BY <1>3, <1>4

-----------------------------------------------------------------------------
(***************************************************************************)
(* The certificates of the builder: what they are and when they pass.      *)
(***************************************************************************)
Delegates == {None} \cup {SubnetData(subnet, Subnets[subnet]) : subnet \in DOMAIN Subnets}

CanisterData == {[canister_id |-> Canister, certified_data |-> RootHash(tree)] : tree \in {CertifiedTree, SkippingTree}}

IBuilder ==
  builder \in [time : Nat \cup {None}, canister : CanisterData \cup {None}, subnet : Delegates,
               nested_subnet : Delegates, signature : {None, Garbled}, custom_tree : CustomTrees \cup {None}]

TimeOf(b) == (IF b.time = None THEN DefaultCertificateTime ELSE b.time) % (MaxU64 + 1)

ContentsOf(b) ==
  IF b.custom_tree # None THEN b.custom_tree ELSE CreateCertificateTree(b.canister, TimeOf(b))

DelegationOf(b) ==
  IF b.subnet = None THEN None
  ELSE IF b.nested_subnet = None THEN BuildDelegation(b, TimeOf(b)) ELSE BuildNestedDelegation(b, TimeOf(b))

RootOf(b) ==
  IF b.subnet = None THEN "key" ELSE IF b.nested_subnet = None THEN "subnet_key" ELSE "nested_key"

LEMMA BuildLemma ==
  ASSUME NEW b
  PROVE  LET c == Build(b).certificate
         IN  /\ c.tree = MixedHashTree(ContentsOf(b)) /\ c.delegation = DelegationOf(b)
             /\ c = [tree |-> c.tree, signature |-> c.signature, delegation |-> c.delegation]
             /\ c.signature = IF b.signature = None THEN Sign(c.tree, "key") ELSE b.signature
             /\ Build(b).root_key = RootOf(b)
<1> DEFINE contents == ContentsOf(b)
           built == BuildCertificate(contents, "key", DelegationOf(b))
           certified == IF b.signature = None THEN built ELSE [built EXCEPT !.signature = b.signature]
<1>1. Build(b) = [certificate |-> certified, root_key |-> RootOf(b)]
  <2>1. CASE b.subnet = None
    BY <2>1 DEF Build, ContentsOf, DelegationOf, RootOf, TimeOf, LebEncodeTimestamp
  <2>2. CASE b.subnet # None /\ b.nested_subnet = None
    BY <2>2 DEF Build, ContentsOf, DelegationOf, RootOf, TimeOf, LebEncodeTimestamp
  <2>3. CASE b.subnet # None /\ b.nested_subnet # None
    BY <2>3 DEF Build, ContentsOf, DelegationOf, RootOf, TimeOf, LebEncodeTimestamp
  <2> QED
    BY <2>1, <2>2, <2>3
<1>2. built = [tree |-> MixedHashTree(contents), signature |-> Sign(MixedHashTree(contents), "key"),
               delegation |-> DelegationOf(b)]
  BY DEF BuildCertificate
<1>3. Build(b).certificate = certified /\ Build(b).root_key = RootOf(b)
  BY <1>1
<1> HIDE DEF contents, built
<1>4. certified = [tree |-> MixedHashTree(contents),
                   signature |-> IF b.signature = None THEN Sign(MixedHashTree(contents), "key") ELSE b.signature,
                   delegation |-> DelegationOf(b)]
  BY <1>2
<1> HIDE DEF certified
<1> QED
  BY <1>3, <1>4 DEF contents

LEMMA TimeLemma ==
  ASSUME NEW b, b.time \in Nat \cup {None}
  PROVE  TimeOf(b) \in 0 .. MaxU64
<1>1. (IF b.time = None THEN DefaultCertificateTime ELSE b.time) \in Nat
  BY TimeAssumption
<1>2. MaxU64 + 1 \in Nat /\ MaxU64 + 1 > 0
  BY TimeAssumption
<1>3. \A a, m \in Nat : m > 0 => a % m \in 0 .. m - 1
  OBVIOUS
<1>4. TimeOf(b) \in 0 .. (MaxU64 + 1) - 1
  BY <1>1, <1>2, <1>3 DEF TimeOf
<1> QED
  BY <1>4, TimeAssumption

\* Of a certificate for the canister the time passes if it is not too far off.
LEMMA TimePasses ==
  ASSUME MarkersApart, NEW b, b.time \in Nat \cup {None}, b.custom_tree = None, NEW c,
         c.tree = MixedHashTree(ContentsOf(b))
  PROVE  VerifyCertificateTime(c, Now, Offset) = "Ok" <=> Now - Offset <= TimeOf(b) /\ TimeOf(b) <= Now + Offset
<1> DEFINE time == TimeOf(b)
<1>1. LookupPath(c.tree, TimePath) = time
  BY DEF ContentsOf, CreateCertificateTree, MixedHashTree, LookupPath
<1>2. time \in Nat /\ time <= MaxU64
  BY TimeLemma, TimeAssumption
<1>3. time # None /\ time # Garbled
  BY <1>2 DEF MarkersApart
<1>4. time > SaturatingAdd(Now, Offset) <=> ~ (time <= Now + Offset)
  BY <1>2, TimeAssumption, WidthAssumption, BuilderAssumption DEF SaturatingAdd
<1>5. time < SaturatingSub(Now, Offset) <=> ~ (Now - Offset <= time)
  BY <1>2, BuilderAssumption DEF SaturatingSub
<1> HIDE DEF time
<1> QED
  BY <1>1, <1>3, <1>4, <1>5 DEF VerifyCertificateTime, time

\* A signature passes unless it was made invalid.
LEMMA SignaturePasses ==
  ASSUME MarkersApart, NEW b, b.signature \in {None, Garbled}, NEW c,
         c.signature = IF b.signature = None THEN Sign(c.tree, "key") ELSE b.signature
  PROVE  VerifyCertificateSignature(c, "key") = "Ok" <=> b.signature = None
<1>1. "key" # Garbled
  BY DEF MarkersApart, Keys
<1>2. Garbled # [by |-> "key", of |-> Digest(c.tree)]
  BY DEF MarkersApart
<1>3. None # Garbled
  BY DEF MarkersApart
<1> QED
  BY <1>1, <1>2, <1>3 DEF VerifyCertificateSignature, Sign

\* What a subnet delegates it delegates to one key, for the canisters in its ranges.
LEMMA DelegationTreeLemma ==
  ASSUME NEW delegatee, NEW time, NEW subnet, NEW key, NEW nested, NEW d,
         d = CreateDelegationData(delegatee, time, subnet, key, nested)
  PROVE  LET cert == d.certificate
         IN  /\ d = [subnet_id |-> subnet.subnet_id, certificate |-> cert]
             /\ cert = [tree |-> cert.tree, signature |-> [by |-> key, of |-> Digest(cert.tree)], delegation |-> nested]
             /\ LookupPath(cert.tree, CanisterRangesPath(d.subnet_id)) = subnet.canister_id_ranges
             /\ LookupPath(cert.tree, PublicKeyPath(d.subnet_id)) = delegatee
<1> DEFINE contents == CreateDelegationTree(delegatee, time, subnet)
           tree == MixedHashTree(contents)
           id == subnet.subnet_id
           cert == BuildCertificate(contents, key, nested)
<1>1. d = [subnet_id |-> id, certificate |-> cert]
  BY DEF CreateDelegationData
<1>2. cert = [tree |-> tree, signature |-> [by |-> key, of |-> Digest(tree)], delegation |-> nested]
  BY DEF BuildCertificate, Sign
<1>3. /\ CanisterRangesPath(id) # TimePath /\ PublicKeyPath(id) # TimePath
      /\ PublicKeyPath(id) # CanisterRangesPath(id)
  BY DEF CanisterRangesPath, PublicKeyPath, TimePath, Path
<1>4. /\ LookupPath(tree, CanisterRangesPath(id)) = subnet.canister_id_ranges
      /\ LookupPath(tree, PublicKeyPath(id)) = delegatee
  <2> HIDE DEF id
  <2> QED
    BY <1>3 DEF LookupPath, MixedHashTree, CreateDelegationTree, id
<1> HIDE DEF cert, tree, id
<1>5. d.subnet_id = id /\ d.certificate = cert
  BY <1>1
<1>6. cert.tree = tree
  BY <1>2
<1> QED
  BY <1>1, <1>2, <1>4, <1>5, <1>6 DEF id

LEMMA DelegationPasses ==
  ASSUME MarkersApart, NEW s \in DOMAIN Subnets, NEW time, NEW key, NEW delegatee, delegatee \in Keys, key \in Keys,
         NEW d, d = CreateDelegationData(delegatee, time, SubnetData(s, Subnets[s]), key, None)
  PROVE  /\ VerifyDelegation(d, Canister, key) = "Ok" <=>
              \E range \in Subnets[s] : Canister \in range[1] .. range[2]
         /\ LookupPath(d.certificate.tree, PublicKeyPath(d.subnet_id)) = delegatee
         /\ d # None
<1> DEFINE subnet == SubnetData(s, Subnets[s])
           cert == d.certificate
<1>1. subnet.subnet_id = s /\ subnet.canister_id_ranges = Subnets[s]
  BY DEF SubnetData
<1>2. /\ d = [subnet_id |-> subnet.subnet_id, certificate |-> cert]
      /\ cert = [tree |-> cert.tree, signature |-> [by |-> key, of |-> Digest(cert.tree)], delegation |-> None]
      /\ LookupPath(cert.tree, CanisterRangesPath(d.subnet_id)) = Subnets[s]
      /\ LookupPath(cert.tree, PublicKeyPath(d.subnet_id)) = delegatee
  BY <1>1, DelegationTreeLemma
<1> HIDE DEF cert, subnet
<1>3. d # None /\ cert # Garbled
  BY <1>2 DEF MarkersApart
<1>4. cert.delegation = None /\ cert.signature = [by |-> key, of |-> Digest(cert.tree)]
  BY <1>2
<1>5. key # Garbled /\ delegatee # None
  BY DEF MarkersApart
<1>6. VerifyCertificateSignature(cert, key) = "Ok"
  BY <1>4, <1>5 DEF VerifyCertificateSignature
<1>7. Subnets[s] # None /\ Subnets[s] # Garbled
  BY BuilderAssumption DEF MarkersApart
<1>8. PrincipalIsWithinRanges(Canister, Subnets[s]) <=> \E range \in Subnets[s] : Canister \in range[1] .. range[2]
  <2>1. \A r \in Subnets[s] : r[1] \in Int /\ r[2] \in Int
    BY BuilderAssumption
  <2>2. \A x, y \in Int : Canister >= x /\ Canister <= y <=> Canister \in x .. y
    BY DEF Canister
  <2> QED
    BY <2>1, <2>2 DEF PrincipalIsWithinRanges
<1>9. VerifyDelegation(d, Canister, key) = "Ok" <=> PrincipalIsWithinRanges(Canister, Subnets[s])
  <2> DEFINE within == PrincipalIsWithinRanges(Canister, Subnets[s])
  <2> HIDE DEF within
  <2>1. VerifyDelegation(d, Canister, key) = IF ~within THEN "PrincipalOutOfRange" ELSE "Ok"
    BY <1>2, <1>3, <1>4, <1>5, <1>6, <1>7 DEF VerifyDelegation, cert, within
  <2> QED
    BY <2>1 DEF within
<1> QED
  BY <1>2, <1>3, <1>8, <1>9 DEF cert

\* Of a delegation that is itself delegated none passes.
LEMMA NestedRefused ==
  ASSUME MarkersApart, NEW b, NEW time, NEW root, NEW d, d = BuildNestedDelegation(b, time)
  PROVE  VerifyDelegation(d, Canister, root) # "Ok" /\ d # None
<1> DEFINE nested == CreateDelegationData("key", time, b.nested_subnet, "nested_key", None)
           cert == d.certificate
<1>1. nested # None
  BY DEF CreateDelegationData, MarkersApart
<1>2. /\ d = [subnet_id |-> b.subnet.subnet_id, certificate |-> cert]
      /\ cert = [tree |-> cert.tree, signature |-> [by |-> "subnet_key", of |-> Digest(cert.tree)], delegation |-> nested]
  BY DelegationTreeLemma DEF BuildNestedDelegation
<1> HIDE DEF nested, cert
<1>3. d # None /\ cert.delegation = nested
  BY <1>2 DEF MarkersApart
<1> QED
  BY <1>1, <1>3 DEF VerifyDelegation, cert

-----------------------------------------------------------------------------
\* The certificate of a canister passes if and only if it is to be trusted.
LEMMA TrustedPasses ==
  ASSUME MarkersApart, IBuilder, builder.custom_tree = None
  PROVE  Verify(Certificate, Canister, Root, Now, Offset) = "Ok" <=> Trusted
<1> DEFINE b == builder
           c == Certificate
           d == DelegationOf(builder)
           within == \E range \in b.subnet.canister_id_ranges : Canister \in range[1] .. range[2]
           timely == Now - Offset <= TimeOf(b) /\ TimeOf(b) <= Now + Offset
<1>1. /\ c.tree = MixedHashTree(ContentsOf(b)) /\ c.delegation = d
      /\ c.signature = IF b.signature = None THEN Sign(c.tree, "key") ELSE b.signature
      /\ Root = RootOf(b)
  BY BuildLemma DEF Certificate, Root
<1>2. /\ b.time \in Nat \cup {None} /\ b.signature \in {None, Garbled}
      /\ b.subnet \in Delegates /\ b.nested_subnet \in Delegates
  BY DEF IBuilder
<1>3. Trusted <=> /\ timely /\ b.signature = None
                  /\ b.subnet # None => b.nested_subnet = None /\ within
  BY DEF Trusted, TimeOf
<1> HIDE DEF b, c, d, within, timely
<1>4. VerifyCertificateTime(c, Now, Offset) = "Ok" <=> timely
  BY <1>1, <1>2, TimePasses DEF timely, b
<1>5. VerifyCertificateSignature(c, "key") = "Ok" <=> b.signature = None
  BY <1>1, <1>2, SignaturePasses
<1>6. CASE b.subnet = None
  <2>1. d = None /\ SigningKey(c, Root) = "key"
    BY <1>1, <1>6 DEF d, b, DelegationOf, SigningKey, RootOf
  <2> QED
    BY <1>1, <1>3, <1>4, <1>5, <1>6, <2>1 DEF Verify, c
<1>7. CASE b.subnet # None /\ b.nested_subnet = None
  <2>1. PICK s \in DOMAIN Subnets : b.subnet = SubnetData(s, Subnets[s])
    BY <1>2, <1>7 DEF Delegates
  <2>2. d = CreateDelegationData("key", TimeOf(b), SubnetData(s, Subnets[s]), "subnet_key", None) /\ Root = "subnet_key"
    BY <1>1, <1>7, <2>1 DEF d, b, DelegationOf, BuildDelegation, RootOf
  <2>3. b.subnet.canister_id_ranges = Subnets[s]
    BY <2>1 DEF SubnetData
  <2>4. "key" \in Keys /\ "subnet_key" \in Keys
    BY DEF Keys
  <2>5. /\ VerifyDelegation(d, Canister, Root) = "Ok" <=> within
        /\ LookupPath(d.certificate.tree, PublicKeyPath(d.subnet_id)) = "key"
        /\ d # None
    BY <2>2, <2>3, <2>4, DelegationPasses DEF within
  <2>6. SigningKey(c, Root) = "key"
    BY <1>1, <2>5 DEF SigningKey
  <2> QED
    BY <1>1, <1>3, <1>4, <1>5, <1>7, <2>5, <2>6 DEF Verify, c
<1>8. CASE b.subnet # None /\ b.nested_subnet # None
  <2>1. d = BuildNestedDelegation(b, TimeOf(b))
    BY <1>8 DEF d, b, DelegationOf
  <2>2. VerifyDelegation(d, Canister, Root) # "Ok" /\ d # None
    BY <2>1, NestedRefused
  <2> QED
    BY <1>1, <1>3, <1>8, <2>2 DEF Verify, c
<1> QED
  BY <1>6, <1>7, <1>8

-----------------------------------------------------------------------------
(***************************************************************************)
(* The verdict on a response, by the version it claims.                    *)
(***************************************************************************)
Refusals == ResponseVerificationErrors \cup {"MalformedUrl"}

NothingCertified(c) == LookupPath(c.tree, CertifiedDataPath(Canister)) = None

LEMMA V1Answers ==
  ASSUME NEW body \in {"MalformedUrl", "IoError", "Ok", "InvalidResponseBody"}, NEW c, NEW tree,
         NEW key, NEW now, NEW offset
  PROVE  LET v == Verify(c, Canister, key, now, offset)
             w == V1Verification(body, c, tree, Canister, key, now, offset)
         IN  /\ v # "Ok" => w = v
             /\ v = "Ok" => w \in Refusals \cup {"Ok"}
             /\ v = "Ok" /\ NothingCertified(c) => w \in Refusals
             /\ v = "Ok" /\ NothingCertified(c) /\ body \in {"Ok", "InvalidResponseBody"} =>
                  w = "CertificateMissingCertifiedData"
<1> DEFINE v == Verify(c, Canister, key, now, offset)
           t == ValidateTree(Canister, c, tree)
<1>1. t \in {"CertificateMissingCertifiedData", "InvalidTreeRootHash", "Ok"}
  BY DEF ValidateTree
<1>2. NothingCertified(c) => t = "CertificateMissingCertifiedData"
  BY DEF ValidateTree, NothingCertified
<1>3. V1Verification(body, c, tree, Canister, key, now, offset) =
        IF v # "Ok" THEN v
        ELSE IF body \in {"MalformedUrl", "IoError"} THEN body
        ELSE IF t # "Ok" THEN t
        ELSE body
  BY DEF V1Verification
<1> HIDE DEF v, t
<1> QED
  BY <1>1, <1>2, <1>3 DEF Refusals, ResponseVerificationErrors, v

LEMMA V2Answers ==
  ASSUME NEW url, NEW recomputed, NEW c, NEW tree, NEW certified, NEW place, NEW key, NEW now, NEW offset
  PROVE  LET v == Verify(c, Canister, key, now, offset)
             w == V2Verification(url, recomputed, c, tree, certified, place, Canister, key, now, offset)
         IN  /\ v # "Ok" => w = v
             /\ v = "Ok" => w \in Refusals \cup {"Ok"}
             /\ v = "Ok" /\ NothingCertified(c) => w = "CertificateMissingCertifiedData"
<1> DEFINE v == Verify(c, Canister, key, now, offset)
           t == ValidateTree(Canister, c, tree)
           w == V2Verification(url, recomputed, c, tree, certified, place, Canister, key, now, offset)
<1>1. t \in {"CertificateMissingCertifiedData", "InvalidTreeRootHash", "Ok"}
  BY DEF ValidateTree
<1>2. NothingCertified(c) => t = "CertificateMissingCertifiedData"
  BY DEF ValidateTree, NothingCertified
<1>3. /\ v # "Ok" => w = v
      /\ v = "Ok" /\ t # "Ok" => w = t
      /\ v = "Ok" /\ t = "Ok" => w \in {"ExpressionPathRefused", "InvalidExpressionHash", "Ok"}
  BY DEF V2Verification
<1> HIDE DEF v, t, w
<1> QED
  BY <1>1, <1>2, <1>3 DEF Refusals, ResponseVerificationErrors, v, w

\* A header as the canister makes it, in a response whose expression can be read or
\* whose body can be decoded.
IsWhole(r) ==
  LET fields == LastHeader(r, "ic-certificate")
      cel    == LastHeader(r, "ic-certificateexpression")
  IN  /\ fields # None /\ CertificateHeaderFrom(fields) = "Ok"
      /\ \/ /\ Version(fields) = 2 /\ FirstField(fields, "expr_path") # None
            /\ cel # None /\ ReadCel(cel) # {}
         \/ Version(fields) = 1 /\ DecodeBody(r.body, LastHeader(r, "content-encoding")) # {}

LEMMA ExchangeAnswers ==
  ASSUME NEW q, NEW r, NEW key, NEW now, NEW offset
  PROVE  LET fields == LastHeader(r, "ic-certificate")
             c == FirstField(fields, "certificate")
             v == Verify(c, Canister, key, now, offset)
             w == VerifyExchange(q, r, Canister, key, now, offset, MinVerificationVersion)
         IN  /\ fields = None \/ CertificateHeaderFrom(fields) # "Ok" => w \in ResponseVerificationErrors
             /\ w = v \/ w \in Refusals
             /\ NothingCertified(c) => (w = v /\ v # "Ok") \/ w \in Refusals
             /\ IsWhole(r) /\ GetPath(q) # <<>> =>
                  /\ v # "Ok" => w = v
                  /\ v = "Ok" /\ NothingCertified(c) => w = "CertificateMissingCertifiedData"
<1> DEFINE fields == LastHeader(r, "ic-certificate")
           cel == LastHeader(r, "ic-certificateexpression")
           c == FirstField(fields, "certificate")
           tree == FirstField(fields, "tree")
           place == FirstField(fields, "expr_path")
           read == ReadCel(cel)
           path == GetPath(q)
           body == BodyOutcome(q, r, tree)
           v == Verify(c, Canister, key, now, offset)
           v1 == V1Verification(body, c, RootHash(tree), Canister, key, now, offset)
           recomputed == RecomputedCertification(cel, CHOOSE e \in read : TRUE, q, r)
           checked == V2Verification(path[1], recomputed, c, RootHash(tree), tree.http_expr, place,
                                     Canister, key, now, offset)
           v2 == IF read = {} THEN "CelError" ELSE IF path = <<>> THEN "MalformedUrl" ELSE checked
           w == VerifyExchange(q, r, Canister, key, now, offset, MinVerificationVersion)
           from == CertificateHeaderFrom(fields)
<1>1. w = VerifyVersion(fields, cel, MinVerificationVersion, v1, v2)
  BY DEF VerifyExchange
<1>2. /\ body \in {"MalformedUrl", "IoError", "Ok", "InvalidResponseBody"}
      /\ path # <<>> /\ DecodeBody(r.body, LastHeader(r, "content-encoding")) # {} =>
           body \in {"Ok", "InvalidResponseBody"}
  BY DEF BodyOutcome
<1>3. from \in {"DecodingError", "HeaderMissingCertificate", "HeaderMissingTree", "Ok"}
  BY DEF CertificateHeaderFrom
<1>4. /\ v # "Ok" => v1 = v
      /\ v = "Ok" => v1 \in Refusals \cup {"Ok"}
      /\ v = "Ok" /\ NothingCertified(c) => v1 \in Refusals
      /\ v = "Ok" /\ NothingCertified(c) /\ body \in {"Ok", "InvalidResponseBody"} =>
           v1 = "CertificateMissingCertifiedData"
  <2> HIDE DEF body, c, tree
  <2> QED
    BY <1>2, V1Answers
<1>5. /\ v # "Ok" => checked = v
      /\ v = "Ok" => checked \in Refusals \cup {"Ok"}
      /\ v = "Ok" /\ NothingCertified(c) => checked = "CertificateMissingCertifiedData"
  <2> HIDE DEF c, tree, recomputed, place, path
  <2> QED
    BY V2Answers
<1>6. IsWhole(r) => /\ fields # None /\ from = "Ok"
                    /\ \/ Version(fields) = 2 /\ place # None /\ cel # None /\ read # {}
                       \/ Version(fields) = 1 /\ DecodeBody(r.body, LastHeader(r, "content-encoding")) # {}
  BY DEF IsWhole
<1> HIDE DEF fields, cel, c, tree, place, read, path, body, v, v1, checked, w, from
<1>7. \/ fields = None /\ w = "HeaderMissingCertification"
      \/ fields # None /\ from # "Ok" /\ w = from
      \/ fields # None /\ from = "Ok" /\ Version(fields) = 1 /\ w = v1
      \/ fields # None /\ from = "Ok" /\ Version(fields) = 2 /\ cel # None /\ place # None /\ w = v2
      \/ fields # None /\ from = "Ok" /\ ~IsWhole(r) /\
           w \in {"RequestedVerificationVersionMismatch", "UnsupportedVerificationVersion",
                  "HeaderMissingCertification", "HeaderMissingCertificateExpressionPath"}
  BY <1>1, <1>6 DEF VerifyVersion, MinVerificationVersion, from, place
<1>8. (v2 \in {"CelError", "MalformedUrl"} /\ (read = {} \/ path = <<>>)) \/ v2 = checked
  OBVIOUS
<1> HIDE DEF v2
<1>9. {"CelError", "MalformedUrl", "RequestedVerificationVersionMismatch", "UnsupportedVerificationVersion",
       "HeaderMissingCertification", "HeaderMissingCertificateExpressionPath"} \subseteq Refusals
      /\ ResponseVerificationErrors \subseteq Refusals /\ "CertificateMissingCertifiedData" \in Refusals
      /\ {"HeaderMissingCertification", "DecodingError", "HeaderMissingCertificate", "HeaderMissingTree"}
            \subseteq ResponseVerificationErrors
  BY DEF Refusals, ResponseVerificationErrors
<1>10. fields = None \/ from # "Ok" => w \in ResponseVerificationErrors
  BY <1>3, <1>7, <1>9
<1>11. (w = v \/ w \in Refusals) /\ (NothingCertified(c) => (w = v /\ v # "Ok") \/ w \in Refusals)
  <2>1. CASE w \in Refusals
    BY <2>1
  <2>2. CASE w = v1
    BY <1>4, <2>2
  <2>3. CASE w = v2 /\ v2 = checked
    BY <1>5, <1>9, <2>3
  <2>4. w \in Refusals \/ w = v1 \/ (w = v2 /\ v2 = checked)
    BY <1>3, <1>7, <1>8, <1>9
  <2> QED
    BY <2>1, <2>2, <2>3, <2>4
<1>12. IsWhole(r) /\ path # <<>> =>
         /\ v # "Ok" => w = v
         /\ v = "Ok" /\ NothingCertified(c) => w = "CertificateMissingCertifiedData"
  BY <1>2, <1>4, <1>5, <1>6, <1>7, <1>8
<1> QED
  BY <1>10, <1>11, <1>12 DEF fields, c, v, w, from, path

-----------------------------------------------------------------------------
(***************************************************************************)
(* A response on its way: what no change to it takes away.                 *)
(***************************************************************************)
\* The bodies that a tree can show.
ShownAssets == {AssetTree, EmptyAssets} \cup Witnesses

\* What a header brings that the canister made: its certificate, a tree of bodies under
\* its root and, in version 2, a place at which it answers.
Brings(fields, c, served) ==
  LET tree == FirstField(fields, "tree")
  IN  /\ FirstField(fields, "certificate") = c /\ CertificateHeaderFrom(fields) = "Ok"
      /\ RootHash(tree) = served.root /\ tree.http_assets \in ShownAssets
      /\ Version(fields) = 2 => FirstField(fields, "expr_path") \in served.places

\* A header that brings these or no certificate, and a response of such.
Carries(h, c, served) ==
  /\ h = <<h[1], h[2]>>
  /\ LowerCase(h[1]) = "ic-certificate" =>
       FirstField(h[2], "certificate") \in {None, Garbled} \/ Brings(h[2], c, served)

OnItsWay(r, c, served) == IsBuilt(r) /\ r.headers \in Seq({h \in ToSet(r.headers) : Carries(h, c, served)})

LEMMA CarriesLemma ==
  ASSUME NEW c, NEW served, NEW T, \A h \in T : Carries(h, c, served), NEW s \in Seq(T)
  PROVE  s \in Seq({h \in ToSet(s) : Carries(h, c, served)})
<1> DEFINE S == {h \in ToSet(s) : Carries(h, c, served)}
<1>1. s \in [1 .. Len(s) -> T] /\ Len(s) \in Nat
  OBVIOUS
<1>2. \A i \in 1 .. Len(s) : s[i] \in S
  BY <1>1 DEF ToSet
<1>3. s \in [1 .. Len(s) -> S]
  <2> HIDE DEF S
  <2> QED
    BY <1>1, <1>2
<1> HIDE DEF S
<1>4. s \in Seq(S)
  BY <1>1, <1>3, SeqDef
<1> QED
  BY <1>4 DEF S

LEMMA ChangedHeaders ==
  ASSUME NEW c, NEW served, NEW r, IsBuilt(r), NEW T, \A h \in T : Carries(h, c, served), NEW headers \in Seq(T)
  PROVE  OnItsWay([r EXCEPT !.headers = headers], c, served)
<1> DEFINE changed == [r EXCEPT !.headers = headers]
<1>1. IsBuilt(changed) /\ changed.headers = headers
  BY HeadersLemma
<1> HIDE DEF changed
<1>2. headers \in Seq({h \in ToSet(headers) : Carries(h, c, served)})
  BY CarriesLemma
<1>3. OnItsWay(changed, c, served)
  BY <1>1, <1>2 DEF OnItsWay
<1> QED
  BY <1>3 DEF changed

LEMMA ResponseOnItsWay ==
  ASSUME NEW c, NEW served, NEW r, IsResponse(r)
  PROVE  /\ OnItsWay(r, c, served) /\ IsBuilt(r) /\ IsStatusCode(r.status_code)
         /\ \E T : r.headers \in Seq(T) /\ \A h \in T : Carries(h, c, served)
<1> DEFINE T == {h \in ToSet(r.headers) : BringsNoCertificate(h)}
<1>1. r.headers \in Seq(T) /\ IsBuilt(r) /\ IsStatusCode(r.status_code)
  BY DEF IsResponse, IsBuilt
<1>2. \A h \in T : Carries(h, c, served)
  BY DEF BringsNoCertificate, Carries
<1> HIDE DEF T
<1> QED
  BY <1>1, <1>2, CarriesLemma DEF OnItsWay

LEMMA AddOnItsWay ==
  ASSUME NEW c, NEW served, NEW r, OnItsWay(r, c, served), NEW h, Carries(h, c, served)
  PROVE  OnItsWay(AddHeader(r, h), c, served) /\ OnItsWay([r EXCEPT !.headers = <<h>> \o @], c, served)
<1> DEFINE S == {x \in ToSet(r.headers) : Carries(x, c, served)}
           T == S \cup {h}
           s == r.headers
<1>1. IsBuilt(r) /\ s \in Seq(S)
  BY DEF OnItsWay
<1>2. \A x \in T : Carries(x, c, served)
  OBVIOUS
<1>3. S \subseteq T /\ h \in T
  OBVIOUS
<1> HIDE DEF S, T, s
<1>4. s \in Seq(T)
  BY <1>1, <1>3
<1>5. Append(s, h) \in Seq(T) /\ <<h>> \o s \in Seq(T)
  BY <1>3, <1>4
<1> QED
  BY <1>1, <1>2, <1>5, ChangedHeaders DEF s, AddHeader

LEMMA RemoveOnItsWay ==
  ASSUME NEW c, NEW served, NEW r, OnItsWay(r, c, served), NEW i \in DOMAIN r.headers
  PROVE  OnItsWay([r EXCEPT !.headers = RemoveAt(@, i)], c, served)
<1> DEFINE S == {x \in ToSet(r.headers) : Carries(x, c, served)}
           s == r.headers
<1>1. IsBuilt(r) /\ s \in Seq(S)
  BY DEF OnItsWay
<1>2. \A x \in S : Carries(x, c, served)
  OBVIOUS
<1> HIDE DEF S, s
<1>3. i \in 1 .. Len(s) /\ Len(s) \in Nat
  BY <1>1 DEF s
<1>4. SubSeq(s, 1, i - 1) \in Seq(S) /\ SubSeq(s, i + 1, Len(s)) \in Seq(S)
  BY <1>1, <1>3
<1>5. RemoveAt(s, i) \in Seq(S)
  BY <1>4 DEF RemoveAt
<1> QED
  BY <1>1, <1>2, <1>5, ChangedHeaders DEF s

LEMMA SwapOnItsWay ==
  ASSUME NEW c, NEW served, NEW r, OnItsWay(r, c, served), NEW i \in DOMAIN r.headers, i < Len(r.headers)
  PROVE  OnItsWay([r EXCEPT !.headers[i] = r.headers[i + 1], !.headers[i + 1] = r.headers[i]], c, served)
<1> DEFINE S == {x \in ToSet(r.headers) : Carries(x, c, served)}
           s == r.headers
           t == [[s EXCEPT ![i] = s[i + 1]] EXCEPT ![i + 1] = s[i]]
<1>1. IsBuilt(r) /\ s \in Seq(S)
  BY DEF OnItsWay
<1>2. \A x \in S : Carries(x, c, served)
  OBVIOUS
<1>3. [r EXCEPT !.headers[i] = s[i + 1], !.headers[i + 1] = s[i]] = [r EXCEPT !.headers = t]
  <2>1. PICK a, k, b, u : r = [status_code |-> a, headers |-> k, body |-> b, upgrade |-> u]
    BY <1>1 DEF IsBuilt
  <2> QED
    BY <2>1
<1> HIDE DEF S, s
<1>4. i \in 1 .. Len(s) /\ i + 1 \in 1 .. Len(s) /\ Len(s) \in Nat
  BY <1>1 DEF s
<1>5. t \in Seq(S)
  BY <1>1, <1>4
<1> HIDE DEF t
<1> QED
  BY <1>1, <1>2, <1>3, <1>5, ChangedHeaders DEF s

LEMMA RespellOnItsWay ==
  ASSUME NEW c, NEW served, NEW r, OnItsWay(r, c, served), NEW i \in DOMAIN r.headers, NEW name,
         EqualIgnoringCase(name, r.headers[i][1])
  PROVE  OnItsWay([r EXCEPT !.headers[i][1] = name], c, served)
<1> DEFINE S == {x \in ToSet(r.headers) : Carries(x, c, served)}
           s == r.headers
           h == <<name, s[i][2]>>
           t == [s EXCEPT ![i] = h]
           T == S \cup {h}
<1>1. IsBuilt(r) /\ s \in Seq(S)
  BY DEF OnItsWay
<1>2. Carries(s[i], c, served)
  BY <1>1
<1>3. \A x \in T : Carries(x, c, served)
  BY <1>2 DEF Carries, EqualIgnoringCase
<1>4. [s[i] EXCEPT ![1] = name] = h
  <2>1. PICK a, b : s[i] = <<a, b>>
    BY <1>2 DEF Carries
  <2> QED
    BY <2>1
<1>5. [r EXCEPT !.headers[i][1] = name] = [r EXCEPT !.headers = t]
  <2>1. PICK a, k, b, u : r = [status_code |-> a, headers |-> k, body |-> b, upgrade |-> u]
    BY <1>1 DEF IsBuilt
  <2> QED
    BY <1>4, <2>1
<1>6. S \subseteq T /\ h \in T
  OBVIOUS
<1> HIDE DEF S, T, s, h
<1>7. t \in Seq(T)
  BY <1>1, <1>6 DEF s
<1> HIDE DEF t
<1> QED
  BY <1>1, <1>3, <1>5, <1>7, ChangedHeaders

-----------------------------------------------------------------------------
(***************************************************************************)
(* Responses as they are sent.                                             *)
(***************************************************************************)
\* The headers that a canister makes, of version 2 and 1.
Version1Header(c, tree) == <<[name |-> "certificate", value |-> c], [name |-> "tree", value |-> tree]>>

\* What is read in a header in which there is one field of a name, or none.
LEMMA FieldLemma ==
  ASSUME NEW s, NEW name
  PROVE  /\ \A k \in Nat : {i \in DOMAIN s : s[i].name = name} = {k} => FirstField(s, name) = s[k].value
         /\ {i \in DOMAIN s : s[i].name = name} = {} => FirstField(s, name) = None
<1> DEFINE found == {i \in DOMAIN s : s[i].name = name}
<1>1. \A k \in Nat : (CHOOSE i \in {k} : \A j \in {k} : i <= j) = k
  <2>1. \A k \in Nat : k \in {k} /\ \A j \in {k} : k <= j
    OBVIOUS
  <2> QED
    BY <2>1
<1>2. FirstField(s, name) = IF found = {} THEN None ELSE s[CHOOSE i \in found : \A j \in found : i <= j].value
  BY DEF FirstField
<1> HIDE DEF found
<1> QED
  BY <1>1, <1>2 DEF found

LEMMA Version2HeaderLemma ==
  ASSUME MarkersApart, NEW c, c # None, c # Garbled, NEW tree, tree # None, tree # Garbled,
         NEW place, place # None, place # Garbled
  PROVE  LET fields == CertificateHeader(c, tree, place)
         IN  /\ fields # None /\ FirstField(fields, "certificate") = c /\ CertificateHeaderFrom(fields) = "Ok"
             /\ FirstField(fields, "tree") = tree
             /\ Version(fields) = 2 /\ FirstField(fields, "expr_path") = place
<1> DEFINE fields == CertificateHeader(c, tree, place)
           found(n) == {i \in DOMAIN fields : fields[i].name = n}
<1>1. fields # None
  BY DEF MarkersApart, CertificateHeader
<1>2. /\ found("certificate") = {1} /\ fields[1].value = c
      /\ found("tree") = {2} /\ fields[2].value = tree
      /\ found("expr_path") = {3} /\ fields[3].value = place
      /\ found("version") = {4} /\ fields[4].value = 2
  BY DEF CertificateHeader
<1> HIDE DEF fields
<1>3. /\ FirstField(fields, "certificate") = c /\ FirstField(fields, "tree") = tree
      /\ FirstField(fields, "expr_path") = place /\ FirstField(fields, "version") = 2
  BY <1>2, FieldLemma
<1>4. 2 # None /\ 2 # Garbled
  BY DEF MarkersApart
<1>5. CertificateHeaderFrom(fields) = "Ok" /\ Version(fields) = 2
  BY <1>3, <1>4 DEF CertificateHeaderFrom, FieldNames, Version
<1> QED
  BY <1>1, <1>3, <1>5 DEF fields

LEMMA Version1HeaderLemma ==
  ASSUME MarkersApart, NEW c, c # None, c # Garbled, NEW tree, tree # None, tree # Garbled
  PROVE  LET fields == Version1Header(c, tree)
         IN  /\ fields # None /\ FirstField(fields, "certificate") = c /\ CertificateHeaderFrom(fields) = "Ok"
             /\ FirstField(fields, "tree") = tree /\ Version(fields) = 1
<1> DEFINE fields == Version1Header(c, tree)
           found(n) == {i \in DOMAIN fields : fields[i].name = n}
<1>1. fields # None
  BY DEF MarkersApart, Version1Header
<1>2. /\ found("certificate") = {1} /\ fields[1].value = c
      /\ found("tree") = {2} /\ fields[2].value = tree
      /\ found("expr_path") = {} /\ found("version") = {}
  BY DEF Version1Header
<1> HIDE DEF fields
<1>3. /\ FirstField(fields, "certificate") = c /\ FirstField(fields, "tree") = tree
      /\ FirstField(fields, "expr_path") = None /\ FirstField(fields, "version") = None
  BY <1>2, FieldLemma
<1>4. None # Garbled
  BY DEF MarkersApart
<1>5. CertificateHeaderFrom(fields) = "Ok" /\ Version(fields) = 1
  BY <1>3, <1>4 DEF CertificateHeaderFrom, FieldNames, Version, MinVerificationVersion
<1> QED
  BY <1>1, <1>3, <1>5 DEF fields

\* The expression that was validated is the one that is read.
LEMMA ValidatedLemma ==
  ASSUME NEW r, NEW S, r.headers \in Seq(S), NEW cel, ValidateResponse(r, cel)
  PROVE  LastHeader(r, "ic-certificateexpression") = cel
<1> DEFINE found == {i \in DOMAIN r.headers : LowerCase(r.headers[i][1]) = "ic-certificateexpression"}
<1>1. found = Expressions(r.headers)
  BY NameAssumption DEF Expressions, EqualIgnoringCase
<1>2. PICK i \in DOMAIN r.headers : found = {i} /\ r.headers[i][2] = cel
  BY <1>1 DEF ValidateResponse
<1> QED
  BY <1>2, LastHeaderLemma

\* A response as it is sent, under the certificate.
IsSent(r, c) ==
  IsStatusCode(r.status_code) /\ IsWhole(r) /\ FirstField(LastHeader(r, "ic-certificate"), "certificate") = c

LEMMA Version2Sent ==
  ASSUME MarkersApart, NEW c, c # None, c # Garbled, NEW served, NEW tree, tree # None, tree # Garbled,
         RootHash(tree) = served.root, tree.http_assets \in ShownAssets, NEW path, Place(path) \in served.places,
         NEW e, e \in {Skip} \cup {k.expression : k \in Cases},
         NEW r, IsResponse(r), ValidateResponse(r, CreateDefaultCelExpr(e))
  PROVE  LET sent == AddV2CertificateHeader(r, c, tree, Place(path))
         IN  IsSent(sent, c) /\ OnItsWay(sent, c, served) /\ Version(LastHeader(sent, "ic-certificate")) = 2
<1> DEFINE fields == CertificateHeader(c, tree, Place(path))
           sent == AddV2CertificateHeader(r, c, tree, Place(path))
           cel == CreateDefaultCelExpr(e)
<1>1. Place(path) # None /\ Place(path) # Garbled
  BY DEF Place, MarkersApart
<1>2. fields # None /\ FirstField(fields, "certificate") = c /\ CertificateHeaderFrom(fields) = "Ok"
      /\ FirstField(fields, "tree") = tree
      /\ Version(fields) = 2 /\ FirstField(fields, "expr_path") = Place(path)
  BY <1>1, Version2HeaderLemma
<1>3. cel # None /\ ReadCel(cel) # {}
  BY MessageAssumption DEF MarkersApart, IsExpression
<1>4. PICK S : r.headers \in Seq(S)
  BY DEF IsResponse
<1>5. OnItsWay(r, c, served) /\ IsBuilt(r) /\ IsStatusCode(r.status_code)
  BY ResponseOnItsWay
<1>6. sent = AddHeader(r, <<CertificateHeaderName, fields>>)
  BY DEF AddV2CertificateHeader
<1>7. LastHeader(r, "ic-certificateexpression") = cel
  BY <1>4, ValidatedLemma
<1> HIDE DEF fields, sent, cel
<1>8. /\ LastHeader(sent, "ic-certificate") = fields
      /\ LastHeader(sent, "ic-certificateexpression") = cel
      /\ sent.status_code = r.status_code
  BY <1>4, <1>5, <1>6, <1>7, AddHeaderLemma, NameAssumption
<1>9. IsSent(sent, c)
  BY <1>1, <1>2, <1>3, <1>5, <1>8 DEF IsSent, IsWhole
<1>10. Carries(<<CertificateHeaderName, fields>>, c, served)
  BY <1>2 DEF Carries, Brings
<1>11. OnItsWay(sent, c, served)
  BY <1>5, <1>6, <1>10, AddOnItsWay
<1> QED
  BY <1>2, <1>8, <1>9, <1>11 DEF sent

LEMMA SkippingSent ==
  ASSUME MarkersApart, NEW c, c # None, c # Garbled, NEW served, NEW tree, tree # None, tree # Garbled,
         RootHash(tree) = served.root, tree.http_assets \in ShownAssets, SkipPlace \in served.places,
         NEW r, IsResponse(r)
  PROVE  LET sent == AddSkipCertificationHeader(r, c, tree)
         IN  /\ IsSent(sent, c) /\ OnItsWay(sent, c, served)
             /\ Version(LastHeader(sent, "ic-certificate")) = 2
             /\ LastHeader(sent, "ic-certificateexpression") = CreateDefaultCelExpr(Skip)
<1> DEFINE fields == CertificateHeader(c, tree, SkipPlace)
           h == <<CertificateHeaderName, fields>>
           certified == AddHeader(r, h)
           cel == CreateDefaultCelExpr(Skip)
           g == <<CertificateExpressionHeaderName, cel>>
           sent == AddHeader(certified, g)
<1>1. SkipPlace # None /\ SkipPlace # Garbled
  BY DEF SkipPlace, Place, MarkersApart
<1>2. fields # None /\ FirstField(fields, "certificate") = c /\ CertificateHeaderFrom(fields) = "Ok"
      /\ FirstField(fields, "tree") = tree
      /\ Version(fields) = 2 /\ FirstField(fields, "expr_path") = SkipPlace
  BY <1>1, Version2HeaderLemma
<1>3. cel # None /\ ReadCel(cel) # {}
  BY MessageAssumption DEF MarkersApart, IsExpression
<1>4. OnItsWay(r, c, served) /\ IsBuilt(r) /\ IsStatusCode(r.status_code)
  BY ResponseOnItsWay
<1>5. sent = AddSkipCertificationHeader(r, c, tree)
  BY DEF AddSkipCertificationHeader, AddV2CertificateHeader
<1>6. Carries(h, c, served)
  BY <1>2 DEF Carries, Brings
<1>7. Carries(g, c, served)
  BY NameAssumption DEF Carries
<1>8. PICK S : r.headers \in Seq(S)
  BY DEF IsResponse
<1> HIDE DEF fields, cel
<1>9. /\ IsBuilt(certified) /\ certified.status_code = r.status_code
      /\ LastHeader(certified, "ic-certificate") = fields
  BY <1>4, <1>8, AddHeaderLemma, NameAssumption
<1>10. OnItsWay(certified, c, served)
  BY <1>4, <1>6, AddOnItsWay
<1> HIDE DEF certified
<1>11. PICK T : certified.headers \in Seq(T)
  BY <1>10 DEF OnItsWay
<1>12. /\ LastHeader(sent, "ic-certificate") = fields
       /\ LastHeader(sent, "ic-certificateexpression") = cel
       /\ sent.status_code = r.status_code
  BY <1>9, <1>11, AddHeaderLemma, NameAssumption
<1>13. OnItsWay(sent, c, served)
  BY <1>7, <1>10, AddOnItsWay
<1> HIDE DEF sent
<1>14. IsSent(sent, c)
  BY <1>1, <1>2, <1>3, <1>4, <1>12 DEF IsSent, IsWhole
<1> QED
  BY <1>2, <1>5, <1>12, <1>13, <1>14 DEF cel

LEMMA NewResponseLemma ==
  ASSUME NEW code, NEW headers, NEW body
  PROVE  WithBody(WithHeaders(WithStatusCode(NewResponse, code), headers), body) =
           [status_code |-> <<code>>, headers |-> headers, body |-> body, upgrade |-> <<>>]
<1>1. PICK empty : NewResponse = [status_code |-> <<>>, headers |-> <<>>, body |-> empty, upgrade |-> <<>>]
  BY Zenon DEF NewResponse
<1>2. WithStatusCode(NewResponse, code) =
        [status_code |-> <<code>>, headers |-> <<>>, body |-> empty, upgrade |-> <<>>]
  BY <1>1 DEF WithStatusCode
<1> HIDE <1>1
<1>3. WithHeaders(WithStatusCode(NewResponse, code), headers) =
        [status_code |-> <<code>>, headers |-> headers, body |-> empty, upgrade |-> <<>>]
  BY <1>2 DEF WithHeaders
<1> HIDE <1>2
<1> QED
  BY <1>3 DEF WithBody

LEMMA BuildResponseLemma ==
  ASSUME NEW code, NEW headers, NEW body
  PROVE  BuildResponse(WithBody(WithHeaders(WithStatusCode(NewResponse, code), headers), body)) =
           [status_code |-> code, headers |-> headers, body |-> body, upgrade |-> <<>>]
<1> DEFINE b == WithBody(WithHeaders(WithStatusCode(NewResponse, code), headers), body)
<1>1. b = [status_code |-> <<code>>, headers |-> headers, body |-> body, upgrade |-> <<>>]
  BY NewResponseLemma
<1> HIDE DEF b
<1>2. BuildResponse(b) = [status_code |-> code, headers |-> headers, body |-> body, upgrade |-> <<>>]
  BY <1>1 DEF BuildResponse, GivenOr
<1> QED
  BY <1>2 DEF b

\* Of version 1, with the body for a path.
IsVersion1(sent, c, served, p, tree) ==
  /\ IsSent(sent, c) /\ OnItsWay(sent, c, served) /\ sent.body = Bodies[p]
  /\ FirstField(LastHeader(sent, "ic-certificate"), "tree") = tree

LEMMA Version1Sent ==
  ASSUME MarkersApart, NEW c, c # None, c # Garbled, NEW served, NEW tree, tree # None, tree # Garbled,
         RootHash(tree) = served.root, tree.http_assets \in ShownAssets, NEW p, NEW encoding,
         encoding = IF p \in DOMAIN BodyEncodings THEN << <<"Content-Encoding", BodyEncodings[p]>> >> ELSE <<>>
  PROVE  LET sent == AddHeader(BuildResponse(OK(Bodies[p], encoding)), <<CertificateHeaderName, Version1Header(c, tree)>>)
         IN  IsVersion1(sent, c, served, p, tree)
<1> DEFINE r == BuildResponse(OK(Bodies[p], encoding))
           fields == Version1Header(c, tree)
           h == <<CertificateHeaderName, fields>>
           sent == AddHeader(r, h)
<1>1. r = [status_code |-> 200, headers |-> encoding, body |-> Bodies[p], upgrade |-> <<>>]
  BY BuildResponseLemma DEF OK, Respond
<1>2. fields # None /\ FirstField(fields, "certificate") = c /\ CertificateHeaderFrom(fields) = "Ok"
      /\ FirstField(fields, "tree") = tree /\ Version(fields) = 1
  BY Version1HeaderLemma
<1> HIDE DEF r, fields
<1>3. r.status_code = 200 /\ r.headers = encoding /\ r.body = Bodies[p]
  BY <1>1
<1>4. IsBuilt(r)
  BY <1>1, <1>3 DEF IsBuilt
<1>5. PICK T : r.headers \in Seq(T) /\ \A x \in T : Carries(x, c, served)
  <2>1. CASE p \in DOMAIN BodyEncodings
    <3> DEFINE g == <<"Content-Encoding", BodyEncodings[p]>>
    <3>1. encoding \in Seq({g})
      BY <2>1
    <3>2. Carries(g, c, served)
      BY NameAssumption DEF Carries
    <3> DEFINE T == {g}
    <3>3. r.headers \in Seq(T) /\ \A x \in T : Carries(x, c, served)
      BY <1>3, <3>1, <3>2
    <3> HIDE DEF T
    <3> QED
      BY <3>3
  <2>2. CASE p \notin DOMAIN BodyEncodings
    <3>1. encoding \in Seq({})
      BY <2>2
    <3> DEFINE T == {}
    <3>2. r.headers \in Seq(T) /\ \A x \in T : Carries(x, c, served)
      BY <1>3, <3>1
    <3> HIDE DEF T
    <3> QED
      BY <3>2
  <2> QED
    BY <2>1, <2>2
<1>6. LastHeader(r, "content-encoding") = IF p \in DOMAIN BodyEncodings THEN BodyEncodings[p] ELSE None
  <2>1. CASE p \in DOMAIN BodyEncodings
    <3>1. encoding = << <<"Content-Encoding", BodyEncodings[p]>> >>
      BY <2>1
    <3>2. DOMAIN encoding = {1} /\ encoding[1][1] = "Content-Encoding" /\ encoding[1][2] = BodyEncodings[p]
      BY <3>1
    <3> DEFINE found == {i \in DOMAIN r.headers : LowerCase(r.headers[i][1]) = "content-encoding"}
    <3>3. found = {1}
      BY <1>3, <3>2, NameAssumption
    <3>4. PICK i \in found : LastHeader(r, "content-encoding") = r.headers[i][2]
      BY <1>5, <3>3, LastHeaderLemma
    <3>5. LastHeader(r, "content-encoding") = encoding[1][2]
      BY <1>3, <3>3, <3>4
    <3> QED
      BY <2>1, <3>2, <3>5
  <2>2. CASE p \notin DOMAIN BodyEncodings
    <3>1. DOMAIN encoding = {}
      BY <2>2
    <3>2. {i \in DOMAIN r.headers : LowerCase(r.headers[i][1]) = "content-encoding"} = {}
      BY <1>3, <3>1
    <3> QED
      BY <2>2, <3>2 DEF LastHeader
  <2> QED
    BY <2>1, <2>2
<1> HIDE DEF h, sent
<1>7. /\ LastHeader(sent, "ic-certificate") = fields
      /\ LastHeader(sent, "content-encoding") = LastHeader(r, "content-encoding")
      /\ sent.status_code = 200 /\ sent.body = Bodies[p]
  <2>1. sent = AddHeader(r, <<CertificateHeaderName, fields>>)
    BY DEF sent, h
  <2>2. PICK S : r.headers \in Seq(S)
    BY <1>5
  <2> HIDE <1>5
  <2>3. \A other :
          /\ LastHeader(sent, other) = IF LowerCase(CertificateHeaderName) = other THEN fields ELSE LastHeader(r, other)
          /\ sent.status_code = r.status_code /\ sent.body = r.body
    <3> TAKE other
    <3> HIDE DEF r
    <3> QED
      BY <1>4, <2>1, <2>2, AddHeaderLemma, SMTT(30)
  <2> QED
    BY <1>3, <2>3, NameAssumption
<1>8. DecodeBody(sent.body, LastHeader(sent, "content-encoding")) # {}
  <2>1. CASE p \in DOMAIN BodyEncodings
    BY <1>6, <1>7, <2>1, BodyAssumption
  <2>2. CASE p \notin DOMAIN BodyEncodings
    <3>1. None \notin {"gzip", "deflate"}
      BY DEF MarkersApart
    <3> QED
      BY <1>6, <1>7, <2>2, <3>1 DEF DecodeBody
  <2> QED
    BY <2>1, <2>2
<1>9. IsSent(sent, c)
  <2>1. IsStatusCode(200)
    BY DEF IsStatusCode
  <2> QED
    BY <1>2, <1>7, <1>8, <2>1 DEF IsSent, IsWhole
<1>10. OnItsWay(sent, c, served)
  <2>1. Carries(h, c, served)
    BY <1>2 DEF Carries, Brings, h
  <2>2. OnItsWay(r, c, served)
    BY <1>4, <1>5, CarriesLemma DEF OnItsWay
  <2> QED
    BY <2>1, <2>2, AddOnItsWay DEF sent
<1> QED
  BY <1>2, <1>7, <1>9, <1>10 DEF IsVersion1, sent, h, r, fields

LEMMA OtherwiseOnItsWay ==
  ASSUME NEW c, NEW served, NEW r, OnItsWay(r, c, served), NEW x
  PROVE  /\ OnItsWay([r EXCEPT !.status_code = x], c, served)
         /\ OnItsWay([r EXCEPT !.body = x], c, served)
         /\ OnItsWay([r EXCEPT !.upgrade = x], c, served)
<1>1. IsBuilt(r) /\ r.headers \in Seq({h \in ToSet(r.headers) : Carries(h, c, served)})
  BY DEF OnItsWay
<1>2. PICK a, k, b, u : r = [status_code |-> a, headers |-> k, body |-> b, upgrade |-> u]
  BY <1>1 DEF IsBuilt
<1>3. r.headers = k
  BY <1>2
<1>4. k \in Seq({h \in ToSet(k) : Carries(h, c, served)})
  BY <1>1, <1>3
<1>5. ASSUME NEW q, NEW aa, NEW bb, NEW uu, q = [status_code |-> aa, headers |-> k, body |-> bb, upgrade |-> uu]
      PROVE  OnItsWay(q, c, served)
  <2>1. IsBuilt(q) /\ q.headers = k
    BY <1>5 DEF IsBuilt
  <2> QED
    BY <1>4, <2>1 DEF OnItsWay
<1>6. /\ [r EXCEPT !.status_code = x] = [status_code |-> x, headers |-> k, body |-> b, upgrade |-> u]
      /\ [r EXCEPT !.body = x] = [status_code |-> a, headers |-> k, body |-> x, upgrade |-> u]
      /\ [r EXCEPT !.upgrade = x] = [status_code |-> a, headers |-> k, body |-> b, upgrade |-> x]
  BY <1>2
<1> QED
  BY <1>5, <1>6

-----------------------------------------------------------------------------
(***************************************************************************)
(* The invariant.                                                          *)
(***************************************************************************)
CertifiedRoot == RootHash(CanisterTree)

\* What the canister shows: its root, and the places at which it answers the request.
Served ==
  [root   |-> CertifiedRoot,
   places |-> IF skips THEN {SkipPlace}
              ELSE {p \in Places : Answers(p, PathOf) /\ ~Outdone(Places, p, PathOf)}]

ICanister ==
  builder.custom_tree = None => builder.canister = [canister_id |-> Canister, certified_data |-> CertifiedRoot]

\* What a response says as it is sent: to skip, or what body it has.
SaysAsSent(r) ==
  LET fields == LastHeader(r, "ic-certificate")
  IN  IF skips
      THEN Version(fields) = 2 /\ LastHeader(r, "ic-certificateexpression") = CreateDefaultCelExpr(Skip)
      ELSE Version(fields) = 1 => /\ r.body = Bodies[IF PathOf \in DOMAIN Bodies THEN PathOf ELSE IndexPath]
                                  /\ FirstField(fields, "tree").http_assets \in Witnesses

IResponse ==
  \/ response = <<>>
  \/ /\ response = <<response[1]>>
     /\ OnItsWay(response[1], Certificate, Served)
     /\ ~skips => WellFormed
     /\ edits = 0 => IsSent(response[1], Certificate) /\ SaysAsSent(response[1])

IInv == IBuilder /\ ICanister /\ request \in Requests /\ edits \in Nat /\ IResponse

LEMMA MadeLemma ==
  ASSUME MarkersApart
  PROVE  /\ Certificate # None /\ Certificate # Garbled
         /\ \A marker \in {None, Garbled} :
              CertifiedTree # marker /\ SkippingTree # marker
              /\ \A w : [CertifiedTree EXCEPT !.http_assets = w] # marker
<1>1. Certificate # None /\ Certificate # Garbled
  <2>1. Certificate = [tree |-> Certificate.tree, signature |-> Certificate.signature,
                       delegation |-> Certificate.delegation]
    BY BuildLemma DEF Certificate
  <2> QED
    BY <2>1 DEF MarkersApart
<1>2. PICK a, b, x, y : CertifiedTree = [http_expr |-> a, http_assets |-> b] /\ SkippingTree = [http_expr |-> x, http_assets |-> y]
  BY DEF CertifiedTree, SkippingTree
<1>3. \A w : [CertifiedTree EXCEPT !.http_assets = w] = [http_expr |-> a, http_assets |-> w]
  BY <1>2
<1> QED
  BY <1>1, <1>2, <1>3 DEF MarkersApart

\* What the certificate and its data depend on.
LEMMA Unmoved ==
  /\ UNCHANGED builder => Certificate' = Certificate
  /\ UNCHANGED skips => CertifiedRoot' = CertifiedRoot
  /\ UNCHANGED <<skips, request>> =>
       Served' = Served /\ WellFormed' = WellFormed /\ \A r : SaysAsSent(r)' = SaysAsSent(r)
<1>1. UNCHANGED builder => Certificate' = Certificate
  BY DEF Certificate
<1>2. UNCHANGED skips => CertifiedRoot' = CertifiedRoot /\ Places' = Places
  BY DEF CertifiedRoot, Places, CanisterTree
<1>3. UNCHANGED request => PathOf' = PathOf /\ WellFormed' = WellFormed
  BY DEF PathOf, WellFormed
<1> QED
  BY <1>1, <1>2, <1>3 DEF Served, SaysAsSent

LEMMA InitLemma ==
  ASSUME MarkersApart, Init
  PROVE  IInv
<1>1. RootHash(CanisterTree) \in {RootHash(tree) : tree \in {CertifiedTree, SkippingTree}}
  BY DEF CanisterTree
<1>2. CASE builder = NewBuilder(Canister, RootHash(CanisterTree))
  <2>1. [canister_id |-> Canister, certified_data |-> RootHash(CanisterTree)] \in CanisterData
    BY <1>1 DEF CanisterData
  <2>2. IBuilder /\ ICanister
    BY <1>2, <2>1 DEF IBuilder, NewBuilder, Delegates, ICanister, CertifiedRoot
  <2> QED
    BY <2>2 DEF Init, IInv, IResponse
<1>3. ASSUME NEW contents \in CustomTrees, builder = FromCustomTree(contents)
      PROVE  IInv
  <2>1. builder = [time |-> None, canister |-> None, subnet |-> None, nested_subnet |-> None,
                   signature |-> None, custom_tree |-> contents]
    BY <1>3 DEF FromCustomTree, NewBuilder
  <2>2. builder.custom_tree # None
    BY <2>1 DEF MarkersApart
  <2>3. IBuilder /\ ICanister
    BY <2>1, <2>2 DEF IBuilder, ICanister, Delegates
  <2> QED
    BY <2>3 DEF Init, IInv, IResponse
<1> QED
  BY <1>2, <1>3 DEF Init

LEMMA PrepareLemma ==
  ASSUME IInv, Prepare
  PROVE  IInv'
<1> DEFINE Builders == [time : Nat \cup {None}, canister : CanisterData \cup {None}, subnet : Delegates,
                        nested_subnet : Delegates, signature : {None, Garbled}, custom_tree : CustomTrees \cup {None}]
<1>1. ASSUME NEW changed, SetBuilder(changed), changed \in Builders, changed.canister = builder.canister,
             changed.custom_tree = builder.custom_tree
      PROVE  IInv'
  <2>1. response' = <<>> /\ builder' = changed /\ UNCHANGED <<skips, request, edits>>
    BY <1>1 DEF SetBuilder
  <2>2. IBuilder'
    BY <1>1, <2>1 DEF IBuilder
  <2>3. CertifiedRoot' = CertifiedRoot
    BY <2>1, Unmoved
  <2>4. ICanister'
    BY <1>1, <2>1, <2>3 DEF IInv, ICanister
  <2> QED
    BY <2>1, <2>2, <2>4 DEF IInv, IResponse
<1>2. builder \in Builders
  BY DEF IInv, IBuilder
<1>3. ASSUME NEW s \in DOMAIN Subnets
      PROVE  /\ SetBuilder(WithDelegation(builder, s, Subnets[s])) => IInv'
             /\ SetBuilder(WithNestedDelegation(builder, s, Subnets[s])) => IInv'
  <2>1. SubnetData(s, Subnets[s]) \in Delegates
    BY DEF Delegates
  <2> QED
    BY <1>1, <1>2, <2>1 DEF WithDelegation, WithNestedDelegation
<1>4. \A ns \in Nat : SetBuilder(WithTime(builder, ns)) => IInv'
  BY <1>1, <1>2 DEF WithTime
<1>5. \A ms \in TimesJs : SetBuilder(WithTimeJs(builder, ms)) => IInv'
  <2>1. \A ms \in TimesJs : ms * NsPerMs \in Nat
    BY TimeAssumption, BuilderAssumption
  <2> QED
    BY <1>4, <2>1 DEF WithTimeJs
<1>6. SetBuilder(WithInvalidSignature(builder)) => IInv'
  BY <1>1, <1>2 DEF WithInvalidSignature
<1> QED
  BY <1>3, <1>4, <1>5, <1>6, BuilderAssumption DEF Prepare

\* The canister has answered.
LEMMA AnswerLemma ==
  ASSUME IInv, UNCHANGED <<builder, skips, request, edits>>,
         ~skips => WellFormed,
         NEW r, response' = <<r>>, IsSent(r, Certificate), OnItsWay(r, Certificate, Served), SaysAsSent(r)
  PROVE  IInv'
<1>1. /\ Certificate' = Certificate /\ CertifiedRoot' = CertifiedRoot /\ response'[1] = r
      /\ Served' = Served /\ (~skips => WellFormed)' /\ SaysAsSent(r)'
  BY Unmoved
<1>2. IBuilder' /\ ICanister' /\ request' \in Requests /\ edits' \in Nat
  BY <1>1 DEF IInv, IBuilder, ICanister
<1> QED
  BY <1>1, <1>2 DEF IInv, IResponse

LEMMA AnswersLemma ==
  ASSUME MarkersApart, IInv
  PROVE  /\ \A c \in CertifiedCases : Answer(c) => IInv'
         /\ \A r \in Uncertified : AnswerSkipping(r) => IInv'
         /\ \A witness \in Witnesses : AnswerVersion1(witness) => IInv'
<1> DEFINE cert == Certificate
<1>1. /\ cert # None /\ cert # Garbled
      /\ CertifiedTree # None /\ CertifiedTree # Garbled /\ SkippingTree # None /\ SkippingTree # Garbled
      /\ \A w : [CertifiedTree EXCEPT !.http_assets = w] \notin {None, Garbled}
  BY MadeLemma
<1> HIDE DEF cert
<1>2. ASSUME NEW c \in CertifiedCases, Answer(c)
      PROVE  IInv'
  <2> DEFINE cel == CreateDefaultCelExpr(c.expression)
             sent == AddV2CertificateHeader(c.response, cert, CertifiedTree, Place(c.path))
  <2>1. c \in Cases /\ Certification(c) # <<>>
    BY DEF CertifiedCases
  <2>2. IsResponse(c.response) /\ c.expression \in {Skip} \cup {k.expression : k \in Cases}
    BY <2>1, MessageAssumption
  <2>3. ValidateResponse(c.response, cel)
    <3>1. CASE c.expression.kind = "Skip"
      BY <2>1, <3>1, MessageAssumption
    <3>2. CASE c.expression.kind = "ResponseOnly"
      BY <2>1, <3>2 DEF Certification, ResponseOnlyCertification
    <3>3. CASE c.expression.kind = "Full"
      BY <2>1, <3>3 DEF Certification, FullCertification
    <3> QED
      BY <2>1, <3>1, <3>2, <3>3, MessageAssumption DEF IsExpression
  <2>4. ~skips /\ WellFormed /\ CanisterTree = CertifiedTree
    BY <1>2 DEF Answer, CanisterTree
  <2>5. RootHash(CertifiedTree) = Served.root /\ CertifiedTree.http_assets \in ShownAssets
    BY <2>4 DEF Served, CertifiedRoot, CertifiedTree, ShownAssets
  <2>6. Place(c.path) \in Served.places
    <3>1. Place(c.path) \in Places
      <4>1. CanisterTree.http_expr = {<<Place(k.path), Certification(k)[1]>> : k \in CertifiedCases}
        BY <2>4 DEF CertifiedTree
      <4>2. <<Place(c.path), Certification(c)[1]>> \in CanisterTree.http_expr
        BY <4>1
      <4> QED
        BY <4>2 DEF Places
    <3> QED
      BY <1>2, <2>4, <3>1 DEF Answer, Served
  <2>7. IsSent(sent, cert) /\ OnItsWay(sent, cert, Served) /\ Version(LastHeader(sent, "ic-certificate")) = 2
    BY <1>1, <2>2, <2>3, <2>5, <2>6, Version2Sent
  <2>8. response' = <<sent>> /\ UNCHANGED <<builder, skips, request, edits>>
    BY <1>2 DEF Answer, cert
  <2> HIDE DEF sent
  <2>9. SaysAsSent(sent)
    BY <2>4, <2>7 DEF SaysAsSent
  <2> QED
    BY <2>4, <2>7, <2>8, <2>9, AnswerLemma DEF cert
<1>3. ASSUME NEW r \in Uncertified, AnswerSkipping(r)
      PROVE  IInv'
  <2> DEFINE sent == AddSkipCertificationHeader(r, cert, SkippingTree)
  <2>1. skips /\ CanisterTree = SkippingTree
    BY <1>3 DEF AnswerSkipping, CanisterTree
  <2>2. /\ RootHash(SkippingTree) = Served.root /\ SkippingTree.http_assets \in ShownAssets
        /\ SkipPlace \in Served.places
    BY <2>1 DEF Served, CertifiedRoot, SkippingTree, ShownAssets
  <2>3. /\ IsSent(sent, cert) /\ OnItsWay(sent, cert, Served)
        /\ Version(LastHeader(sent, "ic-certificate")) = 2
        /\ LastHeader(sent, "ic-certificateexpression") = CreateDefaultCelExpr(Skip)
    BY <1>1, <2>2, MessageAssumption, SkippingSent
  <2>4. response' = <<sent>> /\ UNCHANGED <<builder, skips, request, edits>>
    BY <1>3 DEF AnswerSkipping, cert
  <2> HIDE DEF sent
  <2>5. SaysAsSent(sent)
    BY <2>1, <2>3 DEF SaysAsSent
  <2> QED
    BY <2>1, <2>3, <2>4, <2>5, AnswerLemma DEF cert
<1>4. ASSUME NEW witness \in Witnesses, AnswerVersion1(witness)
      PROVE  IInv'
  <2> DEFINE path == IF PathOf \in DOMAIN Bodies THEN PathOf ELSE IndexPath
             encoding == IF path \in DOMAIN BodyEncodings THEN << <<"Content-Encoding", BodyEncodings[path]>> >> ELSE <<>>
             tree == [CertifiedTree EXCEPT !.http_assets = witness]
             sent == AddHeader(BuildResponse(OK(Bodies[path], encoding)),
                               <<CertificateHeaderName, Version1Header(cert, tree)>>)
  <2>1. response' = <<sent>> /\ UNCHANGED <<builder, skips, request, edits>>
    BY <1>4 DEF AnswerVersion1, Version1Header, cert
  <2>2. tree # None /\ tree # Garbled
    BY <1>1
  <2>4. ~skips /\ WellFormed
    BY <1>4 DEF AnswerVersion1
  <2>5. /\ RootHash(tree) = Served.root /\ tree.http_assets \in ShownAssets /\ tree.http_assets \in Witnesses
    <3>1. CertifiedTree = [http_expr |-> CertifiedTree.http_expr, http_assets |-> AssetTree]
      BY DEF CertifiedTree
    <3>2. tree.http_expr = CertifiedTree.http_expr /\ tree.http_assets = witness
      BY <3>1
    <3>3. CanisterTree = CertifiedTree
      BY <1>4 DEF AnswerVersion1, CanisterTree
    <3> HIDE DEF tree
    <3> QED
      BY <3>1, <3>2, <3>3, WitnessAssumption DEF RootHash, CertifiedRoot, Served, ShownAssets
  <2> HIDE DEF path, tree
  <2>6. IsVersion1(sent, cert, Served, path, tree)
    BY <1>1, <2>2, <2>5, Version1Sent
  <2> HIDE DEF sent
  <2>7. SaysAsSent(sent)
    BY <2>4, <2>5, <2>6 DEF SaysAsSent, IsVersion1, path
  <2> QED
    BY <2>1, <2>4, <2>6, <2>7, AnswerLemma DEF IsVersion1, cert
<1> QED
  BY <1>2, <1>3, <1>4

\* The response is changed on its way.
LEMMA EditedLemma ==
  ASSUME IInv, NEW changed, Edited(changed),
         OnItsWay(response[1], Certificate, Served) => OnItsWay(changed, Certificate, Served)
  PROVE  IInv'
<1>1. response # <<>> /\ response' = <<changed>> /\ edits' = edits + 1 /\ UNCHANGED <<builder, skips, request>>
  BY DEF Edited
<1>2. /\ Certificate' = Certificate /\ CertifiedRoot' = CertifiedRoot /\ response'[1] = changed
      /\ Served' = Served /\ WellFormed' = WellFormed
  BY <1>1, Unmoved
<1>3. IBuilder' /\ ICanister' /\ request' \in Requests /\ edits' \in Nat /\ edits' # 0
  BY <1>1, <1>2 DEF IInv, IBuilder, ICanister
<1>4. OnItsWay(changed, Certificate, Served) /\ (~skips => WellFormed)
  BY <1>1 DEF IInv, IResponse
<1> QED
  BY <1>1, <1>2, <1>3, <1>4 DEF IInv, IResponse

LEMMA EditsLemma ==
  ASSUME IInv
  PROVE  /\ \A code : SetStatus(code) => IInv'
         /\ \A body : SetBody(body) => IInv'
         /\ SetUpgrade => IInv'
         /\ \A header \in OtherHeaders : PrependHeader(header) \/ AppendHeader(header) => IInv'
         /\ \A r \in ToSet(response) : \A i \in DOMAIN r.headers :
              /\ DropHeader(i) => IInv'
              /\ i < Len(r.headers) /\ SwapHeaders(i) => IInv'
              /\ \A name : Respell(i, name) => IInv'
<1> DEFINE c == Certificate
           x == response[1]
<1>1. \A code : SetStatus(code) => IInv'
  BY EditedLemma, OtherwiseOnItsWay DEF SetStatus
<1>2. \A body : SetBody(body) => IInv'
  BY EditedLemma, OtherwiseOnItsWay DEF SetBody
<1>3. SetUpgrade => IInv'
  BY EditedLemma, OtherwiseOnItsWay DEF SetUpgrade
<1>4. ASSUME NEW header \in OtherHeaders
      PROVE  (PrependHeader(header) => IInv') /\ (AppendHeader(header) => IInv')
  <2>1. Carries(header, c, Served)
    BY MessageAssumption DEF Carries, BringsNoCertificate
  <2> QED
    BY <2>1, EditedLemma, AddOnItsWay DEF PrependHeader, AppendHeader
<1>5. ASSUME NEW r \in ToSet(response), NEW i \in DOMAIN r.headers
      PROVE  /\ DropHeader(i) => IInv'
             /\ i < Len(r.headers) /\ SwapHeaders(i) => IInv'
             /\ \A name : Respell(i, name) => IInv'
  <2>1. response = <<x>> /\ OnItsWay(x, c, Served)
    BY DEF IInv, IResponse, ToSet
  <2>2. r = x
    BY <2>1 DEF ToSet
  <2>3. DropHeader(i) => IInv'
    BY <2>2, EditedLemma, RemoveOnItsWay DEF DropHeader
  <2>4. i < Len(r.headers) /\ SwapHeaders(i) => IInv'
    BY <2>2, EditedLemma, SwapOnItsWay DEF SwapHeaders
  <2>5. \A name : Respell(i, name) => IInv'
    BY <2>2, EditedLemma, RespellOnItsWay DEF Respell
  <2> QED
    BY <2>3, <2>4, <2>5
<1> QED
  BY <1>1, <1>2, <1>3, <1>4, <1>5

\* The invariant: the builder is one of those there are, and whatever becomes of the
\* response, no header brings another certificate than that of the builder.
LEMMA ExchangeInvariant ==
  ASSUME MarkersApart
  PROVE  Spec => []IInv
<1>1. Init => IInv
  BY InitLemma
<1>2. IInv /\ [Next]_vars => IInv'
  <2> SUFFICES ASSUME IInv, [Next]_vars
               PROVE  IInv'
    OBVIOUS
  <2>1. CASE Prepare
    BY <2>1, PrepareLemma
  <2>2. ASSUME NEW c \in CertifiedCases, Answer(c)
        PROVE  IInv'
    BY <2>2, AnswersLemma
  <2>3. ASSUME NEW r \in Uncertified, AnswerSkipping(r)
        PROVE  IInv'
    BY <2>3, AnswersLemma
  <2>4. ASSUME NEW witness \in Witnesses, AnswerVersion1(witness)
        PROVE  IInv'
    BY <2>4, AnswersLemma
  <2>5. CASE \/ \E code \in OtherCodes : SetStatus(code)
             \/ \E body \in OtherBodies : SetBody(body)
             \/ SetUpgrade
             \/ \E header \in OtherHeaders : PrependHeader(header) \/ AppendHeader(header)
             \/ \E r \in ToSet(response) : \E i \in DOMAIN r.headers :
                  \/ DropHeader(i)
                  \/ i < Len(r.headers) /\ SwapHeaders(i)
                  \/ \E name \in Spellings : Respell(i, name)
    BY <2>5, EditsLemma
  <2>6. CASE UNCHANGED vars
    <3>1. UNCHANGED <<builder, skips, request, response, edits>>
      BY <2>6 DEF vars
    <3>2. /\ Certificate' = Certificate /\ CertifiedRoot' = CertifiedRoot /\ Served' = Served
          /\ WellFormed' = WellFormed /\ SaysAsSent(response[1])' = SaysAsSent(response[1])
      <4>1. /\ Certificate' = Certificate /\ CertifiedRoot' = CertifiedRoot /\ Served' = Served
            /\ WellFormed' = WellFormed
        BY <3>1, Unmoved
      <4>2. response'[1] = response[1]
        BY <3>1
      <4>3. PathOf' = PathOf
        BY <3>1 DEF PathOf
      <4> QED
        BY <3>1, <4>1, <4>2, <4>3 DEF SaysAsSent
    <3> QED
      BY <3>1, <3>2 DEF IInv, IBuilder, ICanister, IResponse
  <2> QED
    BY <2>1, <2>2, <2>3, <2>4, <2>5, <2>6 DEF Next
<1> QED
  BY <1>1, <1>2, PTL DEF Spec

-----------------------------------------------------------------------------
(***************************************************************************)
(* What is hashed of a message: bags, counted value by value.              *)
(***************************************************************************)
\* How often a value occurs at places.
Count(f, x) == Cardinality({i \in DOMAIN f : f[i] = x})

LEMMA CountLemma ==
  ASSUME NEW f, IsFiniteSet(DOMAIN f), NEW x
  PROVE  /\ Count(f, x) \in Nat
         /\ Count(f, x) = 0 <=> x \notin ToSet(f)
<1> DEFINE at == {i \in DOMAIN f : f[i] = x}
<1>1. IsFiniteSet(at)
  BY FS_Subset
<1>2. at = {} <=> x \notin ToSet(f)
  BY DEF ToSet
<1> HIDE DEF at
<1>3. Cardinality(at) \in Nat /\ (Cardinality(at) = 0 <=> at = {})
  BY <1>1, FS_CardinalityType, FS_EmptySet
<1> QED
  BY <1>2, <1>3 DEF Count, at

\* Two bags are the same if every value occurs as often.
LEMMA BagLemma ==
  ASSUME NEW f, IsFiniteSet(DOMAIN f), NEW g, IsFiniteSet(DOMAIN g)
  PROVE  BagOf(f) = BagOf(g) <=> \A x : Count(f, x) = Count(g, x)
<1>1. /\ DOMAIN BagOf(f) = ToSet(f) /\ \A x \in ToSet(f) : BagOf(f)[x] = Count(f, x)
      /\ DOMAIN BagOf(g) = ToSet(g) /\ \A x \in ToSet(g) : BagOf(g)[x] = Count(g, x)
  BY DEF BagOf, Count
<1>2. \A x : /\ Count(f, x) = 0 <=> x \notin ToSet(f)
             /\ Count(g, x) = 0 <=> x \notin ToSet(g)
  BY CountLemma
<1>3. ASSUME BagOf(f) = BagOf(g), NEW x
      PROVE  Count(f, x) = Count(g, x)
  BY <1>1, <1>2, <1>3
<1>4. ASSUME \A x : Count(f, x) = Count(g, x)
      PROVE  BagOf(f) = BagOf(g)
  <2>1. ToSet(f) = ToSet(g)
    BY <1>2, <1>4
  <2>2. BagOf(f) = [x \in ToSet(f) |-> Count(f, x)] /\ BagOf(g) = [x \in ToSet(g) |-> Count(g, x)]
    BY DEF BagOf, Count
  <2> QED
    BY <1>4, <2>1, <2>2
<1> QED
  BY <1>3, <1>4

\* Where headers of a name, in lower case, with a value stand.
With(headers, name, value) ==
  {i \in DOMAIN headers : LowerCase(headers[i][1]) = name /\ headers[i][2] = value}

LEMMA ValuesLemma ==
  ASSUME NEW a, IsFiniteSet(DOMAIN a), NEW b, IsFiniteSet(DOMAIN b), NEW name
  PROVE  ValuesOf(a, name) = ValuesOf(b, name) <=>
           \A v : Cardinality(With(a, name, v)) = Cardinality(With(b, name, v))
<1> DEFINE Of(h) == [i \in {i \in DOMAIN h : LowerCase(h[i][1]) = name} |-> h[i][2]]
<1>1. ASSUME NEW h, IsFiniteSet(DOMAIN h)
      PROVE  /\ ValuesOf(h, name) = BagOf(Of(h)) /\ IsFiniteSet(DOMAIN Of(h))
             /\ \A v : Count(Of(h), v) = Cardinality(With(h, name, v))
  <2>1. IsFiniteSet({i \in DOMAIN h : LowerCase(h[i][1]) = name})
    BY <1>1, FS_Subset
  <2>2. DOMAIN Of(h) = {i \in DOMAIN h : LowerCase(h[i][1]) = name}
    OBVIOUS
  <2>3. \A v : {i \in DOMAIN Of(h) : Of(h)[i] = v} = With(h, name, v)
    BY DEF With
  <2>4. ValuesOf(h, name) = BagOf(Of(h))
    BY DEF ValuesOf
  <2> HIDE DEF Of
  <2> QED
    BY <2>1, <2>2, <2>3, <2>4 DEF Count
<1> HIDE DEF Of
<1>2. BagOf(Of(a)) = BagOf(Of(b)) <=> \A v : Count(Of(a), v) = Count(Of(b), v)
  BY <1>1, BagLemma
<1> QED
  BY <1>1, <1>2


-----------------------------------------------------------------------------
\* Pairs of the headers at some places of a message and of one other value.
HeaderPairs(headers, K, place, pair) == WithPair(Texts(Restrict(Lowered(headers), K)), place, pair)

IsPairs(pairs, headers, K, place, pair) ==
  /\ DOMAIN pairs = K \cup {place} /\ pairs[place] = pair
  /\ \A i \in K : pairs[i] = <<LowerCase(headers[i][1]), Text(headers[i][2])>>

\* They are where the headers are, and the other value at its place.
LEMMA PairsLemma ==
  ASSUME NEW headers, NEW K, \A i \in K : i \in DOMAIN headers, NEW place, place \notin K, NEW pair
  PROVE  IsPairs(HeaderPairs(headers, K, place, pair), headers, K, place, pair)
<1> DEFINE low == Restrict(Lowered(headers), K)
           texts == Texts(low)
<1>1. DOMAIN low = K /\ \A i \in K : low[i] = <<LowerCase(headers[i][1]), headers[i][2]>>
  BY DEF Restrict, Lowered
<1> HIDE DEF low
<1>2. DOMAIN texts = K /\ \A i \in K : texts[i] = <<LowerCase(headers[i][1]), Text(headers[i][2])>>
  BY <1>1 DEF Texts
<1> HIDE DEF texts
<1> QED
  BY <1>2 DEF WithPair, HeaderPairs, IsPairs, texts, low

\* No text is a number.
LEMMA TagLemma ==
  \A v, k : Text(v) # Number(k)
BY DEF Text, Number

\* Whether headers of a name, in lower case, count for a response.
CountsFor(certification, name) ==
  /\ name # "ic-certificate"
  /\ \/ name = "ic-certificateexpression"
     \/ (name \in {LowerCase(n) : n \in ToSet(certification.headers)}) <=> (certification.type = "certified_response_headers")

\* filter_response_headers keeps the headers that count.
LEMMA FilterLemma ==
  ASSUME NEW r, NEW certification
  PROVE  FilterResponseHeaders(r, certification).headers =
           Restrict(Lowered(r.headers), {i \in DOMAIN r.headers : CountsFor(certification, LowerCase(r.headers[i][1]))})
<1> DEFINE h == r.headers
           Counts(name) ==
             /\ ~EqualIgnoringCase(name, CertificateHeaderName)
             /\ \/ EqualIgnoringCase(name, CertificateExpressionHeaderName)
                \/ Lists(certification.headers, name) <=> certification.type = "certified_response_headers"
<1>1. \A name : Lists(certification.headers, name) <=> LowerCase(name) \in {LowerCase(n) : n \in ToSet(certification.headers)}
  BY DEF Lists, EqualIgnoringCase, ToSet
<1>2. \A name : Counts(name) <=> CountsFor(certification, LowerCase(name))
  BY <1>1, NameAssumption DEF CountsFor, EqualIgnoringCase
<1>3. FilterResponseHeaders(r, certification).headers = Restrict(Lowered(h), {i \in DOMAIN h : Counts(h[i][1])})
  BY DEF FilterResponseHeaders
<1> HIDE DEF Counts
<1>4. {i \in DOMAIN h : Counts(h[i][1])} = {i \in DOMAIN h : CountsFor(certification, LowerCase(h[i][1]))}
  BY <1>2
<1> QED
  BY <1>3, <1>4

StatusPair(code) == <<":ic-cert-status", Number(code)>>

\* What goes into the hash of a response.
ResponsePairs(r, certification) ==
  WithPair(Texts(FilterResponseHeaders(r, certification).headers), 0, StatusPair(r.status_code))

\* In what is hashed of a response its status occurs once, each header that counts as
\* often as in the response, and nothing else does.
LEMMA ResponsePairsLemma ==
  ASSUME NEW r, IsFiniteSet(DOMAIN r.headers), 0 \notin DOMAIN r.headers, NEW certification
  PROVE  LET pairs == ResponsePairs(r, certification)
         IN  /\ IsFiniteSet(DOMAIN pairs)
             /\ \A k : Count(pairs, StatusPair(k)) = IF k = r.status_code THEN 1 ELSE 0
             /\ \A n, v : Count(pairs, <<n, Text(v)>>) =
                            IF CountsFor(certification, n) THEN Cardinality(With(r.headers, n, v)) ELSE 0
             /\ \A x : \/ \E n, v : x = <<n, Text(v)>>
                       \/ x = StatusPair(r.status_code)
                       \/ Count(pairs, x) = 0
<1> DEFINE h == r.headers
           K == {i \in DOMAIN h : CountsFor(certification, LowerCase(h[i][1]))}
           pairs == ResponsePairs(r, certification)
<1>1. /\ DOMAIN pairs = K \cup {0} /\ pairs[0] = StatusPair(r.status_code)
      /\ \A i \in K : pairs[i] = <<LowerCase(h[i][1]), Text(h[i][2])>>
  <2>1. pairs = HeaderPairs(h, K, 0, StatusPair(r.status_code))
    BY FilterLemma DEF ResponsePairs, HeaderPairs
  <2>2. (\A i \in K : i \in DOMAIN h) /\ 0 \notin K
    OBVIOUS
  <2> HIDE DEF K, h, pairs
  <2>3. IsPairs(pairs, h, K, 0, StatusPair(r.status_code))
    BY <2>1, <2>2, PairsLemma
  <2> QED
    BY <2>3 DEF IsPairs
<1> HIDE DEF pairs
<1>2. IsFiniteSet(DOMAIN pairs)
  <2>1. IsFiniteSet(K)
    BY FS_Subset
  <2> HIDE DEF K
  <2> QED
    BY <1>1, <2>1, FS_AddElement
<1>3. \A k : Count(pairs, StatusPair(k)) = IF k = r.status_code THEN 1 ELSE 0
  <2> TAKE k
  <2> DEFINE at == {i \in DOMAIN pairs : pairs[i] = StatusPair(k)}
  <2>1. \A i \in K : i \notin at
    BY <1>1, TagLemma DEF StatusPair
  <2>2. 0 \in at <=> k = r.status_code
    BY <1>1 DEF StatusPair, Number
  <2>3. at = IF k = r.status_code THEN {0} ELSE {}
    BY <1>1, <2>1, <2>2
  <2>4. Cardinality({0}) = 1 /\ Cardinality({}) = 0
    BY FS_Singleton, FS_EmptySet
  <2> QED
    BY <2>3, <2>4 DEF Count
<1>4. \A n, v : Count(pairs, <<n, Text(v)>>) = IF CountsFor(certification, n) THEN Cardinality(With(h, n, v)) ELSE 0
  <2> TAKE n, v
  <2> DEFINE at == {i \in DOMAIN pairs : pairs[i] = <<n, Text(v)>>}
  <2>1. 0 \notin at
    BY <1>1, TagLemma DEF StatusPair
  <2>2. \A i \in K : i \in at <=> LowerCase(h[i][1]) = n /\ h[i][2] = v
    BY <1>1 DEF Text
  <2>3. at = IF CountsFor(certification, n) THEN With(h, n, v) ELSE {}
    BY <1>1, <2>1, <2>2 DEF With
  <2>4. Cardinality({}) = 0
    BY FS_EmptySet
  <2> QED
    BY <2>3, <2>4 DEF Count
<1>5. ASSUME NEW x
      PROVE  (\E n, v : x = <<n, Text(v)>>) \/ x = StatusPair(r.status_code) \/ Count(pairs, x) = 0
  <2> DEFINE at == {i \in DOMAIN pairs : pairs[i] = x}
  <2>1. CASE at = {}
    BY <2>1, FS_EmptySet DEF Count
  <2>2. ASSUME NEW i \in at
        PROVE  (\E n, v : x = <<n, Text(v)>>) \/ x = StatusPair(r.status_code)
    BY <1>1, <2>2
  <2> QED
    BY <2>1, <2>2
<1> QED
  BY <1>2, <1>3, <1>4, <1>5 DEF pairs

\* The headers that count for a response occur as often in one as in another.
CountedAlike(certification, a, b) ==
  \A n, v : CountsFor(certification, n) =>
    Cardinality(With(a.headers, n, v)) = Cardinality(With(b.headers, n, v))

\* The hashes of two responses are the same if their statuses are and each header that
\* counts occurs as often in the one as in the other.
LEMMA ResponseHashLemma ==
  ASSUME NEW a, IsFiniteSet(DOMAIN a.headers), 0 \notin DOMAIN a.headers,
         NEW b, IsFiniteSet(DOMAIN b.headers), 0 \notin DOMAIN b.headers, NEW certification
  PROVE  LET Hash(r) == ResponseHeadersHash(r.status_code, FilterResponseHeaders(r, certification))
         IN  Hash(a) = Hash(b) <=> a.status_code = b.status_code /\ CountedAlike(certification, a, b)
<1> DEFINE Hash(r) == ResponseHeadersHash(r.status_code, FilterResponseHeaders(r, certification))
           A == ResponsePairs(a, certification)
           B == ResponsePairs(b, certification)
           Same == /\ a.status_code = b.status_code
                   /\ \A n, v : CountsFor(certification, n) =>
                        Cardinality(With(a.headers, n, v)) = Cardinality(With(b.headers, n, v))
<1>1. Hash(a) = BagOf(A) /\ Hash(b) = BagOf(B)
  BY DEF ResponseHeadersHash, ResponsePairs, RepresentationIndependentHash, StatusPair
<1>2. /\ IsFiniteSet(DOMAIN A)
      /\ \A k : Count(A, StatusPair(k)) = IF k = a.status_code THEN 1 ELSE 0
      /\ \A n, v : Count(A, <<n, Text(v)>>) =
                     IF CountsFor(certification, n) THEN Cardinality(With(a.headers, n, v)) ELSE 0
      /\ \A x : \/ \E n, v : x = <<n, Text(v)>>
                \/ x = StatusPair(a.status_code)
                \/ Count(A, x) = 0
  BY ResponsePairsLemma
<1>3. /\ IsFiniteSet(DOMAIN B)
      /\ \A k : Count(B, StatusPair(k)) = IF k = b.status_code THEN 1 ELSE 0
      /\ \A n, v : Count(B, <<n, Text(v)>>) =
                     IF CountsFor(certification, n) THEN Cardinality(With(b.headers, n, v)) ELSE 0
      /\ \A x : \/ \E n, v : x = <<n, Text(v)>>
                \/ x = StatusPair(b.status_code)
                \/ Count(B, x) = 0
  BY ResponsePairsLemma
<1> HIDE DEF A, B, Hash
<1>4. Hash(a) = Hash(b) <=> \A x : Count(A, x) = Count(B, x)
  BY <1>1, <1>2, <1>3, BagLemma
<1>5. ASSUME \A x : Count(A, x) = Count(B, x)
      PROVE  Same
  <2>1. Count(A, StatusPair(a.status_code)) = Count(B, StatusPair(a.status_code))
    BY <1>5
  <2>2. a.status_code = b.status_code
    BY <1>2, <1>3, <2>1
  <2>3. ASSUME NEW n, NEW v, CountsFor(certification, n)
        PROVE  Cardinality(With(a.headers, n, v)) = Cardinality(With(b.headers, n, v))
    <3>1. Count(A, <<n, Text(v)>>) = Count(B, <<n, Text(v)>>)
      BY <1>5
    <3> QED
      BY <1>2, <1>3, <2>3, <3>1
  <2> QED
    BY <2>2, <2>3
<1>6. ASSUME Same, NEW x
      PROVE  Count(A, x) = Count(B, x)
  <2>1. CASE \E n, v : x = <<n, Text(v)>>
    BY <1>2, <1>3, <1>6, <2>1
  <2>2. CASE x = StatusPair(a.status_code)
    BY <1>2, <1>3, <1>6, <2>2
  <2>3. CASE Count(A, x) = 0 /\ Count(B, x) = 0
    BY <2>3
  <2> QED
    BY <1>2, <1>3, <1>6, <2>1, <2>2, <2>3
<1> QED
  BY <1>4, <1>5, <1>6 DEF Hash, CountedAlike

\* So it is said what it means that responses are the same for an expression.
LEMMA SameResponseLemma ==
  ASSUME NEW a, IsFiniteSet(DOMAIN a.headers), NEW b, IsFiniteSet(DOMAIN b.headers), NEW e
  PROVE  SameResponseFor(e, a, b) <=>
           a.status_code = b.status_code /\ a.body = b.body /\ CountedAlike(e.response, a, b)
<1> DEFINE names == CountedNames(e, a.headers) \cup CountedNames(e, b.headers)
           As(n, v) == With(a.headers, n, v)
           Bs(n, v) == With(b.headers, n, v)
<1>1. \A n : ValuesOf(a.headers, n) = ValuesOf(b.headers, n) <=>
               \A v : Cardinality(As(n, v)) = Cardinality(Bs(n, v))
  BY ValuesLemma
<1>2. \A n \in names : CountsFor(e.response, n)
  BY DEF CountedNames, CountsFor
<1>3. ASSUME NEW n, CountsFor(e.response, n), n \notin names, NEW v
      PROVE  As(n, v) = Bs(n, v)
  <2>1. n \notin NamesIn(a.headers) /\ n \notin NamesIn(b.headers)
    BY <1>3 DEF CountedNames, CountsFor
  <2>2. As(n, v) = {} /\ Bs(n, v) = {}
    BY <2>1 DEF NamesIn, With, ToSet
  <2> QED
    BY <2>2
<1>4. SameValues(a.headers, b.headers, names) <=> \A n \in names : \A v : Cardinality(As(n, v)) = Cardinality(Bs(n, v))
  BY <1>1 DEF SameValues
<1>5. SameResponseFor(e, a, b) <=>
        a.status_code = b.status_code /\ a.body = b.body /\ SameValues(a.headers, b.headers, names)
  BY DEF SameResponseFor
<1> HIDE DEF names, As, Bs
<1>6. SameValues(a.headers, b.headers, names) <=>
        \A n, v : CountsFor(e.response, n) => Cardinality(As(n, v)) = Cardinality(Bs(n, v))
  BY <1>2, <1>3, <1>4
<1> QED
  BY <1>5, <1>6 DEF As, Bs, CountedAlike

-----------------------------------------------------------------------------
\* The headers, in lower case, that a certification lists.
ListedNames(certification) == {LowerCase(n) : n \in ToSet(certification.headers)}

MethodPair(method) == <<":ic-cert-method", Text(method)>>
QueryPair(query)   == <<":ic-cert-query", Text(query)>>

FilteredQuery(q, certification) ==
  IF GetQuery(q) = <<>> THEN <<>> ELSE GetFilteredQuery(GetQuery(q)[1], certification)

\* What goes into the hash of a request.
RequestPairs(q, certification) ==
  LET filtered == FilteredQuery(q, certification)
      pairs    == WithPair(Texts(GetFilteredHeaders(q.headers, certification)), 0, MethodPair(q.method))
  IN  IF filtered = <<>> THEN pairs ELSE WithPair(pairs, Len(q.headers) + 1, QueryPair(filtered[1]))

LEMMA RequestHashIsOfPairs ==
  ASSUME NEW q, NEW certification
  PROVE  RequestHash(q, certification) = [headers |-> BagOf(RequestPairs(q, certification)), body |-> q.body]
<1> DEFINE query == GetQuery(q)
           filtered == FilteredQuery(q, certification)
<1>1. filtered = IF query = <<>> THEN <<>> ELSE GetFilteredQuery(query[1], certification)
  BY DEF FilteredQuery
<1> QED
  BY <1>1 DEF RequestHash, RequestPairs, RepresentationIndependentHash, MethodPair, QueryPair

\* The method stands before the headers, the certified parameters after them.
LEMMA RequestPairsAre ==
  ASSUME NEW q, Len(q.headers) \in Nat, DOMAIN q.headers = 1 .. Len(q.headers), NEW certification
  PROVE  LET h        == q.headers
             K        == {i \in DOMAIN h : LowerCase(h[i][1]) \in ListedNames(certification)}
             filtered == FilteredQuery(q, certification)
             pairs    == RequestPairs(q, certification)
         IN  /\ DOMAIN pairs = K \cup {0} \cup (IF filtered = <<>> THEN {} ELSE {Len(h) + 1})
             /\ pairs[0] = MethodPair(q.method)
             /\ \A i \in K : pairs[i] = <<LowerCase(h[i][1]), Text(h[i][2])>>
             /\ filtered # <<>> => pairs[Len(h) + 1] = QueryPair(filtered[1])
<1> DEFINE h == q.headers
           K == {i \in DOMAIN h : LowerCase(h[i][1]) \in ListedNames(certification)}
           filtered == FilteredQuery(q, certification)
           first == HeaderPairs(h, K, 0, MethodPair(q.method))
           pairs == RequestPairs(q, certification)
<1>1. GetFilteredHeaders(h, certification) = Restrict(Lowered(h), K)
  <2>1. \A name : Lists(certification.headers, name) <=> LowerCase(name) \in ListedNames(certification)
    BY DEF Lists, EqualIgnoringCase, ToSet, ListedNames
  <2>2. {i \in DOMAIN h : Lists(certification.headers, h[i][1])} = K
    BY <2>1
  <2> QED
    BY <2>2 DEF GetFilteredHeaders
<1>2. (\A i \in K : i \in DOMAIN h) /\ 0 \notin K /\ Len(h) \in Nat /\ Len(h) + 1 \notin K \cup {0}
  OBVIOUS
<1>3. pairs = IF filtered = <<>> THEN first ELSE WithPair(first, Len(h) + 1, QueryPair(filtered[1]))
  BY <1>1 DEF RequestPairs, HeaderPairs
<1>4. IsPairs(first, h, K, 0, MethodPair(q.method))
  <2> HIDE DEF K, h
  <2> QED
    BY <1>2, PairsLemma
<1>5. /\ DOMAIN first = K \cup {0} /\ first[0] = MethodPair(q.method)
      /\ \A i \in K : first[i] = <<LowerCase(h[i][1]), Text(h[i][2])>>
  <2> HIDE DEF K, h, first
  <2> QED
    BY <1>4 DEF IsPairs
<1> HIDE DEF first, K, h, filtered, pairs
<1>6. /\ DOMAIN pairs = K \cup {0} \cup (IF filtered = <<>> THEN {} ELSE {Len(h) + 1})
      /\ pairs[0] = MethodPair(q.method)
      /\ \A i \in K : pairs[i] = <<LowerCase(h[i][1]), Text(h[i][2])>>
      /\ filtered # <<>> => pairs[Len(h) + 1] = QueryPair(filtered[1])
  <2>1. CASE filtered = <<>>
    BY <1>3, <1>5, <2>1
  <2>2. CASE filtered # <<>>
    <3> DEFINE n == Len(h) + 1
               last == QueryPair(filtered[1])
    <3>1. pairs = WithPair(first, n, last)
      BY <1>3, <2>2
    <3>2. n \notin DOMAIN first
      BY <1>2, <1>5
    <3> HIDE DEF n, last
    <3>3. DOMAIN pairs = DOMAIN first \cup {n} /\ pairs[n] = last /\ \A i \in DOMAIN first : pairs[i] = first[i]
      BY <3>1, <3>2 DEF WithPair
    <3> QED
      BY <1>5, <2>2, <3>3 DEF n, last
  <2> QED
    BY <2>1, <2>2
<1> QED
  BY <1>6 DEF h, K, filtered, pairs

Reserved == {":ic-cert-method", ":ic-cert-query"}

\* How often what counts of a request occurs in what is hashed.
CountsOfRequest(q, certification) ==
  LET pairs    == RequestPairs(q, certification)
      filtered == FilteredQuery(q, certification)
  IN  /\ IsFiniteSet(DOMAIN pairs)
      /\ \A m : Count(pairs, MethodPair(m)) = IF m = q.method THEN 1 ELSE 0
      /\ \A s : Count(pairs, QueryPair(s)) = IF filtered # <<>> /\ filtered[1] = s THEN 1 ELSE 0
      /\ \A n, v : n \notin Reserved =>
           Count(pairs, <<n, Text(v)>>) =
             IF n \in ListedNames(certification) THEN Cardinality(With(q.headers, n, v)) ELSE 0
      /\ \A x : (\E n, v : x = <<n, Text(v)>>) \/ Count(pairs, x) = 0

\* No header that is listed is taken for the method or the parameters.
LEMMA RequestPairsLemma ==
  ASSUME NEW q, Len(q.headers) \in Nat, DOMAIN q.headers = 1 .. Len(q.headers),
         NEW certification, ListedNames(certification) \cap Reserved = {}
  PROVE  CountsOfRequest(q, certification)
<1> DEFINE h == q.headers
           K == {i \in DOMAIN h : LowerCase(h[i][1]) \in ListedNames(certification)}
           filtered == FilteredQuery(q, certification)
           last == Len(h) + 1
           pairs == RequestPairs(q, certification)
<1>1. /\ DOMAIN pairs = K \cup {0} \cup (IF filtered = <<>> THEN {} ELSE {last})
      /\ pairs[0] = MethodPair(q.method)
      /\ \A i \in K : pairs[i] = <<LowerCase(h[i][1]), Text(h[i][2])>>
      /\ filtered # <<>> => pairs[last] = QueryPair(filtered[1])
  BY RequestPairsAre
<1>2. K \subseteq 1 .. Len(h) /\ last # 0 /\ last \notin K /\ 0 \notin K
  OBVIOUS
<1>3. \A i \in K : LowerCase(h[i][1]) \in ListedNames(certification) /\ LowerCase(h[i][1]) \notin Reserved
  OBVIOUS
<1>4. Cardinality({}) = 0 /\ Cardinality({0}) = 1 /\ Cardinality({last}) = 1
  BY FS_EmptySet, FS_Singleton
<1>5. \A n, v : With(h, n, v) = {i \in DOMAIN h : LowerCase(h[i][1]) = n /\ h[i][2] = v}
  BY DEF With
<1>6. IsFiniteSet(K)
  <2>1. IsFiniteSet(1 .. Len(h))
    BY FS_Interval
  <2> HIDE DEF K
  <2> QED
    BY <1>2, <2>1, FS_Subset
<1> HIDE DEF pairs, filtered, last
<1>7. IsFiniteSet(DOMAIN pairs)
  <2>1. IsFiniteSet(K \cup {0}) /\ IsFiniteSet(K \cup {0} \cup {last})
    BY <1>6, FS_AddElement
  <2>2. DOMAIN pairs = K \cup {0} \/ DOMAIN pairs = K \cup {0} \cup {last}
    BY <1>1
  <2> HIDE DEF K
  <2> QED
    BY <2>1, <2>2
<1>8. ASSUME NEW m
      PROVE  Count(pairs, MethodPair(m)) = IF m = q.method THEN 1 ELSE 0
  <2> DEFINE at == {i \in DOMAIN pairs : pairs[i] = MethodPair(m)}
  <2>1. \A i \in K : i \notin at
    BY <1>1, <1>3 DEF MethodPair, Reserved
  <2>2. last \notin at
    BY <1>1, <1>2 DEF MethodPair, QueryPair
  <2>3. 0 \in at <=> m = q.method
    BY <1>1 DEF MethodPair, Text
  <2>4. at = IF m = q.method THEN {0} ELSE {}
    BY <1>1, <2>1, <2>2, <2>3
  <2> QED
    BY <1>4, <2>4 DEF Count
<1>9. ASSUME NEW s
      PROVE  Count(pairs, QueryPair(s)) = IF filtered # <<>> /\ filtered[1] = s THEN 1 ELSE 0
  <2> DEFINE at == {i \in DOMAIN pairs : pairs[i] = QueryPair(s)}
  <2>1. \A i \in K : i \notin at
    BY <1>1, <1>3 DEF QueryPair, Reserved
  <2>2. 0 \notin at
    BY <1>1 DEF MethodPair, QueryPair
  <2>3. last \in at <=> filtered # <<>> /\ filtered[1] = s
    BY <1>1, <1>2 DEF QueryPair, Text
  <2>4. at = IF filtered # <<>> /\ filtered[1] = s THEN {last} ELSE {}
    BY <1>1, <2>1, <2>2, <2>3
  <2> QED
    BY <1>4, <2>4 DEF Count
<1>10. ASSUME NEW n, NEW v, n \notin Reserved
       PROVE  Count(pairs, <<n, Text(v)>>) = IF n \in ListedNames(certification) THEN Cardinality(With(h, n, v)) ELSE 0
  <2> DEFINE at == {i \in DOMAIN pairs : pairs[i] = <<n, Text(v)>>}
  <2>1. 0 \notin at /\ last \notin at
    BY <1>1, <1>2, <1>10 DEF MethodPair, QueryPair, Reserved
  <2>2. \A i \in K : i \in at <=> LowerCase(h[i][1]) = n /\ h[i][2] = v
    BY <1>1 DEF Text
  <2>3. at = IF n \in ListedNames(certification) THEN With(h, n, v) ELSE {}
    BY <1>1, <1>5, <2>1, <2>2
  <2> QED
    BY <1>4, <2>3 DEF Count
<1>11. ASSUME NEW x
       PROVE  (\E n, v : x = <<n, Text(v)>>) \/ Count(pairs, x) = 0
  <2> DEFINE at == {i \in DOMAIN pairs : pairs[i] = x}
  <2>1. CASE at = {}
    BY <1>4, <2>1 DEF Count
  <2>2. ASSUME NEW i \in at
        PROVE  \E n, v : x = <<n, Text(v)>>
    <3>1. i \in K => x = <<LowerCase(h[i][1]), Text(h[i][2])>>
      BY <1>1, <2>2
    <3>2. i = 0 => x = <<":ic-cert-method", Text(q.method)>>
      BY <1>1, <2>2 DEF MethodPair
    <3>3. i \notin K \cup {0} => x = <<":ic-cert-query", Text(filtered[1])>>
      BY <1>1, <2>2 DEF QueryPair
    <3> QED
      BY <3>1, <3>2, <3>3
  <2> QED
    BY <2>1, <2>2
<1> QED
  BY <1>7, <1>8, <1>9, <1>10, <1>11 DEF CountsOfRequest, pairs, filtered

\* The headers that are listed for a request occur as often in one as in another.
ListedAlike(certification, a, b) ==
  \A n \in ListedNames(certification) : \A v :
    Cardinality(With(a.headers, n, v)) = Cardinality(With(b.headers, n, v))

\* The hashes of two requests are the same if their methods and what is certified of
\* their queries are, and each header that is listed occurs as often in both.
LEMMA RequestHashLemma ==
  ASSUME NEW a, Len(a.headers) \in Nat, DOMAIN a.headers = 1 .. Len(a.headers),
         NEW b, Len(b.headers) \in Nat, DOMAIN b.headers = 1 .. Len(b.headers),
         NEW certification, ListedNames(certification) \cap Reserved = {},
         NEW fa, fa = FilteredQuery(a, certification), fa = <<>> \/ fa = <<fa[1]>>,
         NEW fb, fb = FilteredQuery(b, certification), fb = <<>> \/ fb = <<fb[1]>>
  PROVE  BagOf(RequestPairs(a, certification)) = BagOf(RequestPairs(b, certification)) <=>
           a.method = b.method /\ fa = fb /\ ListedAlike(certification, a, b)
<1> DEFINE A == RequestPairs(a, certification)
           B == RequestPairs(b, certification)
           names == ListedNames(certification)
           SameHeaders == \A n \in names : \A v : Cardinality(With(a.headers, n, v)) = Cardinality(With(b.headers, n, v))
<1>1. CountsOfRequest(a, certification) /\ CountsOfRequest(b, certification)
  BY RequestPairsLemma
<1>2. /\ IsFiniteSet(DOMAIN A)
      /\ \A m : Count(A, MethodPair(m)) = IF m = a.method THEN 1 ELSE 0
      /\ \A s : Count(A, QueryPair(s)) = IF fa # <<>> /\ fa[1] = s THEN 1 ELSE 0
      /\ \A n, v : n \notin Reserved =>
           Count(A, <<n, Text(v)>>) = IF n \in names THEN Cardinality(With(a.headers, n, v)) ELSE 0
      /\ \A x : (\E n, v : x = <<n, Text(v)>>) \/ Count(A, x) = 0
  BY <1>1 DEF CountsOfRequest
<1>3. /\ IsFiniteSet(DOMAIN B)
      /\ \A m : Count(B, MethodPair(m)) = IF m = b.method THEN 1 ELSE 0
      /\ \A s : Count(B, QueryPair(s)) = IF fb # <<>> /\ fb[1] = s THEN 1 ELSE 0
      /\ \A n, v : n \notin Reserved =>
           Count(B, <<n, Text(v)>>) = IF n \in names THEN Cardinality(With(b.headers, n, v)) ELSE 0
      /\ \A x : (\E n, v : x = <<n, Text(v)>>) \/ Count(B, x) = 0
  BY <1>1 DEF CountsOfRequest
<1> HIDE DEF A, B, names
<1>4. BagOf(A) = BagOf(B) <=> \A x : Count(A, x) = Count(B, x)
  BY <1>2, <1>3, BagLemma
<1>5. \A n \in names : n \notin Reserved
  BY DEF names
<1>6. ASSUME \A x : Count(A, x) = Count(B, x)
      PROVE  a.method = b.method /\ fa = fb /\ SameHeaders
  <2>1. a.method = b.method
    <3>1. Count(A, MethodPair(a.method)) = Count(B, MethodPair(a.method))
      BY <1>6
    <3> QED
      BY <1>2, <1>3, <3>1
  <2>2. fa # <<>> => fb # <<>> /\ fb[1] = fa[1]
    <3>1. Count(A, QueryPair(fa[1])) = Count(B, QueryPair(fa[1]))
      BY <1>6
    <3> QED
      BY <1>2, <1>3, <3>1
  <2>3. fb # <<>> => fa # <<>>
    <3>1. Count(A, QueryPair(fb[1])) = Count(B, QueryPair(fb[1]))
      BY <1>6
    <3> QED
      BY <1>2, <1>3, <3>1
  <2>4. fa = fb
    BY <2>2, <2>3
  <2>5. ASSUME NEW n \in names, NEW v
        PROVE  Cardinality(With(a.headers, n, v)) = Cardinality(With(b.headers, n, v))
    <3>1. Count(A, <<n, Text(v)>>) = Count(B, <<n, Text(v)>>)
      BY <1>6
    <3> QED
      BY <1>2, <1>3, <1>5, <3>1
  <2> QED
    BY <2>1, <2>4, <2>5
<1>7. ASSUME a.method = b.method, fa = fb, SameHeaders, NEW x
      PROVE  Count(A, x) = Count(B, x)
  <2>1. CASE \E n, v : x = <<n, Text(v)>>
    <3>1. PICK n, v : x = <<n, Text(v)>>
      BY <2>1
    <3>2. CASE n \notin Reserved
      BY <1>2, <1>3, <1>7, <3>1, <3>2
    <3>3. CASE n = ":ic-cert-method"
      <4>1. x = MethodPair(v)
        BY <3>1, <3>3 DEF MethodPair
      <4> QED
        BY <1>2, <1>3, <1>7, <4>1
    <3>4. CASE n = ":ic-cert-query"
      <4>1. x = QueryPair(v)
        BY <3>1, <3>4 DEF QueryPair
      <4> QED
        BY <1>2, <1>3, <1>7, <4>1
    <3> QED
      BY <3>2, <3>3, <3>4 DEF Reserved
  <2>2. CASE Count(A, x) = 0 /\ Count(B, x) = 0
    BY <2>2
  <2> QED
    BY <1>2, <1>3, <2>1, <2>2
<1> QED
  BY <1>4, <1>6, <1>7 DEF A, B, names, ListedAlike

\* The parameters that count of a request, as SameRequestFor compares them.
CountedQuery(e, q) ==
  LET names == {LowerCase(n) : n \in ToSet(e.request.query_parameters)}
      query == GivenOr(q.url.query, <<>>)
  IN  InOrder(Restrict(query, {i \in DOMAIN query : LowerCase(query[i].name) \in names}))

LEMMA InOrderLemma ==
  ASSUME NEW f, IsFiniteSet(DOMAIN f)
  PROVE  InOrder(f) = <<>> <=> DOMAIN f = {}
<1>1. DOMAIN InOrder(f) = 1 .. Cardinality(DOMAIN f)
  BY DEF InOrder
<1>2. Cardinality(DOMAIN f) \in Nat /\ (Cardinality(DOMAIN f) = 0 <=> DOMAIN f = {})
  BY FS_CardinalityType, FS_EmptySet
<1>3. InOrder(f) = <<>> => DOMAIN f = {}
  <2>1. DOMAIN <<>> = {}
    OBVIOUS
  <2>2. DOMAIN f # {} => 1 \in DOMAIN InOrder(f)
    BY <1>1, <1>2
  <2> QED
    BY <2>1, <2>2
<1>4. DOMAIN f = {} => InOrder(f) = <<>>
  <2> SUFFICES ASSUME DOMAIN f = {} PROVE InOrder(f) = <<>>
    OBVIOUS
  <2>1. Cardinality(DOMAIN f) = 0
    BY <1>2
  <2>2. 1 .. Cardinality(DOMAIN f) = {}
    BY <2>1
  <2> QED
    BY <2>2 DEF InOrder
<1> QED
  BY <1>3, <1>4

\* No parameters that are certified are as good as no query.
LEMMA QueryLemma ==
  ASSUME NEW q, IsRequest(q), NEW e
  PROVE  FilteredQuery(q, e.request) = IF CountedQuery(e, q) = <<>> THEN <<>> ELSE <<CountedQuery(e, q)>>
<1> DEFINE query == GivenOr(q.url.query, <<>>)
           names == {LowerCase(n) : n \in ToSet(e.request.query_parameters)}
           places == {i \in DOMAIN query : LowerCase(query[i].name) \in names}
           kept == Restrict(query, places)
<1>1. CountedQuery(e, q) = InOrder(kept)
  BY DEF CountedQuery
<1>2. DOMAIN kept = places
  BY DEF Restrict
<1>3. IsFiniteSet(places)
  <2>1. PICK n \in Nat : DOMAIN query = 1 .. n
    <3>1. CASE q.url.query = <<>>
      <4>1. DOMAIN query = 1 .. 0
        BY <3>1 DEF GivenOr
      <4> QED
        BY <4>1
    <3>2. CASE q.url.query = <<q.url.query[1]>> /\ q.url.query[1] \in Seq(ToSet(q.url.query[1]))
      <4>1. query = q.url.query[1]
        BY <3>2 DEF GivenOr
      <4> QED
        BY <3>2, <4>1
    <3> QED
      BY <3>1, <3>2 DEF IsRequest
  <2>2. IsFiniteSet(DOMAIN query)
    BY <2>1, FS_Interval
  <2> HIDE DEF query
  <2> QED
    BY <2>2, FS_Subset
<1>4. InOrder(kept) = <<>> <=> places = {}
  <2> HIDE DEF kept, places
  <2> QED
    BY <1>2, <1>3, InOrderLemma
<1>5. FilteredQuery(q, e.request) = IF places = {} THEN <<>> ELSE <<InOrder(kept)>>
  <2>1. CASE q.url.query = <<>>
    <3>1. places = {}
      BY <2>1 DEF GivenOr
    <3> QED
      BY <2>1, <3>1 DEF FilteredQuery, GetQuery
  <2>2. CASE q.url.query # <<>>
    <3>1. query = q.url.query[1]
      BY <2>2 DEF GivenOr
    <3>2. \A name : Lists(e.request.query_parameters, name) <=> LowerCase(name) \in names
      BY DEF Lists, EqualIgnoringCase, ToSet
    <3> HIDE DEF query, names
    <3>3. {i \in DOMAIN query : Lists(e.request.query_parameters, query[i].name)} = places
      BY <3>2
    <3>4. FilteredQuery(q, e.request) = GetFilteredQuery(query, e.request)
      BY <2>2, <3>1 DEF FilteredQuery, GetQuery
    <3> HIDE DEF places
    <3> QED
      BY <3>3, <3>4 DEF GetFilteredQuery
  <2> QED
    BY <2>1, <2>2
<1> HIDE DEF kept, places
<1> QED
  BY <1>1, <1>4, <1>5

LEMMA SeqLemma ==
  ASSUME NEW s, NEW S, s \in Seq(S)
  PROVE  Len(s) \in Nat /\ DOMAIN s = 1 .. Len(s) /\ IsFiniteSet(DOMAIN s) /\ 0 \notin DOMAIN s
<1>1. Len(s) \in Nat /\ DOMAIN s = 1 .. Len(s)
  OBVIOUS
<1>2. IsFiniteSet(1 .. Len(s))
  BY <1>1, FS_Interval
<1> QED
  BY <1>1, <1>2

\* So it is said what it means that requests are the same for an expression.
LEMMA SameRequestLemma ==
  ASSUME NEW a, IsFiniteSet(DOMAIN a.headers), NEW b, IsFiniteSet(DOMAIN b.headers), NEW e
  PROVE  SameRequestFor(e, a, b) <=>
           /\ a.method = b.method /\ a.body = b.body /\ CountedQuery(e, a) = CountedQuery(e, b)
           /\ ListedAlike(e.request, a, b)
<1> DEFINE names == ListedNames(e.request)
<1>1. \A n : ValuesOf(a.headers, n) = ValuesOf(b.headers, n) <=>
               \A v : Cardinality(With(a.headers, n, v)) = Cardinality(With(b.headers, n, v))
  BY ValuesLemma
<1>2. SameValues(a.headers, b.headers, names) <=>
        \A n \in names : \A v : Cardinality(With(a.headers, n, v)) = Cardinality(With(b.headers, n, v))
  BY <1>1 DEF SameValues
<1>3. SameRequestFor(e, a, b) <=>
        /\ a.method = b.method /\ a.body = b.body
        /\ SameValues(a.headers, b.headers, names)
        /\ CountedQuery(e, a) = CountedQuery(e, b)
  BY DEF SameRequestFor, CountedQuery, ListedNames
<1> HIDE DEF names
<1> QED
  BY <1>2, <1>3 DEF names, ListedAlike

\* The hashes of two requests are the same if and only if the requests are the same for
\* the expression.
LEMMA RequestHashMeans ==
  ASSUME NEW a, IsRequest(a), NEW b, IsRequest(b), NEW e, ListedNames(e.request) \cap Reserved = {}
  PROVE  RequestHash(a, e.request) = RequestHash(b, e.request) <=> SameRequestFor(e, a, b)
<1> DEFINE fa == FilteredQuery(a, e.request)
           fb == FilteredQuery(b, e.request)
           qa == CountedQuery(e, a)
           qb == CountedQuery(e, b)
           A == BagOf(RequestPairs(a, e.request))
           B == BagOf(RequestPairs(b, e.request))
           SameHeaders == ListedAlike(e.request, a, b)
<1>1. /\ Len(a.headers) \in Nat /\ DOMAIN a.headers = 1 .. Len(a.headers) /\ IsFiniteSet(DOMAIN a.headers)
      /\ Len(b.headers) \in Nat /\ DOMAIN b.headers = 1 .. Len(b.headers) /\ IsFiniteSet(DOMAIN b.headers)
  BY SeqLemma DEF IsRequest
<1>2. fa = (IF qa = <<>> THEN <<>> ELSE <<qa>>) /\ fb = (IF qb = <<>> THEN <<>> ELSE <<qb>>)
  BY QueryLemma
<1> HIDE DEF qa, qb
<1>3. /\ fa = <<>> \/ fa = <<fa[1]>>
      /\ fb = <<>> \/ fb = <<fb[1]>>
      /\ fa = fb <=> qa = qb
  <2> HIDE DEF fa, fb
  <2> QED
    BY <1>2
<1>4. A = B <=> a.method = b.method /\ fa = fb /\ SameHeaders
  BY <1>1, <1>3, RequestHashLemma
<1>5. SameRequestFor(e, a, b) <=> a.method = b.method /\ a.body = b.body /\ qa = qb /\ SameHeaders
  BY <1>1, SameRequestLemma DEF qa, qb
<1>6. /\ RequestHash(a, e.request) = [headers |-> A, body |-> a.body]
      /\ RequestHash(b, e.request) = [headers |-> B, body |-> b.body]
  BY RequestHashIsOfPairs
<1> HIDE DEF A, B, SameHeaders, fa, fb
<1>7. RequestHash(a, e.request) = RequestHash(b, e.request) <=> A = B /\ a.body = b.body
  BY <1>6
<1> QED
  BY <1>3, <1>4, <1>5, <1>7

\* The hash of a response is the one that the verifier computes from another if and only
\* if the responses are the same for the expression.
LEMMA ResponseHashMeans ==
  ASSUME NEW a, IsFiniteSet(DOMAIN a.headers), 0 \notin DOMAIN a.headers,
         NEW b, IsFiniteSet(DOMAIN b.headers), 0 \notin DOMAIN b.headers,
         NEW e, NEW bodyHash, GivenOr(bodyHash, a.body) = a.body
  PROVE  ResponseHash(a, e.response, bodyHash) = ResponseHash(b, e.response, <<>>) <=> SameResponseFor(e, a, b)
<1> DEFINE Hash(r) == ResponseHeadersHash(r.status_code, FilterResponseHeaders(r, e.response))
           A == Hash(a)
           B == Hash(b)
           SameHeaders == CountedAlike(e.response, a, b)
<1>2. A = B <=> a.status_code = b.status_code /\ SameHeaders
  BY ResponseHashLemma
<1>3. SameResponseFor(e, a, b) <=> a.status_code = b.status_code /\ a.body = b.body /\ SameHeaders
  BY SameResponseLemma
<1>4. GivenOr(bodyHash, a.body) = a.body /\ GivenOr(<<>>, b.body) = b.body
  BY DEF GivenOr
<1>5. /\ ResponseHash(a, e.response, bodyHash) = [headers |-> A, body |-> a.body]
      /\ ResponseHash(b, e.response, <<>>) = [headers |-> B, body |-> b.body]
  BY <1>4 DEF ResponseHash
<1> HIDE DEF A, B, SameHeaders
<1>6. ResponseHash(a, e.response, bodyHash) = ResponseHash(b, e.response, <<>>) <=> A = B /\ a.body = b.body
  BY <1>5
<1> QED
  BY <1>2, <1>3, <1>6

\* What is read of an expression is of one of three kinds.
LEMMA ReadKinds ==
  ASSUME NEW cel
  PROVE  \A e \in ReadCel(cel) : e.kind \in {"Skip", "ResponseOnly", "Full"}
<1>1. \A c : \A e \in MapCertification(c) : e.kind \in {"ResponseOnly", "Full"}
  BY DEF MapCertification, ResponseOnly, Full
<1>2. ASSUME NEW v, NEW e \in MapCelAst(v)
      PROVE  e.kind \in {"Skip", "ResponseOnly", "Full"}
  <2> DEFINE arguments == UNION {{as[i] : i \in DOMAIN as \cap {1}} : as \in Functions(v, "default_certification")}
             none(a) == Property(a, "no_certification")
             some(a) == Property(a, "certification")
             Of(a) == CASE none(a) # {} /\ some(a) = {} -> {Skip}
                        [] none(a) = {} /\ some(a) # {} -> UNION {MapCertification(c) : c \in Objects(some(a), "Certification")}
                        [] OTHER -> {}
  <2>1. MapCelAst(v) = UNION {Of(a) : a \in Objects(arguments, "ValidationArgs")}
    BY DEF MapCelAst
  <2>2. PICK a : e \in Of(a)
    <3> HIDE DEF Of, arguments
    <3> QED
      BY <1>2, <2>1
  <2> HIDE DEF none, some
  <2>3. e = Skip \/ \E c : e \in MapCertification(c)
    BY <2>2
  <2> QED
    BY <1>1, <2>3 DEF Skip
<1> QED
  BY <1>2 DEF ReadCel

-----------------------------------------------------------------------------
(***************************************************************************)
(* Cases that represent what came.                                         *)
(***************************************************************************)
\* Of a case that was certified, the certification is the one that is computed from what
\* came if and only if the expression is the one that came and the case represents it.
LEMMA RepresentsLemma ==
  ASSUME NEW c \in Cases, Certification(c) # <<>>, NEW cel, NEW e \in ReadCel(cel),
         NEW q, IsRequest(q), NEW x, IsFiniteSet(DOMAIN x.headers), 0 \notin DOMAIN x.headers
  PROVE  RecomputedCertification(cel, e, q, x) = Certification(c)[1] <=>
           cel = CreateDefaultCelExpr(c.expression) /\ Represents(c, q, x)
<1> DEFINE recomputed == RecomputedCertification(cel, e, q, x)
           written == CreateDefaultCelExpr(c.expression)
           certified == Certification(c)[1]
<1>2. e.kind \in {"Skip", "ResponseOnly", "Full"}
  BY ReadKinds
<1>3. /\ IsExpression(c.expression) /\ IsExpression(Skip) /\ IsRequest(c.request) /\ IsResponse(c.response)
      /\ c.bodyHash \in {<<>>, <<c.response.body>>}
  BY MessageAssumption
<1>4. cel = written => e = c.expression
  BY <1>3 DEF IsExpression
<1>5. c.expression.kind = "Skip" => written = CreateDefaultCelExpr(Skip)
  BY DEF CreateDefaultCelExpr, Skip
<1>6. recomputed[1] = cel
  <2>1. CASE e.kind = "Skip"
    BY <2>1 DEF RecomputedCertification
  <2>2. CASE e.kind = "ResponseOnly"
    BY <2>2 DEF RecomputedCertification
  <2>3. CASE e.kind = "Full"
    BY <2>3 DEF RecomputedCertification
  <2> QED
    BY <1>2, <2>1, <2>2, <2>3
<1> DEFINE hash == ResponseHash(c.response, c.expression.response, c.bodyHash)
           asked == RequestHash(c.request, c.expression.request)
           computed == ResponseHash(x, c.expression.response, <<>>)
           received == RequestHash(q, c.expression.request)
<1>7. certified = CASE c.expression.kind = "Skip"         -> <<written>>
                    [] c.expression.kind = "ResponseOnly" -> <<written, <<>>, hash>>
                    [] c.expression.kind = "Full"         -> <<written, asked, hash>>
  <2> HIDE DEF hash, asked, written
  <2>1. CASE c.expression.kind = "Skip"
    BY <1>5, <2>1 DEF Certification, SkipCertification
  <2>2. CASE c.expression.kind = "ResponseOnly"
    BY <2>2 DEF Certification, ResponseOnlyCertification, hash, written
  <2>3. CASE c.expression.kind = "Full"
    BY <2>3 DEF Certification, FullCertification, hash, asked, written
  <2> QED
    BY <1>3, <2>1, <2>2, <2>3 DEF IsExpression
<1>8. computed = hash <=> SameResponseFor(c.expression, c.response, x)
  <2> DEFINE r == c.response
  <2>1. /\ IsFiniteSet(DOMAIN r.headers) /\ 0 \notin DOMAIN r.headers
        /\ IsFiniteSet(DOMAIN x.headers) /\ 0 \notin DOMAIN x.headers
    BY <1>3, SeqLemma DEF IsResponse
  <2>2. GivenOr(c.bodyHash, r.body) = r.body
    BY <1>3 DEF GivenOr
  <2> HIDE DEF r
  <2>3. ResponseHash(r, c.expression.response, c.bodyHash) = ResponseHash(x, c.expression.response, <<>>) <=>
          SameResponseFor(c.expression, r, x)
    BY <2>1, <2>2, ResponseHashMeans
  <2> QED
    BY <2>3 DEF r
<1>9. c.expression.kind = "Full" => (received = asked <=> SameRequestFor(c.expression, c.request, q))
  <2> SUFFICES ASSUME c.expression.kind = "Full"
               PROVE  received = asked <=> SameRequestFor(c.expression, c.request, q)
    OBVIOUS
  <2>1. ListedNames(c.expression.request) \cap Reserved = {}
    BY <1>3 DEF IsExpression, ListedNames, Reserved
  <2> QED
    BY <1>3, <2>1, RequestHashMeans
<1>10. cel = written =>
         recomputed = CASE c.expression.kind = "Skip"         -> <<written>>
                        [] c.expression.kind = "ResponseOnly" -> <<written, <<>>, computed>>
                        [] c.expression.kind = "Full"         -> <<written, received, computed>>
  BY <1>4 DEF RecomputedCertification
<1>11. c.expression.kind \in {"Skip", "ResponseOnly", "Full"}
  BY <1>3 DEF IsExpression
<1> HIDE DEF recomputed, written, certified, hash, asked, computed, received
<1>12. certified[1] = written
  BY <1>7, <1>11
<1>13. CASE cel # written
  BY <1>6, <1>12, <1>13 DEF certified, recomputed, written
<1>14. CASE cel = written
  <2>1. recomputed = certified <=> Represents(c, q, x)
    <3>1. CASE c.expression.kind = "Skip"
      BY <1>7, <1>10, <1>14, <3>1 DEF Represents
    <3>2. CASE c.expression.kind = "ResponseOnly"
      BY <1>7, <1>8, <1>10, <1>14, <3>2 DEF Represents
    <3>3. CASE c.expression.kind = "Full"
      BY <1>7, <1>8, <1>9, <1>10, <1>14, <3>3 DEF Represents
    <3> QED
      BY <1>11, <3>1, <3>2, <3>3
  <2> QED
    BY <1>14, <2>1 DEF certified, recomputed, written
<1> QED
  BY <1>13, <1>14

\* What a canister has certified, whether it skips certification or not.
CertifiedAs == IF skips THEN {SkippedCase} ELSE CertifiedCases

\* The certifications in the tree are those of the cases.
LEMMA TreeLemma ==
  CanisterTree.http_expr = {<<Place(c.path), Certification(c)[1]>> : c \in CertifiedAs}
<1>1. CASE skips
  <2>1. CanisterTree.http_expr = {<<SkipPlace, SkipCertification>>}
    BY <1>1 DEF CanisterTree, SkippingTree, SkipCertificationTree
  <2>2. SkippedCase.expression = Skip /\ Place(SkippedCase.path) = SkipPlace
    BY Zenon DEF SkippedCase, SkipPlace
  <2>3. Certification(SkippedCase) = <<SkipCertification>>
    BY <2>2 DEF Certification, Skip
  <2>4. CertifiedAs = {SkippedCase}
    BY <1>1 DEF CertifiedAs
  <2>5. Certification(SkippedCase)[1] = SkipCertification
    BY <2>3
  <2> QED
    BY <2>1, <2>2, <2>4, <2>5
<1>2. CASE ~skips
  BY <1>2 DEF CanisterTree, CertifiedTree, CertifiedAs
<1> QED
  BY <1>1, <1>2

\* The expressions of the cases are read as they were written.
LEMMA ExpressionLemma ==
  \A c \in CertifiedAs : c.expression \in {Skip} \cup {k.expression : k \in Cases} /\ IsExpression(c.expression)
<1>1. SkippedCase.expression = Skip
  BY Zenon DEF SkippedCase
<1>2. \A c \in CertifiedAs : c = SkippedCase \/ c \in Cases
  BY DEF CertifiedAs, CertifiedCases
<1> QED
  BY <1>1, <1>2, MessageAssumption

\* The same for the case of a canister that skips certification.
LEMMA CertifiedAsLemma ==
  ASSUME NEW c \in CertifiedAs, NEW cel, NEW e \in ReadCel(cel),
         NEW q, IsRequest(q), NEW x, IsFiniteSet(DOMAIN x.headers), 0 \notin DOMAIN x.headers
  PROVE  RecomputedCertification(cel, e, q, x) = Certification(c)[1] <=>
           cel = CreateDefaultCelExpr(c.expression) /\ Represents(c, q, x)
<1>1. CASE skips
  <2> DEFINE recomputed == RecomputedCertification(cel, e, q, x)
             written == CreateDefaultCelExpr(Skip)
  <2>1. c = SkippedCase
    BY <1>1 DEF CertifiedAs
  <2>2. c.expression = Skip
    BY <2>1, Zenon DEF SkippedCase
  <2>3. c.expression.kind = "Skip"
    BY <2>2 DEF Skip
  <2>4. Certification(c)[1] = <<written>>
    BY <2>3 DEF Certification, SkipCertification
  <2>5. Represents(c, q, x)
    BY <2>3 DEF Represents
  <2>6. IsExpression(Skip)
    BY MessageAssumption
  <2>7. e.kind \in {"Skip", "ResponseOnly", "Full"}
    BY ReadKinds
  <2>8. cel = written => e = Skip
    BY <2>6 DEF IsExpression
  <2> HIDE DEF written
  <2>9. /\ recomputed[1] = cel
        /\ e.kind = "Skip" => recomputed = <<cel>>
    BY <2>7 DEF RecomputedCertification
  <2>10. recomputed = <<written>> <=> cel = written
    <3> HIDE DEF recomputed
    <3>1. cel = written => recomputed = <<written>>
      BY <2>8, <2>9 DEF Skip
    <3>2. recomputed = <<written>> => cel = written
      BY <2>9
    <3> QED
      BY <3>1, <3>2
  <2> QED
    BY <2>2, <2>4, <2>5, <2>10 DEF written
<1>2. CASE ~skips
  <2>1. c \in Cases /\ Certification(c) # <<>>
    BY <1>2 DEF CertifiedAs, CertifiedCases
  <2> QED
    BY <2>1, RepresentsLemma
<1> QED
  BY <1>1, <1>2

-----------------------------------------------------------------------------
(***************************************************************************)
(* What is accepted.                                                       *)
(***************************************************************************)
\* The certificate that counts is the one of the builder, or there is none that decodes.
LEMMA CertificateThatCounts ==
  ASSUME NEW r, NEW c, NEW served, OnItsWay(r, c, served)
  PROVE  LET fields == LastHeader(r, "ic-certificate")
         IN  \/ Brings(fields, c, served)
             \/ fields = None
             \/ CertificateHeaderFrom(fields) # "Ok" /\ FirstField(fields, "certificate") \in {None, Garbled}
<1> DEFINE fields == LastHeader(r, "ic-certificate")
           S == {h \in ToSet(r.headers) : Carries(h, c, served)}
<1>1. r.headers \in Seq(S)
  BY DEF OnItsWay
<1>2. fields = None \/ \E i \in DOMAIN r.headers : LowerCase(r.headers[i][1]) = "ic-certificate" /\ fields = r.headers[i][2]
  BY <1>1, LastHeaderLemma
<1>3. \A i \in DOMAIN r.headers : Carries(r.headers[i], c, served)
  BY <1>1
<1>4. fields = None \/ FirstField(fields, "certificate") \in {None, Garbled} \/ Brings(fields, c, served)
  BY <1>2, <1>3 DEF Carries
<1> HIDE DEF fields
<1>5. FirstField(fields, "certificate") \in {None, Garbled} => CertificateHeaderFrom(fields) # "Ok"
  BY DEF CertificateHeaderFrom, FieldNames
<1> QED
  BY <1>4, <1>5 DEF fields

\* What was put into a builder is what comes out of it.
LEMMA RebuiltRequestLemma ==
  ASSUME NEW method, NEW url, NEW headers, NEW body
  PROVE  LET q == BuildRequest(WithBody(WithHeaders(WithUrl(WithMethod(NewRequest, method), url), headers), body))
         IN  q.method = method /\ q.url = url /\ q.headers = headers /\ q.body = body
<1> DEFINE q0 == NewRequest
           q1 == WithMethod(q0, method)
           q2 == WithUrl(q1, url)
           q3 == WithHeaders(q2, headers)
           q4 == WithBody(q3, body)
<1>1. PICK empty : q0 = [method |-> <<>>, url |-> <<>>, headers |-> <<>>, body |-> empty, certificate_version |-> <<>>]
  BY Zenon DEF NewRequest
<1> HIDE DEF q0
<1>2. q1 = [method |-> <<method>>, url |-> <<>>, headers |-> <<>>, body |-> empty, certificate_version |-> <<>>]
  BY <1>1 DEF WithMethod
<1> HIDE <1>1
<1> HIDE DEF q1
<1>3. q2 = [method |-> <<method>>, url |-> <<url>>, headers |-> <<>>, body |-> empty, certificate_version |-> <<>>]
  BY <1>2 DEF WithUrl
<1> HIDE DEF q2
<1>4. q3 = [method |-> <<method>>, url |-> <<url>>, headers |-> headers, body |-> empty, certificate_version |-> <<>>]
  BY <1>3 DEF WithHeaders
<1> HIDE DEF q3
<1>5. q4 = [method |-> <<method>>, url |-> <<url>>, headers |-> headers, body |-> body, certificate_version |-> <<>>]
  BY <1>4 DEF WithBody
<1> HIDE DEF q4
<1>6. BuildRequest(q4).method = method /\ BuildRequest(q4).url = url
  BY <1>5 DEF BuildRequest, GivenOr
<1>7. BuildRequest(q4).headers = headers /\ BuildRequest(q4).body = body
  BY <1>5 DEF BuildRequest
<1> QED
  BY <1>6, <1>7 DEF q0, q1, q2, q3, q4

\* The request that the bindings make of what a client passes is the same.
LEMMA RequestIsKept ==
  ASSUME NEW q
  PROVE  LET x == RequestFromJs(q)
         IN  /\ GetPath(x) = GetPath(q)
             /\ IsRequest(q) => IsRequest(x)
             /\ \A e, a : SameRequestFor(e, a, x) <=> SameRequestFor(e, a, q)
<1> DEFINE x == RequestFromJs(q)
<1>1. x.method = q.method /\ x.url = q.url /\ x.headers = q.headers /\ x.body = q.body
  BY RebuiltRequestLemma DEF RequestFromJs
<1> HIDE DEF x
<1>2. GetPath(x) = GetPath(q)
  BY <1>1 DEF GetPath
<1>3. IsRequest(q) => IsRequest(x)
  BY <1>1, <1>2 DEF IsRequest
<1>4. \A e : CountedQuery(e, x) = CountedQuery(e, q)
  BY <1>1 DEF CountedQuery
<1>5. \A e, a : SameRequestFor(e, a, x) <=> SameRequestFor(e, a, q)
  BY <1>1, <1>4 DEF SameRequestFor, CountedQuery
<1> QED
  BY <1>2, <1>3, <1>5 DEF x

\* The data that the certificate of the canister certifies is the root hash of its tree.
LEMMA CertifiedDataLemma ==
  ASSUME MarkersApart, ICanister, builder.custom_tree = None, NEW tree
  PROVE  ValidateTree(Canister, Certificate, tree) = "Ok" <=> tree = CertifiedRoot
<1>1. Certificate.tree = MixedHashTree(ContentsOf(builder))
  BY BuildLemma DEF Certificate
<1>2. builder.canister.canister_id = Canister /\ builder.canister.certified_data = CertifiedRoot
  BY DEF ICanister
<1>3. CertifiedDataPath(Canister) # TimePath
  BY DEF CertifiedDataPath, TimePath, Path
<1>4. LookupPath(Certificate.tree, CertifiedDataPath(Canister)) = CertifiedRoot
  BY <1>1, <1>2, <1>3 DEF ContentsOf, CreateCertificateTree, MixedHashTree, LookupPath
<1>5. CertifiedRoot # None
  BY DEF CertifiedRoot, RootHash, MarkersApart
<1> QED
  BY <1>4, <1>5 DEF ValidateTree

\* The certificate is to be trusted if it passes and certifies the tree of the canister.
LEMMA TrustedLemma ==
  ASSUME MarkersApart, IInv
  PROVE  Trusted <=> /\ Verify(Certificate, Canister, Root, Now, Offset) = "Ok"
                     /\ ValidateTree(Canister, Certificate, CertifiedRoot) = "Ok"
<1>1. CASE builder.custom_tree = None
  <2>1. Verify(Certificate, Canister, Root, Now, Offset) = "Ok" <=> Trusted
    BY <1>1, TrustedPasses DEF IInv
  <2>2. ValidateTree(Canister, Certificate, CertifiedRoot) = "Ok"
    BY <1>1, CertifiedDataLemma DEF IInv
  <2> QED
    BY <2>1, <2>2
<1>2. CASE builder.custom_tree # None
  <2>1. builder.custom_tree \in CustomTrees
    BY <1>2 DEF IInv, IBuilder
  <2>2. Certificate.tree = MixedHashTree(builder.custom_tree)
    BY <1>2, BuildLemma DEF Certificate, ContentsOf
  <2>3. LookupPath(Certificate.tree, CertifiedDataPath(Canister)) = None
    BY <2>1, <2>2, BuilderAssumption DEF LookupPath, MixedHashTree
  <2>4. ValidateTree(Canister, Certificate, CertifiedRoot) # "Ok"
    BY <2>3 DEF ValidateTree
  <2> QED
    BY <1>2, <2>4 DEF Trusted
<1> QED
  BY <1>1, <1>2

\* The code that a client is given stands for the verdict on the request and response
\* that were made from what it passed.
LEMMA VerdictLemma ==
  ASSUME NEW r, NEW x, x = [status_code |-> r.status_code, headers |-> r.headers, body |-> r.body, upgrade |-> <<>>]
  PROVE  Verdict(r).code =
           IF IsStatusCode(r.status_code)
           THEN JsErrorCode(VerifyExchange(RequestFromJs(request), x, Canister, Root, Now, Offset, MinVerificationVersion))
           ELSE "panic"
<1> DEFINE w == VerifyExchange(RequestFromJs(request), x, Canister, Root, Now, Offset, MinVerificationVersion)
<1>1. ResponseFromJs(r) = IF IsStatusCode(r.status_code) THEN <<x>> ELSE <<>>
  BY BuildResponseLemma DEF ResponseFromJs
<1>2. CASE IsStatusCode(r.status_code)
  <2>1. ResponseFromJs(r) # <<>> /\ ResponseFromJs(r)[1] = x
    BY <1>1, <1>2
  <2>2. Verdict(r) = [code |-> JsErrorCode(w), info |-> Verdict(r).info]
    BY <2>1 DEF Verdict, VerifyRequestResponsePairJs
  <2> HIDE DEF w
  <2>3. Verdict(r).code = JsErrorCode(w)
    BY <2>2
  <2> QED
    BY <1>2, <2>3 DEF w
<1>3. CASE ~IsStatusCode(r.status_code)
  BY <1>1, <1>3 DEF Verdict, VerifyRequestResponsePairJs
<1> QED
  BY <1>2, <1>3

\* What it takes to pass version 2.
Version2Passes(path, fields, cel, c, tree, place, recomputed, key, now, offset) ==
  /\ CertificateHeaderFrom(fields) = "Ok" /\ cel # None /\ place # None /\ ReadCel(cel) # {} /\ path # <<>>
  /\ Verify(c, Canister, key, now, offset) = "Ok" /\ ValidateTree(Canister, c, RootHash(tree)) = "Ok"
  /\ Answers(place, path[1]) /\ ~Outdone({pc[1] : pc \in tree.http_expr}, place, path[1])
  /\ <<place, recomputed>> \in tree.http_expr

\* verify_request_response_pair passes a response of version 2 if nothing refuses it.
LEMMA Version2Accepts ==
  ASSUME NEW q, NEW x, NEW key, NEW now, NEW offset,
         NEW fields, fields = LastHeader(x, "ic-certificate"), fields # None, Version(fields) = 2,
         NEW cel, cel = LastHeader(x, "ic-certificateexpression"),
         NEW tree, tree = FirstField(fields, "tree"),
         NEW place, place = FirstField(fields, "expr_path"),
         NEW c, c = FirstField(fields, "certificate"),
         NEW path, path = GetPath(q),
         NEW read, read = CHOOSE e \in ReadCel(cel) : TRUE
  PROVE  VerifyExchange(q, x, Canister, key, now, offset, MinVerificationVersion) = "Ok" <=>
           Version2Passes(path, fields, cel, c, tree, place, RecomputedCertification(cel, read, q, x), key, now, offset)
<1> DEFINE w == VerifyExchange(q, x, Canister, key, now, offset, MinVerificationVersion)
           v == Verify(c, Canister, key, now, offset)
           t == ValidateTree(Canister, c, RootHash(tree))
           certified == tree.http_expr
           recomputed == RecomputedCertification(cel, read, q, x)
           places == {pc[1] : pc \in certified}
           checked == V2Verification(path[1], recomputed, c, RootHash(tree), certified, place, Canister, key, now, offset)
           v2 == IF ReadCel(cel) = {} THEN "CelError" ELSE IF path = <<>> THEN "MalformedUrl" ELSE checked
           v1 == V1Verification(BodyOutcome(q, x, tree), c, RootHash(tree), Canister, key, now, offset)
           from == CertificateHeaderFrom(fields)
<1>1. w = VerifyVersion(fields, cel, MinVerificationVersion, v1, v2)
  BY DEF VerifyExchange
<1>2. <<place, recomputed>> \in certified => place \in places
  OBVIOUS
<1>3. checked = "Ok" <=> /\ v = "Ok" /\ t = "Ok"
                         /\ Answers(place, path[1]) /\ ~Outdone(places, place, path[1])
                         /\ <<place, recomputed>> \in certified
  <2> HIDE DEF v, t, certified
  <2> QED
    BY <1>2 DEF V2Verification, v, t
<1> HIDE DEF w, v, t, certified, places, checked, v1, from
<1>4. v2 = "Ok" <=> ReadCel(cel) # {} /\ path # <<>> /\ checked = "Ok"
  OBVIOUS
<1> HIDE DEF v2
<1>5. w = "Ok" <=> from = "Ok" /\ cel # None /\ place # None /\ v2 = "Ok"
  BY <1>1 DEF VerifyVersion, MinVerificationVersion, from
<1> QED
  BY <1>3, <1>4, <1>5 DEF w, v, t, certified, places, from, Version2Passes

\* No error has the code "Ok".
LEMMA OkLemma ==
  ASSUME NEW w, NEW v, v \in CertificateErrors \cup {"Ok"}, w = v \/ w \in Refusals
  PROVE  JsErrorCode(w) = "Ok" <=> w = "Ok"
<1>1. /\ \A e \in CertificateErrors : JsErrorCode(e) = "CertificateVerificationFailed"
      /\ \A e \in ResponseVerificationErrors :
           JsErrorCode(e) \in (ResponseVerificationErrors \cup {"HeaderMissingCertificateExpression"})
      /\ JsErrorCode("MalformedUrl") = "HttpCertificationError" /\ JsErrorCode("Ok") = "Ok"
  BY CodeLemma
<1>2. "Ok" \notin ResponseVerificationErrors /\ "Ok" \notin CertificateErrors
  BY DEF ResponseVerificationErrors, CertificateErrors
<1> QED
  BY <1>1, <1>2 DEF Refusals

\* verify_request_response_pair passes a response of version 1 if nothing refuses it.
LEMMA Version1Accepts ==
  ASSUME NEW q, NEW x, NEW key, NEW now, NEW offset,
         NEW fields, fields = LastHeader(x, "ic-certificate"), fields # None, Version(fields) = 1,
         NEW tree, tree = FirstField(fields, "tree"),
         NEW c, c = FirstField(fields, "certificate")
  PROVE  VerifyExchange(q, x, Canister, key, now, offset, MinVerificationVersion) = "Ok" <=>
           /\ CertificateHeaderFrom(fields) = "Ok" /\ Verify(c, Canister, key, now, offset) = "Ok"
           /\ ValidateTree(Canister, c, RootHash(tree)) = "Ok" /\ BodyOutcome(q, x, tree) = "Ok"
<1> DEFINE w == VerifyExchange(q, x, Canister, key, now, offset, MinVerificationVersion)
           cel == LastHeader(x, "ic-certificateexpression")
           path == GetPath(q)
           read == ReadCel(cel)
           v == Verify(c, Canister, key, now, offset)
           t == ValidateTree(Canister, c, RootHash(tree))
           body == BodyOutcome(q, x, tree)
           v1 == V1Verification(body, c, RootHash(tree), Canister, key, now, offset)
           v2 == IF read = {} THEN "CelError" ELSE IF path = <<>> THEN "MalformedUrl"
                 ELSE V2Verification(path[1], RecomputedCertification(cel, CHOOSE e \in read : TRUE, q, x),
                                     c, RootHash(tree), tree.http_expr, FirstField(fields, "expr_path"),
                                     Canister, key, now, offset)
           from == CertificateHeaderFrom(fields)
<1>1. w = VerifyVersion(fields, cel, MinVerificationVersion, v1, v2)
  BY DEF VerifyExchange
<1>2. v1 = IF v # "Ok" THEN v ELSE IF body \in {"MalformedUrl", "IoError"} THEN body ELSE IF t # "Ok" THEN t ELSE body
  BY DEF V1Verification
<1> HIDE DEF w, v, t, v1, v2, body, from
<1>3. w = IF from # "Ok" THEN from ELSE v1
  BY <1>1 DEF VerifyVersion, MinVerificationVersion, from
<1>4. w = "Ok" <=> from = "Ok" /\ v = "Ok" /\ t = "Ok" /\ body = "Ok"
  BY <1>2, <1>3
<1> QED
  BY <1>4 DEF w, v, t, body, from

\* The body that came, or what it decodes to, is shown for the path or for the index.
LEMMA BodyLemma ==
  ASSUME NEW q, NEW x, NEW tree, NEW path, path = GetPath(q),
         NEW encoding, encoding = LastHeader(x, "content-encoding"),
         NEW decoded, decoded = DecodeBody(x.body, encoding)
  PROVE  BodyOutcome(q, x, tree) = "Ok" <=>
           /\ path # <<>> /\ decoded # {}
           /\ \E body \in decoded \cup (IF encoding = None THEN {} ELSE {x.body}) :
                ValidateBody(tree.http_assets, path[1], body)
<1> DEFINE Shown == \E body \in decoded \cup (IF encoding = None THEN {} ELSE {x.body}) :
                      ValidateBody(tree.http_assets, path[1], body)
<1>1. BodyOutcome(q, x, tree) =
        IF path = <<>> THEN "MalformedUrl" ELSE IF decoded = {} THEN "IoError"
        ELSE IF Shown THEN "Ok" ELSE "InvalidResponseBody"
  BY DEF BodyOutcome
<1> HIDE DEF Shown
<1>2. BodyOutcome(q, x, tree) = "Ok" <=> path # <<>> /\ decoded # {} /\ Shown
  BY <1>1
<1> QED
  BY <1>2 DEF Shown

\* A response is accepted if what was made of it passes.
LEMMA PassesLemma ==
  ASSUME NEW r, NEW x, x = [status_code |-> r.status_code, headers |-> r.headers, body |-> r.body, upgrade |-> <<>>]
  PROVE  Accepted(r) <=>
           /\ IsStatusCode(r.status_code)
           /\ VerifyExchange(RequestFromJs(request), x, Canister, Root, Now, Offset, MinVerificationVersion) = "Ok"
<1> DEFINE q == RequestFromJs(request)
           v == Verify(FirstField(LastHeader(x, "ic-certificate"), "certificate"), Canister, Root, Now, Offset)
           w == VerifyExchange(q, x, Canister, Root, Now, Offset, MinVerificationVersion)
<1>1. Verdict(r).code = IF IsStatusCode(r.status_code) THEN JsErrorCode(w) ELSE "panic"
  BY VerdictLemma
<1>2. v \in CertificateErrors \cup {"Ok"}
  BY VerifyAnswers
<1>3. w = v \/ w \in Refusals
  <2> HIDE DEF q
  <2> QED
    BY ExchangeAnswers
<1> HIDE DEF w, v
<1>4. JsErrorCode(w) = "Ok" <=> w = "Ok"
  BY <1>2, <1>3, OkLemma
<1> QED
  BY <1>1, <1>4 DEF Accepted, w

\* Whatever passes is of version 1 or 2.
LEMMA VersionLemma ==
  ASSUME NEW q, NEW x, NEW key, NEW now, NEW offset,
         VerifyExchange(q, x, Canister, key, now, offset, MinVerificationVersion) = "Ok"
  PROVE  LET fields == LastHeader(x, "ic-certificate")
         IN  fields # None /\ CertificateHeaderFrom(fields) = "Ok" /\ Version(fields) \in {1, 2}
<1>1. PICK fields, cel, v1, v2 :
        fields = LastHeader(x, "ic-certificate") /\ "Ok" = VerifyVersion(fields, cel, MinVerificationVersion, v1, v2)
  BY DEF VerifyExchange
<1>2. fields # None /\ CertificateHeaderFrom(fields) = "Ok" /\ Version(fields) \in {1, 2}
  BY <1>1 DEF VerifyVersion
<1> QED
  BY <1>1, <1>2

\* Under the invariant a response of version 2 is accepted just if it stands for a case.
LEMMA AcceptedLemma ==
  ASSUME MarkersApart, IInv
  PROVE  AcceptedExactly
<1> SUFFICES ASSUME NEW r \in ToSet(response), Claims(r, 2)
             PROVE  Accepted(r) <=> /\ FirstField(LastHeader(r, "ic-certificate"), "certificate") = Certificate
                                    /\ Trusted
                                    /\ IsStatusCode(r.status_code)
                                    /\ LastHeader(r, "ic-certificateexpression") # None
                                    /\ Represented(r) # {}
  BY DEF AcceptedExactly
<1> DEFINE q == RequestFromJs(request)
           x == [status_code |-> r.status_code, headers |-> r.headers, body |-> r.body, upgrade |-> <<>>]
           fields == LastHeader(x, "ic-certificate")
           cel == LastHeader(x, "ic-certificateexpression")
           tree == FirstField(fields, "tree")
           place == FirstField(fields, "expr_path")
           cert == FirstField(fields, "certificate")
           path == GetPath(q)
           read == CHOOSE e \in ReadCel(cel) : TRUE
           recomputed == RecomputedCertification(cel, read, q, x)
           v == Verify(cert, Canister, Root, Now, Offset)
           w == VerifyExchange(q, x, Canister, Root, Now, Offset, MinVerificationVersion)
           Passes == Version2Passes(path, fields, cel, cert, tree, place, recomputed, Root, Now, Offset)
           Stands(c) ==
             /\ WellFormed /\ cel = CreateDefaultCelExpr(c.expression) /\ place = Place(c.path)
             /\ Answers(Place(c.path), PathOf) /\ ~Outdone(Places, Place(c.path), PathOf)
             /\ Represents(c, request, r)
<1>1. OnItsWay(r, Certificate, Served)
  BY DEF IInv, IResponse, ToSet
<1>2. \A n : LastHeader(x, n) = LastHeader(r, n)
  BY DEF LastHeader
<1>3. fields # None /\ Version(fields) = 2
  BY <1>2 DEF Claims
<1>4. Accepted(r) <=> IsStatusCode(r.status_code) /\ w = "Ok"
  BY PassesLemma
<1>5. w = "Ok" <=> Passes
  <2> HIDE DEF q, x
  <2> QED
    BY <1>3, Version2Accepts
<1>6. IsRequest(q) /\ path = GetPath(request) /\ \A e, a : SameRequestFor(e, a, q) <=> SameRequestFor(e, a, request)
  BY RequestIsKept, MessageAssumption DEF IInv
<1>7. /\ path # <<>> <=> WellFormed
      /\ path # <<>> => path[1] = PathOf
  BY <1>6 DEF GetPath, WellFormed, PathOf
<1>8. \A c : Represents(c, q, x) <=> Represents(c, request, r)
  <2>1. x.status_code = r.status_code /\ x.headers = r.headers /\ x.body = r.body
    OBVIOUS
  <2> HIDE DEF q, x
  <2>2. \A e, a : SameResponseFor(e, a, x) <=> SameResponseFor(e, a, r)
    BY <2>1 DEF SameResponseFor
  <2> QED
    BY <1>6, <2>2 DEF Represents
<1>9. IsFiniteSet(DOMAIN x.headers) /\ 0 \notin DOMAIN x.headers
  BY <1>1, SeqLemma DEF OnItsWay
<1>10. ASSUME NEW c \in CertifiedAs, ReadCel(cel) # {}
       PROVE  recomputed = Certification(c)[1] <=>
                cel = CreateDefaultCelExpr(c.expression) /\ Represents(c, request, r)
  <2>1. read \in ReadCel(cel)
    BY <1>10
  <2> HIDE DEF q, x, cel, read
  <2> QED
    BY <1>6, <1>8, <1>9, <2>1, CertifiedAsLemma
<1>11. \A c \in CertifiedAs : c.expression \in {Skip} \cup {k.expression : k \in Cases} /\ IsExpression(c.expression)
  BY ExpressionLemma
<1>12. Represented(r) # {} <=> \E c \in CertifiedAs : Stands(c)
  BY <1>2 DEF Represented, CertifiedAs
<1>13. CanisterTree.http_expr = {<<Place(c.path), Certification(c)[1]>> : c \in CertifiedAs}
  BY TreeLemma
<1>14. \/ /\ cert = Certificate /\ CertificateHeaderFrom(fields) = "Ok"
          /\ tree.http_expr = CanisterTree.http_expr /\ RootHash(tree) = CertifiedRoot
       \/ cert # Certificate /\ CertificateHeaderFrom(fields) # "Ok"
  <2>1. \/ Brings(fields, Certificate, Served)
        \/ fields = None
        \/ CertificateHeaderFrom(fields) # "Ok" /\ cert \in {None, Garbled}
    BY <1>1, <1>2, CertificateThatCounts
  <2>2. Certificate # None /\ Certificate # Garbled
    BY MadeLemma
  <2> HIDE DEF fields, tree
  <2>3. RootHash(tree) = CertifiedRoot => tree.http_expr = CanisterTree.http_expr
    BY DEF RootHash, CertifiedRoot
  <2> QED
    BY <1>3, <2>1, <2>2, <2>3 DEF Brings, Served, tree
<1>15. cert = Certificate => (Trusted <=> v = "Ok" /\ ValidateTree(Canister, cert, CertifiedRoot) = "Ok")
  BY TrustedLemma
<1>16. Places = {pc[1] : pc \in CanisterTree.http_expr}
  BY DEF Places
<1>17. \A c \in CertifiedAs : cel = CreateDefaultCelExpr(c.expression) => cel # None /\ ReadCel(cel) # {}
  <2> HIDE DEF cel
  <2> QED
    BY <1>11 DEF IsExpression, MarkersApart
<1>18. \A c : place = Place(c.path) => place # None
  <2> HIDE DEF place
  <2> QED
    BY DEF Place, MarkersApart
<1> HIDE DEF q, x, fields, cel, tree, place, cert, path, recomputed, v, w, Stands
<1>19. Passes => cert = Certificate /\ Trusted /\ cel # None /\ \E c \in CertifiedAs : Stands(c)
  <2> SUFFICES ASSUME Passes
               PROVE  cert = Certificate /\ Trusted /\ cel # None /\ \E c \in CertifiedAs : Stands(c)
    OBVIOUS
  <2>0. /\ CertificateHeaderFrom(fields) = "Ok" /\ cel # None /\ ReadCel(cel) # {} /\ path # <<>>
        /\ v = "Ok" /\ ValidateTree(Canister, cert, RootHash(tree)) = "Ok"
        /\ Answers(place, path[1]) /\ ~Outdone({pc[1] : pc \in tree.http_expr}, place, path[1])
        /\ <<place, recomputed>> \in tree.http_expr
    BY DEF Version2Passes, v
  <2>1. cert = Certificate /\ tree.http_expr = CanisterTree.http_expr /\ RootHash(tree) = CertifiedRoot
    BY <1>14, <2>0
  <2>2. Trusted
    BY <1>15, <2>0, <2>1
  <2>3. <<place, recomputed>> \in CanisterTree.http_expr
    BY <2>0, <2>1
  <2>4. PICK c \in CertifiedAs : place = Place(c.path) /\ recomputed = Certification(c)[1]
    BY <1>13, <2>3
  <2>5. cel = CreateDefaultCelExpr(c.expression) /\ Represents(c, request, r)
    BY <1>10, <2>0, <2>4
  <2>6. Answers(place, PathOf) /\ ~Outdone(Places, place, PathOf) /\ WellFormed
    BY <1>7, <1>16, <2>0, <2>1
  <2>7. Stands(c)
    BY <2>4, <2>5, <2>6 DEF Stands
  <2> QED
    BY <2>0, <2>1, <2>2, <2>7
<1>20. ASSUME cert = Certificate, Trusted, cel # None, NEW c \in CertifiedAs, Stands(c)
       PROVE  Passes
  <2>1. CertificateHeaderFrom(fields) = "Ok" /\ tree.http_expr = CanisterTree.http_expr /\ RootHash(tree) = CertifiedRoot
    BY <1>14, <1>20
  <2>2. v = "Ok" /\ ValidateTree(Canister, cert, RootHash(tree)) = "Ok"
    BY <1>15, <1>20, <2>1
  <2>3. /\ WellFormed /\ cel = CreateDefaultCelExpr(c.expression) /\ place = Place(c.path)
        /\ Answers(place, PathOf) /\ ~Outdone(Places, place, PathOf)
        /\ Represents(c, request, r)
    BY <1>20 DEF Stands
  <2>4. ReadCel(cel) # {} /\ place # None /\ path # <<>> /\ path[1] = PathOf
    BY <1>7, <1>17, <1>18, <1>20, <2>3
  <2>5. recomputed = Certification(c)[1]
    BY <1>10, <2>3, <2>4
  <2>6. <<place, recomputed>> \in tree.http_expr
    BY <1>13, <1>20, <2>1, <2>3, <2>5
  <2> QED
    BY <1>16, <1>20, <2>1, <2>2, <2>3, <2>4, <2>6 DEF Passes, Version2Passes, v
<1>21. fields = LastHeader(r, "ic-certificate") /\ cel = LastHeader(r, "ic-certificateexpression")
  BY <1>2 DEF fields, cel
<1> HIDE DEF Passes
<1> QED
  BY <1>4, <1>5, <1>12, <1>19, <1>20, <1>21 DEF cert

-----------------------------------------------------------------------------
(***************************************************************************)
(* What is handed on.                                                      *)
(***************************************************************************)
\* Which places of a function the values of InOrder come from.
IsOrder(f, at) ==
  /\ at \in [1 .. Cardinality(DOMAIN f) -> DOMAIN f]
  /\ \A k, l \in 1 .. Cardinality(DOMAIN f) : at[k] = at[l] => k = l
  /\ \A i \in DOMAIN f : \E k \in 1 .. Cardinality(DOMAIN f) : at[k] = i
  /\ \A k \in 1 .. Cardinality(DOMAIN f) : InOrder(f)[k] = f[at[k]]

\* In their order there are all the values of a function on places, each once.
LEMMA OrderLemma ==
  ASSUME NEW f, IsFiniteSet(DOMAIN f), DOMAIN f \subseteq Nat
  PROVE  \E at : IsOrder(f, at)
<1> DEFINE D == DOMAIN f
           n == Cardinality(D)
           Below(i) == {j \in D : j <= i}
           rank == [i \in D |-> Cardinality(Below(i))]
           at == [k \in 1 .. n |-> CHOOSE i \in D : Cardinality(Below(i)) = k]
<1>1. n \in Nat /\ IsFiniteSet(1 .. n) /\ Cardinality(1 .. n) = n
  <2>1. n \in Nat
    BY FS_CardinalityType
  <2> HIDE DEF n
  <2> QED
    BY <2>1, FS_Interval
<1>2. ASSUME NEW i \in D
      PROVE  IsFiniteSet(Below(i)) /\ Cardinality(Below(i)) \in 1 .. n
  <2>1. Below(i) \in SUBSET D /\ i \in Below(i)
    OBVIOUS
  <2> HIDE DEF Below
  <2>2. IsFiniteSet(Below(i)) /\ Cardinality(Below(i)) <= n
    BY <2>1, FS_Subset
  <2>3. Cardinality(Below(i)) \in Nat /\ Cardinality(Below(i)) # 0
    BY <2>1, <2>2, FS_CardinalityType, FS_EmptySet
  <2> HIDE DEF n
  <2> QED
    BY <1>1, <2>2, <2>3
<1>3. ASSUME NEW i \in D, NEW j \in D, i < j
      PROVE  Cardinality(Below(i)) # Cardinality(Below(j))
  <2>1. Below(i) \in SUBSET Below(j) /\ j \in Below(j) /\ j \notin Below(i)
    BY <1>3
  <2>2. IsFiniteSet(Below(j))
    BY <1>2
  <2> HIDE DEF Below
  <2> QED
    BY <2>1, <2>2, FS_Subset
<1>4. \A i, j \in D : rank[i] = rank[j] => i = j
  <2> SUFFICES ASSUME NEW i \in D, NEW j \in D, rank[i] = rank[j] PROVE i = j
    OBVIOUS
  <2>1. i \in Nat /\ j \in Nat
    OBVIOUS
  <2>2. Cardinality(Below(i)) = Cardinality(Below(j))
    OBVIOUS
  <2> HIDE DEF Below, rank
  <2> QED
    BY <1>3, <2>1, <2>2
<1>5. rank \in [D -> 1 .. n]
  <2> HIDE DEF Below, n
  <2> QED
    BY <1>2
<1>6. \A k \in 1 .. n : \E i \in D : rank[i] = k
  <2>1. rank \in Injection(D, 1 .. n)
    <3> HIDE DEF rank, n
    <3> QED
      BY <1>4, <1>5 DEF Injection, IsInjective
  <2> HIDE DEF rank, n
  <2>2. rank \in Surjection(D, 1 .. n)
    BY <1>1, <2>1, FS_Injection DEF n
  <2> QED
    BY <2>2 DEF Surjection
<1>7. \A i \in D : rank[i] = Cardinality(Below(i))
  OBVIOUS
<1>8. \A k \in 1 .. n : at[k] = CHOOSE i \in D : Cardinality(Below(i)) = k
  OBVIOUS
<1>9. \A k \in 1 .. n : InOrder(f)[k] = f[at[k]]
  BY DEF InOrder
<1> HIDE DEF Below, rank, n
<1>10. \A k \in 1 .. n : at[k] \in D /\ rank[at[k]] = k
  BY <1>6, <1>7, <1>8
<1>11. at \in [1 .. n -> D]
  <2>1. at = [k \in 1 .. n |-> at[k]]
    OBVIOUS
  <2> HIDE DEF at
  <2> QED
    BY <1>10, <2>1
<1> HIDE DEF at
<1>12. \A k, l \in 1 .. n : at[k] = at[l] => k = l
  BY <1>10
<1>13. \A i \in D : \E k \in 1 .. n : at[k] = i
  <2> TAKE i \in D
  <2>1. rank[i] \in 1 .. n /\ rank[at[rank[i]]] = rank[i] /\ at[rank[i]] \in D
    BY <1>5, <1>10
  <2>2. at[rank[i]] = i
    BY <1>4, <2>1
  <2> QED
    BY <2>1, <2>2
<1>14. IsOrder(f, at)
  BY <1>9, <1>11, <1>12, <1>13 DEF IsOrder, n
<1> QED
  BY <1>14

\* Lower case is as low as it gets.
LoweredOnce == \A name : LowerCase(LowerCase(name)) = LowerCase(name)

\* The headers that are handed on of a response.
HandedOn(x, certification, certificate) ==
  Append(InOrder(FilterResponseHeaders(x, certification).headers), <<CertificateHeaderName, certificate>>)

\* What is handed on are the headers that count, each as often as it came, and the
\* certificate.
IsHandedOn(out, certification, headers) ==
  /\ IsFiniteSet(DOMAIN out)
  /\ \A n, w : CountsFor(certification, n) =>
                Cardinality(With(out, n, w)) = Cardinality(With(headers, n, w))
  /\ NamesIn(out) \ {"ic-certificate"} = {n \in NamesIn(headers) : CountsFor(certification, n)}

LEMMA HandedOnLemma ==
  ASSUME LoweredOnce, NEW x, IsFiniteSet(DOMAIN x.headers), DOMAIN x.headers \subseteq Nat,
         NEW certification, NEW certificate
  PROVE  IsHandedOn(HandedOn(x, certification, certificate), certification, x.headers)
<1> DEFINE h == x.headers
           K == {i \in DOMAIN h : CountsFor(certification, LowerCase(h[i][1]))}
           f == FilterResponseHeaders(x, certification).headers
           m == Cardinality(DOMAIN f)
           last == <<CertificateHeaderName, certificate>>
           out == HandedOn(x, certification, certificate)
<1>1. DOMAIN f = K /\ \A i \in K : f[i] = <<LowerCase(h[i][1]), h[i][2]>>
  <2>1. f = Restrict(Lowered(h), K)
    BY FilterLemma
  <2> HIDE DEF f
  <2> QED
    BY <2>1 DEF Restrict, Lowered
<1>2. IsFiniteSet(K) /\ K \subseteq DOMAIN h /\ K \subseteq Nat
  BY FS_Subset
<1>3. m \in Nat
  BY <1>1, <1>2, FS_CardinalityType
<1> HIDE DEF f
<1>4. PICK at : IsOrder(f, at)
  BY <1>1, <1>2, OrderLemma
<1>5. /\ at \in [1 .. m -> K]
      /\ \A k, l \in 1 .. m : at[k] = at[l] => k = l
      /\ \A i \in K : \E k \in 1 .. m : at[k] = i
      /\ \A k \in 1 .. m : InOrder(f)[k] = f[at[k]]
  BY <1>1, <1>4 DEF IsOrder
<1> DEFINE s == InOrder(f)
<1>6. s = [k \in 1 .. m |-> s[k]]
  BY DEF InOrder
<1> HIDE DEF K, m, s, h
<1>7. /\ DOMAIN out = 1 .. m + 1 /\ out[m + 1] = last
      /\ \A k \in 1 .. m : out[k] = s[k]
  <2> DEFINE S == {s[k] : k \in 1 .. m} \cup {last}
  <2>1. s \in [1 .. m -> S]
    BY <1>6
  <2>2. last \in S
    OBVIOUS
  <2>3. out = Append(s, last)
    BY DEF HandedOn, f, s
  <2> HIDE DEF S, last, out
  <2>4. s \in Seq(S)
    BY <1>3, <2>1, SeqDef
  <2>5. Len(s) = m
    BY <1>3, <1>6, <2>4
  <2> QED
    BY <1>3, <2>2, <2>3, <2>4, <2>5
<1> HIDE DEF out
<1>8. /\ \A k \in 1 .. m : out[k] = <<LowerCase(h[at[k]][1]), h[at[k]][2]>> /\ at[k] \in K
      /\ LowerCase(out[m + 1][1]) = "ic-certificate"
  BY <1>1, <1>5, <1>7, NameAssumption DEF s
<1>9. \A k \in 1 .. m : LowerCase(out[k][1]) = LowerCase(h[at[k]][1]) /\ out[k][2] = h[at[k]][2]
  BY <1>8 DEF LoweredOnce
<1>10. IsFiniteSet(DOMAIN out)
  <2>1. m + 1 \in Nat
    BY <1>3
  <2>2. IsFiniteSet(1 .. m + 1)
    BY <2>1, FS_Interval
  <2> QED
    BY <1>7, <2>2
<1>11. ASSUME NEW n, NEW w, CountsFor(certification, n)
       PROVE  Cardinality(With(out, n, w)) = Cardinality(With(h, n, w))
  <2> DEFINE A == With(out, n, w)
             B == With(h, n, w)
             g == [k \in A |-> at[k]]
  <2>1. n # "ic-certificate"
    BY <1>11 DEF CountsFor
  <2>2. A = {k \in 1 .. m : LowerCase(h[at[k]][1]) = n /\ h[at[k]][2] = w}
    <3>1. \A k \in DOMAIN out : k \in 1 .. m \/ k = m + 1
      BY <1>3, <1>7
    <3>2. \A k \in 1 .. m : k \in DOMAIN out
      BY <1>3, <1>7
    <3> QED
      BY <1>8, <1>9, <2>1, <3>1, <3>2 DEF With
  <2>3. \A i \in B : i \in K
    BY <1>11 DEF With, K
  <2>4. \A k \in A : k \in 1 .. m /\ at[k] \in B
    BY <1>2, <1>5, <2>2 DEF With, K
  <2>5. \A i \in B : \E k \in A : at[k] = i
    <3> TAKE i \in B
    <3>1. PICK k \in 1 .. m : at[k] = i
      BY <1>5, <2>3
    <3>2. LowerCase(h[i][1]) = n /\ h[i][2] = w
      BY DEF With
    <3> QED
      BY <2>2, <3>1, <3>2
  <2>6. IsFiniteSet(A)
    BY <1>10, FS_Subset DEF With
  <2> HIDE DEF A, B
  <2>7. g \in Bijection(A, B)
    <3>1. g \in [A -> B]
      BY <2>4
    <3>2. \A k, l \in A : g[k] = g[l] => k = l
      BY <1>5, <2>4
    <3>3. \A i \in B : \E k \in A : g[k] = i
      BY <2>5
    <3> HIDE DEF g
    <3> QED
      BY <3>1, <3>2, <3>3 DEF Bijection, Injection, Surjection, IsInjective
  <2>8. ExistsBijection(A, B)
    BY <2>7 DEF ExistsBijection
  <2>9. Cardinality(B) = Cardinality(A)
    BY <2>6, <2>8, FS_Bijection
  <2> QED
    BY <2>9 DEF A, B
<1>12. NamesIn(out) \ {"ic-certificate"} = {n \in NamesIn(h) : CountsFor(certification, n)}
  <2>1. \A n : n \in NamesIn(out) <=> \E k \in DOMAIN out : LowerCase(out[k][1]) = n
    BY DEF NamesIn, ToSet
  <2>2. \A n : n \in NamesIn(h) <=> \E i \in DOMAIN h : LowerCase(h[i][1]) = n
    BY DEF NamesIn, ToSet
  <2>3. \A k \in DOMAIN out : k \in 1 .. m \/ k = m + 1
    BY <1>3, <1>7
  <2>4. ASSUME NEW n \in NamesIn(out), n # "ic-certificate"
        PROVE  n \in NamesIn(h) /\ CountsFor(certification, n)
    <3>1. PICK k \in DOMAIN out : LowerCase(out[k][1]) = n
      BY <2>1
    <3>2. k \in 1 .. m
      BY <1>8, <2>3, <2>4, <3>1
    <3>3. LowerCase(h[at[k]][1]) = n /\ at[k] \in K
      BY <1>8, <1>9, <3>1, <3>2
    <3> QED
      BY <1>2, <2>2, <3>3 DEF K
  <2>5. ASSUME NEW n \in NamesIn(h), CountsFor(certification, n)
        PROVE  n \in NamesIn(out) /\ n # "ic-certificate"
    <3>1. PICK i \in DOMAIN h : LowerCase(h[i][1]) = n
      BY <2>2
    <3>2. i \in K
      BY <2>5, <3>1 DEF K
    <3>3. PICK k \in 1 .. m : at[k] = i
      BY <1>5, <3>2
    <3>4. k \in DOMAIN out /\ LowerCase(out[k][1]) = n
      BY <1>3, <1>7, <1>9, <3>1, <3>3
    <3> QED
      BY <2>1, <2>5, <3>4 DEF CountsFor
  <2> QED
    BY <2>4, <2>5
<1> QED
  BY <1>10, <1>11, <1>12 DEF IsHandedOn, out, h

\* What is handed on of a response that passes.
IsInfo(out, x, version, read) ==
  /\ version = 1 => out = [body |-> x.body, headers |-> <<>>]
  /\ version # 1 /\ read.kind = "Skip" => out = None
  /\ version # 1 /\ read.kind # "Skip" =>
       \E certificate : out = [statusCode |-> x.status_code, body |-> x.body,
                               headers |-> HandedOn(x, read.response, certificate)]

LEMMA InfoLemma ==
  ASSUME NEW x, NEW version, version = Version(LastHeader(x, "ic-certificate")),
         NEW read, read = CHOOSE e \in ReadCel(LastHeader(x, "ic-certificateexpression")) : TRUE
  PROVE  IsInfo(VerificationInfoToJs(x).response, x, version, read)
<1> DEFINE verified == VerifiedResponse(x)
           out == VerificationInfoToJs(x).response
<1>1. out = IF verified = <<>> THEN None ELSE VerifiedResponseToJs(verified[1])
  BY DEF VerificationInfoToJs
<1> DEFINE filtered == FilterResponseHeaders(x, read.response)
           headers == Append(InOrder(filtered.headers), <<CertificateHeaderName, filtered.certificate[1]>>)
<1>2. verified = IF version = 1 THEN << [status_code |-> <<>>, headers |-> <<>>, body |-> x.body] >>
                 ELSE IF read.kind = "Skip" THEN <<>>
                 ELSE << [status_code |-> <<x.status_code>>, headers |-> headers, body |-> x.body] >>
  BY DEF VerifiedResponse
<1>3. headers = HandedOn(x, read.response, filtered.certificate[1])
  BY DEF HandedOn
<1> HIDE DEF out, verified, headers, filtered
<1>4. version = 1 => out = [body |-> x.body, headers |-> <<>>]
  BY <1>1, <1>2 DEF VerifiedResponseToJs
<1>5. version # 1 /\ read.kind = "Skip" => out = None
  BY <1>1, <1>2
<1>6. version # 1 /\ read.kind # "Skip" =>
        out = [statusCode |-> x.status_code, body |-> x.body, headers |-> headers]
  BY <1>1, <1>2 DEF VerifiedResponseToJs
<1> QED
  BY <1>3, <1>4, <1>5, <1>6 DEF IsInfo, out

\* What a client is handed on of a response that is accepted.
LEMMA VerdictInfoLemma ==
  ASSUME NEW r, NEW x, x = [status_code |-> r.status_code, headers |-> r.headers, body |-> r.body, upgrade |-> <<>>],
         IsStatusCode(r.status_code),
         VerifyExchange(RequestFromJs(request), x, Canister, Root, Now, Offset, MinVerificationVersion) = "Ok"
  PROVE  Verdict(r).info = VerificationInfoToJs(x)
<1> DEFINE w == VerifyExchange(RequestFromJs(request), x, Canister, Root, Now, Offset, MinVerificationVersion)
<1>1. ResponseFromJs(r) = <<x>>
  BY BuildResponseLemma DEF ResponseFromJs
<1>2. ResponseFromJs(r) # <<>> /\ ResponseFromJs(r)[1] = x
  BY <1>1
<1>3. Verdict(r) = [code |-> JsErrorCode(w), info |-> IF w = "Ok" THEN VerificationInfoToJs(x) ELSE None]
  BY <1>2 DEF Verdict, VerifyRequestResponsePairJs
<1> HIDE DEF w
<1>4. Verdict(r).info = IF w = "Ok" THEN VerificationInfoToJs(x) ELSE None
  BY <1>3
<1> QED
  BY <1>4 DEF w

\* The names of the headers that an expression says something about are those that count.
LEMMA CountedNamesLemma ==
  ASSUME NEW e, NEW headers
  PROVE  CountedNames(e, headers) =
           {n \in NamesIn(headers) : CountsFor(e.response, n)} \cup {"ic-certificateexpression"}
BY DEF CountedNames, CountsFor

\* A header that counts is there if it is in a response that counts as the same.
LEMMA NamesAlike ==
  ASSUME NEW certification, NEW a, IsFiniteSet(DOMAIN a.headers), NEW b, IsFiniteSet(DOMAIN b.headers),
         CountedAlike(certification, a, b), NEW n \in NamesIn(a.headers), CountsFor(certification, n)
  PROVE  n \in NamesIn(b.headers)
<1>1. PICK i \in DOMAIN a.headers : LowerCase(a.headers[i][1]) = n
  BY DEF NamesIn, ToSet
<1> DEFINE v == a.headers[i][2]
           A == With(a.headers, n, v)
           B == With(b.headers, n, v)
<1>2. i \in A /\ A \subseteq DOMAIN a.headers /\ B \subseteq DOMAIN b.headers
  BY <1>1 DEF With
<1>3. Cardinality(A) = Cardinality(B)
  BY DEF CountedAlike
<1>4. B # {}
  <2> HIDE DEF A, B
  <2>1. IsFiniteSet(A)
    BY <1>2, FS_Subset
  <2> QED
    BY <1>2, <1>3, <2>1, FS_EmptySet
<1>5. PICK j \in DOMAIN b.headers : LowerCase(b.headers[j][1]) = n
  BY <1>4 DEF With
<1> QED
  BY <1>5 DEF NamesIn, ToSet

\* What is handed on of a response of version 2 is what its case says of it.
IsOfCase(out, c) ==
  /\ c.expression.kind # "Skip"
  /\ out.statusCode = c.response.status_code /\ out.body = c.response.body
  /\ NamesIn(out.headers) \ {"ic-certificate"} = CountedNames(c.expression, c.response.headers)
  /\ SameValues(out.headers, c.response.headers, CountedNames(c.expression, c.response.headers))

LEMMA Returned2Lemma ==
  ASSUME MarkersApart, LoweredOnce, IInv, NEW r \in ToSet(response), Claims(r, 2), Accepted(r),
         NEW out, out = Verdict(r).info.response, out # None
  PROVE  \E c \in Represented(r) : IsOfCase(out, c)
<1> DEFINE x == [status_code |-> r.status_code, headers |-> r.headers, body |-> r.body, upgrade |-> <<>>]
           cel == LastHeader(r, "ic-certificateexpression")
<1>1. cel # None /\ Represented(r) # {}
  BY AcceptedLemma DEF AcceptedExactly
<1>2. PICK c \in Represented(r) : TRUE
  BY <1>1
<1>3. /\ c \in CertifiedAs /\ Represents(c, request, r)
      /\ cel = CreateDefaultCelExpr(c.expression)
  BY <1>2 DEF Represented, CertifiedAs
<1>4. IsExpression(c.expression)
  BY <1>3, ExpressionLemma
<1>5. (CHOOSE e \in ReadCel(cel) : TRUE) = c.expression
  <2>1. ReadCel(cel) = {c.expression}
    BY <1>3, <1>4 DEF IsExpression
  <2> QED
    BY <2>1
<1>6. /\ \A n : LastHeader(x, n) = LastHeader(r, n)
      /\ x.headers = r.headers /\ x.status_code = r.status_code /\ x.body = r.body
  BY DEF LastHeader
<1>7. IsInfo(out, x, 2, c.expression)
  <2>1. /\ IsStatusCode(r.status_code)
        /\ VerifyExchange(RequestFromJs(request), x, Canister, Root, Now, Offset, MinVerificationVersion) = "Ok"
    BY PassesLemma
  <2>2. Verdict(r).info = VerificationInfoToJs(x)
    BY <2>1, VerdictInfoLemma
  <2>3. /\ Version(LastHeader(x, "ic-certificate")) = 2
        /\ (CHOOSE e \in ReadCel(LastHeader(x, "ic-certificateexpression")) : TRUE) = c.expression
    BY <1>5, <1>6 DEF Claims
  <2> HIDE DEF x
  <2> QED
    BY <2>2, <2>3, InfoLemma
<1> HIDE DEF x, cel
<1>8. c.expression.kind # "Skip" /\
        \E certificate : out = [statusCode |-> r.status_code, body |-> r.body,
                                headers |-> HandedOn(x, c.expression.response, certificate)]
  BY <1>6, <1>7 DEF IsInfo
<1>9. PICK certificate : out = [statusCode |-> r.status_code, body |-> r.body,
                                headers |-> HandedOn(x, c.expression.response, certificate)]
  BY <1>8
<1> DEFINE headers == HandedOn(x, c.expression.response, certificate)
<1>10. out.statusCode = r.status_code /\ out.body = r.body /\ out.headers = headers
  BY <1>9
<1> HIDE <1>9
<1>11. IsFiniteSet(DOMAIN r.headers) /\ DOMAIN r.headers \subseteq Nat
  <2>1. OnItsWay(r, Certificate, Served)
    BY DEF IInv, IResponse, ToSet
  <2>2. PICK S : r.headers \in Seq(S)
    BY <2>1 DEF OnItsWay
  <2>3. Len(r.headers) \in Nat /\ DOMAIN r.headers = 1 .. Len(r.headers) /\ IsFiniteSet(DOMAIN r.headers)
    BY <2>2, SeqLemma
  <2> QED
    BY <2>3
<1>12. IsHandedOn(headers, c.expression.response, r.headers)
  BY <1>6, <1>11, HandedOnLemma
<1> HIDE DEF headers
<1>13. IsFiniteSet(DOMAIN c.response.headers)
  <2>1. c \in Cases
    <3>1. SkippedCase.expression = Skip
      BY Zenon DEF SkippedCase
    <3>2. SkippedCase.expression.kind = "Skip"
      BY <3>1 DEF Skip
    <3> QED
      BY <1>3, <1>8, <3>2 DEF CertifiedAs, CertifiedCases
  <2>2. PICK S : c.response.headers \in Seq(S)
    BY <2>1, MessageAssumption DEF IsResponse
  <2> QED
    BY <2>2, SeqLemma
<1>14. /\ c.response.status_code = r.status_code /\ c.response.body = r.body
       /\ CountedAlike(c.expression.response, c.response, r)
  BY <1>3, <1>8, <1>11, <1>13, SameResponseLemma DEF Represents
<1>15. "ic-certificateexpression" \in NamesIn(r.headers)
  <2>1. {i \in DOMAIN r.headers : LowerCase(r.headers[i][1]) = "ic-certificateexpression"} # {}
    BY <1>1 DEF LastHeader, cel
  <2> QED
    BY <2>1 DEF NamesIn, ToSet
<1> DEFINE counted == c.expression.response
           names == CountedNames(c.expression, c.response.headers)
<1>16. names = {n \in NamesIn(c.response.headers) : CountsFor(counted, n)} \cup {"ic-certificateexpression"}
  BY CountedNamesLemma
<1>17. CountsFor(counted, "ic-certificateexpression")
  BY DEF CountsFor
<1>18. CountedAlike(counted, r, c.response)
  BY <1>14 DEF CountedAlike
<1> HIDE DEF counted, names
<1>19. names = {n \in NamesIn(r.headers) : CountsFor(counted, n)}
  <2>1. \A n \in NamesIn(r.headers) : CountsFor(counted, n) => n \in NamesIn(c.response.headers)
    BY <1>11, <1>13, <1>18, NamesAlike
  <2>2. \A n \in NamesIn(c.response.headers) : CountsFor(counted, n) => n \in NamesIn(r.headers)
    BY <1>11, <1>13, <1>14, NamesAlike DEF counted
  <2> QED
    BY <1>15, <1>16, <1>17, <2>1, <2>2
<1>20. NamesIn(out.headers) \ {"ic-certificate"} = names
  BY <1>10, <1>12, <1>19 DEF IsHandedOn, counted
<1>21. SameValues(out.headers, c.response.headers, names)
  <2> SUFFICES ASSUME NEW n \in names
               PROVE  ValuesOf(headers, n) = ValuesOf(c.response.headers, n)
    BY <1>10 DEF SameValues
  <2>1. CountsFor(counted, n)
    BY <1>19
  <2>2. \A v : Cardinality(With(headers, n, v)) = Cardinality(With(r.headers, n, v))
    BY <1>12, <2>1 DEF IsHandedOn, counted
  <2>3. \A v : Cardinality(With(r.headers, n, v)) = Cardinality(With(c.response.headers, n, v))
    BY <1>18, <2>1 DEF CountedAlike
  <2>4. IsFiniteSet(DOMAIN headers)
    BY <1>12 DEF IsHandedOn
  <2> QED
    BY <1>13, <2>2, <2>3, <2>4, ValuesLemma
<1>22. IsOfCase(out, c)
  BY <1>8, <1>10, <1>14, <1>20, <1>21 DEF IsOfCase, names
<1> QED
  BY <1>2, <1>22

\* A body that is shown for a path is the one that is certified for it or for the index.
LEMMA ShownLemma ==
  ASSUME NEW q \in Requests, NEW path, path = GetPath(q), path # <<>>,
         NEW tree \in ShownAssets, NEW body, ValidateBody(tree, path[1], body)
  PROVE  \E p \in {path[1], IndexPath} \cap DOMAIN Bodies : Bodies[p] = body
<1> DEFINE p1 == path[1]
<1>1. path = <<p1>>
  BY DEF GetPath
<1>2. p1 \in ToSet(path)
  <2>1. 1 \in DOMAIN path
    BY <1>1
  <2> QED
    BY <2>1 DEF ToSet
<1> HIDE DEF p1
<1>3. \A p \in {p1, IndexPath} :
        LookupAsset(tree, p).kind = "Found" => p \in DOMAIN Bodies /\ LookupAsset(tree, p).body = Bodies[p]
  BY <1>2, LookupAssumption DEF ShownAssets
<1>4. CASE LookupAsset(tree, p1).kind = "Found"
  BY <1>3, <1>4 DEF ValidateBody, p1
<1>5. CASE LookupAsset(tree, p1).kind # "Found"
  BY <1>3, <1>5 DEF ValidateBody, p1
<1> QED
  BY <1>4, <1>5

\* Of a response of version 1 the body alone is handed on.
LEMMA Returned1Lemma ==
  ASSUME MarkersApart, IInv, NEW r \in ToSet(response), Claims(r, 1), Accepted(r),
         NEW out, out = Verdict(r).info.response
  PROVE  /\ out = [body |-> r.body, headers |-> <<>>]
         /\ \E p \in {PathOf, IndexPath} \cap DOMAIN Bodies :
              Bodies[p] \in {r.body} \cup Inflate(r.body, LastHeader(r, "content-encoding"))
<1> DEFINE x == [status_code |-> r.status_code, headers |-> r.headers, body |-> r.body, upgrade |-> <<>>]
           q == RequestFromJs(request)
           fields == LastHeader(x, "ic-certificate")
           tree == FirstField(fields, "tree")
           encoding == LastHeader(x, "content-encoding")
           decoded == DecodeBody(x.body, encoding)
           path == GetPath(q)
<1>1. /\ \A n : LastHeader(x, n) = LastHeader(r, n)
      /\ x.body = r.body
  BY DEF LastHeader
<1>2. /\ IsStatusCode(r.status_code)
      /\ VerifyExchange(q, x, Canister, Root, Now, Offset, MinVerificationVersion) = "Ok"
  BY PassesLemma
<1>3. Verdict(r).info = VerificationInfoToJs(x)
  BY <1>2, VerdictInfoLemma
<1>4. fields # None /\ Version(fields) = 1
  BY <1>1 DEF Claims
<1>5. path = GetPath(request)
  BY RequestIsKept
<1> HIDE DEF x, q
<1>6. out = [body |-> r.body, headers |-> <<>>]
  <2>1. IsInfo(VerificationInfoToJs(x).response, x, 1,
               CHOOSE e \in ReadCel(LastHeader(x, "ic-certificateexpression")) : TRUE)
    BY <1>4, InfoLemma
  <2> QED
    BY <1>1, <1>3, <2>1 DEF IsInfo
<1>7. CertificateHeaderFrom(fields) = "Ok" /\ BodyOutcome(q, x, tree) = "Ok"
  BY <1>2, <1>4, Version1Accepts
<1>8. tree.http_assets \in ShownAssets
  <2>1. OnItsWay(r, Certificate, Served)
    BY DEF IInv, IResponse, ToSet
  <2>2. fields = LastHeader(r, "ic-certificate")
    BY <1>1
  <2> HIDE DEF fields
  <2>3. Brings(fields, Certificate, Served)
    BY <1>4, <1>7, <2>1, <2>2, CertificateThatCounts
  <2> QED
    BY <2>3 DEF Brings
<1> HIDE DEF fields, tree, path
<1>9. /\ path # <<>>
      /\ \E body \in decoded \cup (IF encoding = None THEN {} ELSE {x.body}) :
           ValidateBody(tree.http_assets, path[1], body)
  <2> HIDE DEF encoding, decoded
  <2> QED
    BY <1>7, BodyLemma DEF encoding, decoded, path
<1>10. PICK body \in decoded \cup (IF encoding = None THEN {} ELSE {x.body}) :
         ValidateBody(tree.http_assets, path[1], body)
  BY <1>9
<1>11. body \in {r.body} \cup Inflate(r.body, LastHeader(r, "content-encoding"))
  BY <1>1, <1>10 DEF DecodeBody
<1>12. request \in Requests
  BY DEF IInv
<1>13. \E p \in {path[1], IndexPath} \cap DOMAIN Bodies : Bodies[p] = body
  BY <1>5, <1>8, <1>9, <1>10, <1>12, ShownLemma
<1>14. path[1] = PathOf
  BY <1>5 DEF PathOf
<1> QED
  BY <1>6, <1>11, <1>13, <1>14

-----------------------------------------------------------------------------
(***************************************************************************)
(* What the canister certified, it can serve.                              *)
(***************************************************************************)
\* The values of two functions in which every value occurs as often can be paired.
LEMMA PairingLemma ==
  ASSUME NEW a, IsFiniteSet(DOMAIN a), NEW b, IsFiniteSet(DOMAIN b), BagOf(a) = BagOf(b)
  PROVE  \E m \in Bijection(DOMAIN a, DOMAIN b) : \A i \in DOMAIN a : b[m[i]] = a[i]
<1> DEFINE A(x) == {i \in DOMAIN a : a[i] = x}
           B(x) == {i \in DOMAIN b : b[i] = x}
           f(x) == CHOOSE g : g \in Bijection(A(x), B(x))
           m == [i \in DOMAIN a |-> f(a[i])[i]]
<1>1. \A x : Cardinality(A(x)) = Cardinality(B(x))
  <2>1. \A x : Count(a, x) = Count(b, x)
    BY BagLemma
  <2> QED
    BY <2>1 DEF Count
<1>2. \A x : IsFiniteSet(A(x)) /\ IsFiniteSet(B(x))
  BY FS_Subset
<1>3. ASSUME NEW x
      PROVE  f(x) \in Bijection(A(x), B(x))
  <2>1. Cardinality(A(x)) = Cardinality(B(x)) /\ IsFiniteSet(A(x)) /\ IsFiniteSet(B(x))
    BY <1>1, <1>2
  <2> HIDE DEF A, B
  <2>2. ExistsBijection(A(x), B(x))
    BY <2>1, FS_SameCardinalityBij
  <2> QED
    BY <2>2 DEF ExistsBijection
<1>4. \A i \in DOMAIN a : i \in A(a[i])
  OBVIOUS
<1>5. \A j \in DOMAIN b : j \in B(b[j])
  OBVIOUS
<1>6. \A i \in DOMAIN a : m[i] = f(a[i])[i]
  OBVIOUS
<1> HIDE DEF f
<1>7. ASSUME NEW x
      PROVE  /\ \A i \in A(x) : f(x)[i] \in B(x)
             /\ \A i, j \in A(x) : f(x)[i] = f(x)[j] => i = j
             /\ \A j \in B(x) : \E i \in A(x) : f(x)[i] = j
  <2> DEFINE g == f(x)
  <2>1. g \in Bijection(A(x), B(x))
    BY <1>3
  <2> HIDE DEF g, A, B
  <2>2. g \in [A(x) -> B(x)] /\ IsInjective(g) /\ \A j \in B(x) : \E i \in A(x) : g[i] = j
    BY <2>1 DEF Bijection, Injection, Surjection
  <2>3. DOMAIN g = A(x)
    BY <2>2
  <2> QED
    BY <2>2, <2>3 DEF IsInjective, g
<1>8. \A i \in DOMAIN a : m[i] \in DOMAIN b /\ b[m[i]] = a[i]
  <2> TAKE i \in DOMAIN a
  <2>1. m[i] \in B(a[i])
    BY <1>4, <1>6, <1>7
  <2> HIDE DEF m
  <2> QED
    BY <2>1
<1>9. \A i, j \in DOMAIN a : m[i] = m[j] => i = j
  <2> SUFFICES ASSUME NEW i \in DOMAIN a, NEW j \in DOMAIN a, m[i] = m[j] PROVE i = j
    OBVIOUS
  <2>1. a[i] = a[j]
    BY <1>8
  <2>2. i \in A(a[i]) /\ j \in A(a[i]) /\ f(a[i])[i] = f(a[i])[j]
    BY <1>4, <1>6, <2>1
  <2> QED
    BY <1>7, <2>2
<1>10. \A j \in DOMAIN b : \E i \in DOMAIN a : m[i] = j
  <2> TAKE j \in DOMAIN b
  <2>1. PICK i \in A(b[j]) : f(b[j])[i] = j
    BY <1>5, <1>7
  <2>2. i \in DOMAIN a /\ a[i] = b[j]
    OBVIOUS
  <2> QED
    BY <1>6, <2>1, <2>2
<1>11. m \in [DOMAIN a -> DOMAIN b]
  BY <1>8
<1>12. m \in Bijection(DOMAIN a, DOMAIN b)
  <2> HIDE DEF m
  <2> QED
    BY <1>9, <1>10, <1>11 DEF Bijection, Injection, Surjection, IsInjective
<1> HIDE DEF m
<1> QED
  BY <1>8, <1>12

\* In the same headers, in whatever order, a name has a value as often, however it is spelt.
LEMMA AsOftenLemma ==
  ASSUME NEW a, IsFiniteSet(DOMAIN a), NEW b, IsFiniteSet(DOMAIN b), BagOf(a) = BagOf(b), NEW n, NEW v
  PROVE  Cardinality(With(a, n, v)) = Cardinality(With(b, n, v))
<1> DEFINE A == With(a, n, v)
           B == With(b, n, v)
<1>1. PICK m \in Bijection(DOMAIN a, DOMAIN b) : \A i \in DOMAIN a : b[m[i]] = a[i]
  BY PairingLemma
<1> DEFINE g == [i \in A |-> m[i]]
<1>2. /\ \A i \in DOMAIN a : m[i] \in DOMAIN b
      /\ \A i, j \in DOMAIN a : m[i] = m[j] => i = j
      /\ \A j \in DOMAIN b : \E i \in DOMAIN a : m[i] = j
  BY DEF Bijection, Injection, Surjection, IsInjective
<1>3. /\ \A i : i \in A <=> i \in DOMAIN a /\ LowerCase(a[i][1]) = n /\ a[i][2] = v
      /\ \A i : i \in B <=> i \in DOMAIN b /\ LowerCase(b[i][1]) = n /\ b[i][2] = v
  BY DEF With
<1>4. IsFiniteSet(A)
  BY FS_Subset DEF With
<1> HIDE DEF A, B
<1>5. \A i \in A : i \in DOMAIN a /\ m[i] \in B
  BY <1>1, <1>2, <1>3
<1>6. \A j \in B : \E i \in A : m[i] = j
  <2> TAKE j \in B
  <2>1. PICK i \in DOMAIN a : m[i] = j
    BY <1>2, <1>3
  <2>2. i \in A
    BY <1>1, <1>3, <2>1
  <2> QED
    BY <2>1, <2>2
<1>7. g \in [A -> B] /\ (\A i, j \in A : g[i] = g[j] => i = j) /\ \A j \in B : \E i \in A : g[i] = j
  BY <1>2, <1>5, <1>6
<1> HIDE DEF g
<1>8. g \in Bijection(A, B)
  BY <1>7 DEF Bijection, Injection, Surjection, IsInjective
<1>9. ExistsBijection(A, B)
  BY <1>8 DEF ExistsBijection
<1>10. Cardinality(B) = Cardinality(A)
  BY <1>4, <1>9, FS_Bijection
<1> QED
  BY <1>10 DEF A, B

\* A witness that leaves out neither the path nor the index shows the body that is sent.
LEMMA WitnessLemma ==
  ASSUME request \in Requests, WellFormed, NEW w \in Witnesses,
         \A p \in {PathOf, IndexPath} : LookupAsset(w, p).kind \in {"Found", "Absent"}
  PROVE  ValidateBody(w, PathOf, Bodies[IF PathOf \in DOMAIN Bodies THEN PathOf ELSE IndexPath])
<1> DEFINE p1 == PathOf
           body == Bodies[IF p1 \in DOMAIN Bodies THEN p1 ELSE IndexPath]
<1>1. p1 \in UNION {ToSet(GetPath(q)) : q \in Requests}
  <2>1. GetPath(request) = <<p1>>
    BY DEF GetPath, WellFormed, PathOf
  <2>2. 1 \in DOMAIN GetPath(request)
    BY <2>1
  <2>3. p1 \in ToSet(GetPath(request))
    BY <2>1, <2>2 DEF ToSet
  <2> HIDE DEF p1
  <2> QED
    BY <2>3
<1>2. \A p \in {p1, IndexPath} :
        /\ LookupAsset(w, p).kind = "Found" => p \in DOMAIN Bodies /\ LookupAsset(w, p).body = Bodies[p]
        /\ LookupAsset(w, p).kind = "Absent" => p \notin DOMAIN Bodies
  BY <1>1, LookupAssumption
<1> HIDE DEF p1
<1>3. LookupAsset(w, IndexPath).kind = "Found" /\ LookupAsset(w, IndexPath).body = Bodies[IndexPath]
  BY <1>2, BodyAssumption
<1>4. CASE LookupAsset(w, p1).kind = "Found"
  BY <1>2, <1>4 DEF ValidateBody, p1
<1>5. CASE LookupAsset(w, p1).kind = "Absent"
  BY <1>2, <1>3, <1>5 DEF ValidateBody, p1
<1> QED
  BY <1>4, <1>5 DEF p1

\* A body of version 1 is accepted as it was sent.
LEMMA BodyVerifies ==
  ASSUME MarkersApart, IInv, Trusted, edits = 0, NEW r \in ToSet(response), Claims(r, 1),
         NEW w, w = FirstField(LastHeader(r, "ic-certificate"), "tree").http_assets,
         \A p \in {PathOf, IndexPath} : LookupAsset(w, p).kind \in {"Found", "Absent"}
  PROVE  Accepted(r)
<1> DEFINE x == [status_code |-> r.status_code, headers |-> r.headers, body |-> r.body, upgrade |-> <<>>]
           q == RequestFromJs(request)
           fields == LastHeader(x, "ic-certificate")
           tree == FirstField(fields, "tree")
           cert == FirstField(fields, "certificate")
           encoding == LastHeader(x, "content-encoding")
           decoded == DecodeBody(x.body, encoding)
           path == GetPath(q)
<1>1. /\ \A n : LastHeader(x, n) = LastHeader(r, n)
      /\ x.body = r.body
  BY DEF LastHeader
<1>2. fields # None /\ Version(fields) = 1
  BY <1>1 DEF Claims
<1>3. OnItsWay(r, Certificate, Served) /\ (~skips => WellFormed) /\ IsSent(r, Certificate) /\ SaysAsSent(r)
  BY DEF IInv, IResponse, ToSet
<1>4. fields = LastHeader(r, "ic-certificate") /\ encoding = LastHeader(r, "content-encoding")
  BY <1>1
<1> HIDE DEF x, q
<1>5. ~skips /\ WellFormed
  BY <1>2, <1>3, <1>4 DEF SaysAsSent
<1>6. r.body = Bodies[IF PathOf \in DOMAIN Bodies THEN PathOf ELSE IndexPath] /\ w \in Witnesses /\ w = tree.http_assets
  BY <1>2, <1>3, <1>4, <1>5 DEF SaysAsSent
<1>7. CertificateHeaderFrom(fields) = "Ok" /\ cert = Certificate /\ decoded # {}
  BY <1>1, <1>2, <1>3, <1>4 DEF IsSent, IsWhole
<1>8. path # <<>> /\ path[1] = PathOf
  <2>1. path = GetPath(request)
    BY RequestIsKept DEF q
  <2> HIDE DEF path
  <2> QED
    BY <1>5, <2>1 DEF GetPath, WellFormed, PathOf
<1>9. RootHash(tree) = CertifiedRoot
  <2> HIDE DEF fields, tree
  <2>1. Brings(fields, Certificate, Served)
    BY <1>2, <1>3, <1>4, <1>7, CertificateThatCounts
  <2> QED
    BY <2>1 DEF Brings, Served, tree
<1>10. r.body \in decoded \cup (IF encoding = None THEN {} ELSE {x.body})
  <2> HIDE DEF encoding
  <2> QED
    BY <1>1 DEF DecodeBody, MarkersApart
<1> HIDE DEF decoded, encoding, path
<1>11. ValidateBody(tree.http_assets, path[1], r.body)
  BY <1>5, <1>6, <1>8, WitnessLemma DEF IInv
<1>12. BodyOutcome(q, x, tree) = "Ok"
  <2>1. \E body \in decoded \cup (IF encoding = None THEN {} ELSE {x.body}) :
          ValidateBody(tree.http_assets, path[1], body)
    BY <1>10, <1>11
  <2> HIDE DEF fields, tree, cert
  <2>2. BodyOutcome(q, x, tree) = "Ok" <=>
          /\ path # <<>> /\ decoded # {}
          /\ \E body \in decoded \cup (IF encoding = None THEN {} ELSE {x.body}) :
               ValidateBody(tree.http_assets, path[1], body)
    BY BodyLemma, Zenon DEF decoded, encoding, path
  <2> QED
    BY <1>7, <1>8, <2>1, <2>2
<1>13. Verify(cert, Canister, Root, Now, Offset) = "Ok" /\ ValidateTree(Canister, cert, RootHash(tree)) = "Ok"
  BY <1>7, <1>9, TrustedLemma
<1>14. VerifyExchange(q, x, Canister, Root, Now, Offset, MinVerificationVersion) = "Ok"
  <2> HIDE DEF fields, tree, cert
  <2> QED
    BY <1>2, <1>7, <1>12, <1>13, Version1Accepts DEF fields, tree, cert
<1>15. IsStatusCode(r.status_code)
  BY <1>3 DEF IsSent
<1> QED
  BY <1>14, <1>15, PassesLemma DEF x, q

\* The place to skip certification at answers every request, and does not outdo itself.
LEMMA SkipPlaceLemma ==
  ASSUME NEW S, NEW url \in Seq(S)
  PROVE  Answers(SkipPlace, url) /\ ~Outdone({SkipPlace}, SkipPlace, url)
<1> DEFINE T == S \cup {DirSeparator}
<1>1. url \in Seq(T) /\ DirSeparator \in T
  BY SeqMonotonic
<1>2. PICK root : root = <<DirSeparator>> /\ SkipPlace = [segments |-> Segments(root), exact |-> FALSE]
  <2>1. SkipPlace = [segments |-> Segments(<<"">>), exact |-> FALSE]
    BY Zenon DEF SkipPlace, Place
  <2>2. <<"">> = <<DirSeparator>>
    BY Zenon DEF DirSeparator
  <2> QED
    BY <2>1, <2>2, Zenon
<1>3. root \in Seq({DirSeparator}) /\ Len(root) = 1 /\ ~EndsWithSlash(root)
  BY <1>2 DEF EndsWithSlash
<1>4. NotEmpty(root)[Len(root)] = <<>>
  <2> DEFINE kept == NotEmpty(root)[Len(root)]
  <2>1. kept \in Seq({DirSeparator} \ {DirSeparator})
    BY <1>3, NotEmptyLemma
  <2>2. kept \in Seq({})
    BY <2>1
  <2> HIDE DEF kept
  <2>3. Len(kept) \in Nat /\ \A i \in 1 .. Len(kept) : kept[i] \in {}
    BY <2>2, LenProperties
  <2>4. Len(kept) = 0
    <3> SUFFICES ASSUME Len(kept) # 0 PROVE FALSE
      OBVIOUS
    <3>1. 1 \in 1 .. Len(kept)
      BY <2>3
    <3> QED
      BY <2>3, <3>1
  <2> QED
    BY <2>2, <2>4, EmptySeq DEF kept
<1>5. Segments(root) = <<>>
  BY <1>3, <1>4 DEF Segments
<1> DEFINE p == SkipPlace
<1>6. p.segments = <<>> /\ p.exact = FALSE
  BY <1>2, <1>5
<1> HIDE DEF p, T
<1>7. Covers(<<>>, Segments(url))
  <2>1. Segments(url) \in Tidy(T)
    BY <1>1, SegmentsLemma
  <2>2. <<>> \in Tidy(T) /\ Len(<<>>) = 0
    BY DEF Tidy
  <2>3. ~IsDirectory(<<>>) /\ Len(Names(<<>>)) = 0
    BY <2>2 DEF IsDirectory, EndsWith, Names
  <2>4. Len(Names(Segments(url))) \in Nat
    BY <2>1, NamesLemma
  <2> QED
    BY <2>1, <2>2, <2>3, <2>4, CoversLemma
<1>8. Answers(p, url)
  BY <1>6, <1>7 DEF Answers
<1>9. ~MoreSpecific(<<>>, <<>>)
  <2>1. Len(Names(<<>>)) = 0
    BY DEF IsDirectory, EndsWith, Names
  <2> QED
    BY <2>1 DEF MoreSpecific
<1>10. ~Outdone({p}, p, url)
  BY <1>6, <1>9 DEF Outdone
<1> QED
  BY <1>8, <1>10 DEF p

\* A response to skip is accepted as it was sent, for any request.
LEMMA SkippedVerifies ==
  ASSUME MarkersApart, IInv, Trusted, edits = 0, skips, WellFormed, NEW r \in ToSet(response)
  PROVE  Accepted(r)
<1> DEFINE fields == LastHeader(r, "ic-certificate")
           cel == LastHeader(r, "ic-certificateexpression")
           place == FirstField(fields, "expr_path")
<1>1. OnItsWay(r, Certificate, Served) /\ IsSent(r, Certificate) /\ SaysAsSent(r)
  BY DEF IInv, IResponse, ToSet
<1>2. /\ IsStatusCode(r.status_code) /\ FirstField(fields, "certificate") = Certificate
      /\ fields # None /\ CertificateHeaderFrom(fields) = "Ok"
      /\ Version(fields) = 2 /\ cel = CreateDefaultCelExpr(Skip)
  BY <1>1 DEF IsSent, IsWhole, SaysAsSent
<1>3. cel # None
  BY <1>2 DEF MarkersApart
<1> HIDE DEF fields, cel
<1>4. place = SkipPlace
  <2>1. Brings(fields, Certificate, Served)
    BY <1>1, <1>2, CertificateThatCounts DEF fields
  <2>2. place \in Served.places
    BY <1>2, <2>1 DEF Brings
  <2> QED
    BY <2>2 DEF Served
<1>5. Places = {SkipPlace}
  BY DEF Places, CanisterTree, SkippingTree, SkipCertificationTree
<1>6. PICK S : PathOf \in Seq(S)
  <2>1. GetPath(request) = <<PathOf>>
    BY DEF GetPath, WellFormed, PathOf
  <2>2. PathOf \in ToSet(GetPath(request))
    <3>1. 1 \in DOMAIN GetPath(request)
      BY <2>1
    <3> QED
      BY <3>1 DEF ToSet, PathOf
  <2> QED
    BY <2>2, MessageAssumption DEF IInv, IsRequest
<1>7. Answers(SkipPlace, PathOf) /\ ~Outdone({SkipPlace}, SkipPlace, PathOf)
  BY <1>6, SkipPlaceLemma
<1> DEFINE c == SkippedCase
<1>8. c.expression = Skip /\ c.expression.kind = "Skip" /\ Place(c.path) = SkipPlace
  <2>1. c.expression = Skip /\ c.path = [exact |-> FALSE, url |-> <<"">>]
    BY Zenon DEF SkippedCase
  <2>2. Place(c.path) = SkipPlace
    BY <2>1, Zenon DEF SkipPlace
  <2>3. Skip.kind = "Skip"
    BY DEF Skip
  <2> QED
    BY <2>1, <2>2, <2>3
<1> HIDE DEF c, place
<1>9. c \in Represented(r)
  <2>1. Represents(c, request, r)
    BY <1>8 DEF Represents
  <2>2. c \in {SkippedCase}
    BY DEF c
  <2> QED
    BY <1>2, <1>4, <1>5, <1>7, <1>8, <2>1, <2>2 DEF Represented, place, fields, cel
<1>10. Claims(r, 2)
  BY <1>2 DEF Claims, fields
<1> QED
  BY <1>2, <1>3, <1>9, <1>10, AcceptedLemma DEF AcceptedExactly, fields, cel

\* If every header but the certificate is there as often, then so is the expression.
LEMMA ExpressionKept ==
  ASSUME NEW a, NEW S, a.headers \in Seq(S), NEW b, NEW T, b.headers \in Seq(T),
         \A v : Cardinality(With(a.headers, "ic-certificateexpression", v)) =
                Cardinality(With(b.headers, "ic-certificateexpression", v)),
         NEW cel, ValidateResponse(a, cel)
  PROVE  LastHeader(b, "ic-certificateexpression") = cel
<1> DEFINE A(v) == With(a.headers, "ic-certificateexpression", v)
           B(v) == With(b.headers, "ic-certificateexpression", v)
<1>1. PICK i \in DOMAIN a.headers : Expressions(a.headers) = {i} /\ a.headers[i][2] = cel
  BY DEF ValidateResponse
<1>2. Expressions(a.headers) = {k \in DOMAIN a.headers : LowerCase(a.headers[k][1]) = "ic-certificateexpression"}
  BY NameAssumption DEF Expressions, EqualIgnoringCase
<1>3. A(cel) = {i} /\ \A v : v # cel => A(v) = {}
  BY <1>1, <1>2 DEF With
<1>4. \A v : Cardinality(A(v)) = Cardinality(B(v)) /\ IsFiniteSet(B(v)) /\ IsFiniteSet(A(v))
  <2>1. IsFiniteSet(DOMAIN b.headers) /\ IsFiniteSet(DOMAIN a.headers)
    BY SeqLemma
  <2>2. \A v : B(v) \in SUBSET DOMAIN b.headers /\ A(v) \in SUBSET DOMAIN a.headers
    BY DEF With
  <2> HIDE DEF A, B
  <2> QED
    BY <2>1, <2>2, FS_Subset DEF A, B
<1> HIDE DEF A, B
<1>5. B(cel) # {} /\ \A v : v # cel => B(v) = {}
  BY <1>3, <1>4, FS_EmptySet
<1>6. \/ {k \in DOMAIN b.headers : LowerCase(b.headers[k][1]) = "ic-certificateexpression"} = {}
      \/ \E k \in DOMAIN b.headers : /\ LowerCase(b.headers[k][1]) = "ic-certificateexpression"
                                     /\ LastHeader(b, "ic-certificateexpression") = b.headers[k][2]
  BY LastHeaderLemma
<1>7. PICK k \in DOMAIN b.headers : /\ LowerCase(b.headers[k][1]) = "ic-certificateexpression"
                                    /\ LastHeader(b, "ic-certificateexpression") = b.headers[k][2]
  BY <1>5, <1>6 DEF With, B
<1>8. k \in B(b.headers[k][2])
  BY <1>7 DEF With, B
<1> QED
  BY <1>5, <1>7, <1>8

\* What has a certification has its expression in its headers.
LEMMA CertifiedHasExpression ==
  ASSUME NEW c \in CertifiedCases, c.expression.kind # "Skip"
  PROVE  ValidateResponse(c.response, CreateDefaultCelExpr(c.expression))
<1>1. c \in Cases /\ Certification(c) # <<>>
  BY DEF CertifiedCases
<1>2. c.expression.kind \in {"ResponseOnly", "Full"}
  BY <1>1, MessageAssumption DEF IsExpression
<1>3. CASE c.expression.kind = "ResponseOnly"
  BY <1>1, <1>3 DEF Certification, ResponseOnlyCertification
<1>4. CASE c.expression.kind = "Full"
  BY <1>1, <1>4 DEF Certification, FullCertification
<1> QED
  BY <1>2, <1>3, <1>4

\* The headers of a response but those that bring certificates.
OtherThanCertificates(r) == {i \in DOMAIN r.headers : ~IsCertificate(r.headers[i])}

LEMMA RestLemma ==
  ASSUME NEW r, IsBuilt(r), NEW S, r.headers \in Seq(S), NEW a, NEW T, a.headers \in Seq(T),
         SameResponse(a, [r EXCEPT !.headers = Restrict(@, OtherThanCertificates(r))])
  PROVE  /\ a.status_code = r.status_code /\ a.body = r.body
         /\ \A n, v : n # "ic-certificate" =>
                       Cardinality(With(a.headers, n, v)) = Cardinality(With(r.headers, n, v))
<1> DEFINE D == OtherThanCertificates(r)
           kept == Restrict(r.headers, D)
           rest == [r EXCEPT !.headers = kept]
<1>1. rest.headers = kept /\ rest.status_code = r.status_code /\ rest.body = r.body
  BY HeadersLemma
<1>2. DOMAIN kept = D /\ \A i \in D : kept[i] = r.headers[i]
  BY DEF Restrict
<1>3. IsFiniteSet(DOMAIN r.headers) /\ IsFiniteSet(DOMAIN a.headers)
  BY SeqLemma
<1>4. IsFiniteSet(D)
  BY <1>3, FS_Subset DEF OtherThanCertificates
<1>5. SameResponse(a, rest)
  OBVIOUS
<1> HIDE DEF rest, kept
<1>6. a.status_code = r.status_code /\ a.body = r.body /\ BagOf(a.headers) = BagOf(kept)
  BY <1>1, <1>5 DEF SameResponse
<1>7. \A n, v : Cardinality(With(a.headers, n, v)) = Cardinality(With(kept, n, v))
  BY <1>2, <1>3, <1>4, <1>6, AsOftenLemma
<1>8. ASSUME NEW n, NEW v, n # "ic-certificate"
      PROVE  With(kept, n, v) = With(r.headers, n, v)
  <2>1. \A i \in DOMAIN r.headers : LowerCase(r.headers[i][1]) = n => i \in D
    BY <1>8, NameAssumption DEF OtherThanCertificates, IsCertificate, EqualIgnoringCase
  <2>2. D \subseteq DOMAIN r.headers
    BY DEF OtherThanCertificates
  <2> QED
    BY <1>2, <2>1, <2>2 DEF With
<1> QED
  BY <1>6, <1>7, <1>8

\* A response that equals the certified one but for the order of its headers, and brings
\* the certificate, is accepted for the request that it was certified for.
LEMMA EqualVerifies ==
  ASSUME MarkersApart, IInv, Trusted, ~skips, NEW r \in ToSet(response), NEW c \in CertifiedCases,
         c.expression.kind # "Skip", c.request = request,
         SameResponse(c.response, [r EXCEPT !.headers = Restrict(@, OtherThanCertificates(r))]), Claims(r, 2),
         FirstField(LastHeader(r, "ic-certificate"), "certificate") = Certificate,
         FirstField(LastHeader(r, "ic-certificate"), "expr_path") = Place(c.path)
  PROVE  Accepted(r)
<1> DEFINE fields == LastHeader(r, "ic-certificate")
           cel == LastHeader(r, "ic-certificateexpression")
<1>1. OnItsWay(r, Certificate, Served) /\ WellFormed
  BY DEF IInv, IResponse, ToSet
<1>2. c \in Cases /\ IsResponse(c.response) /\ IsExpression(c.expression)
  BY MessageAssumption DEF CertifiedCases
<1>3. PICK S, T : IsBuilt(r) /\ r.headers \in Seq(S) /\ c.response.headers \in Seq(T)
  BY <1>1, <1>2 DEF OnItsWay, IsResponse
<1>4. /\ c.response.status_code = r.status_code /\ c.response.body = r.body
      /\ \A n, v : n # "ic-certificate" =>
                    Cardinality(With(c.response.headers, n, v)) = Cardinality(With(r.headers, n, v))
  BY <1>3, RestLemma
<1>5. cel = CreateDefaultCelExpr(c.expression)
  BY <1>3, <1>4, CertifiedHasExpression, ExpressionKept
<1>6. cel # None
  BY <1>2, <1>5 DEF MarkersApart
<1>7. SameResponseFor(c.expression, c.response, r)
  <2>1. IsFiniteSet(DOMAIN r.headers) /\ IsFiniteSet(DOMAIN c.response.headers)
    BY <1>3, SeqLemma
  <2>2. CountedAlike(c.expression.response, c.response, r)
    BY <1>4 DEF CountedAlike, CountsFor
  <2> QED
    BY <1>4, <2>1, <2>2, SameResponseLemma
<1>8. Represents(c, request, r)
  <2>1. SameRequestFor(c.expression, request, request)
    BY DEF SameRequestFor, SameValues
  <2> QED
    BY <1>7, <2>1 DEF Represents
<1> HIDE DEF fields, cel
<1>9. Answers(Place(c.path), PathOf) /\ ~Outdone(Places, Place(c.path), PathOf)
  <2>1. Certificate # None /\ Certificate # Garbled
    BY MadeLemma
  <2>2. fields # None /\ Version(fields) = 2
    BY DEF Claims, fields
  <2>3. Brings(fields, Certificate, Served)
    BY <1>1, <2>1, <2>2, CertificateThatCounts DEF fields
  <2>4. Place(c.path) \in Served.places
    BY <2>2, <2>3 DEF Brings, fields
  <2> QED
    BY <2>4 DEF Served
<1>10. c \in Represented(r)
  BY <1>1, <1>5, <1>8, <1>9 DEF Represented, cel
<1>11. IsStatusCode(r.status_code)
  BY <1>2, <1>4 DEF IsResponse
<1> QED
  BY <1>6, <1>10, <1>11, AcceptedLemma DEF AcceptedExactly, cel

-----------------------------------------------------------------------------
(***************************************************************************)
(* The theorems.                                                           *)
(***************************************************************************)
\* verify_request_response_pair accepts no response under a certificate that is not to be
\* trusted, whatever version and expression the response claims and whatever of it is
\* changed, repeated or left out; of a response as it was sent it says that it is the
\* certificate that fails, and it says so of none that is to be trusted: of certificates
\* from the builder, Certificate::verify refuses just those that Trusted leaves out.
THEOREM UntrustedIsNamedHolds ==
  ASSUME MarkersApart
  PROVE  Spec => []UntrustedIsNamed
<1>1. ASSUME IInv
      PROVE  UntrustedIsNamed
  <2> SUFFICES ASSUME NEW r \in ToSet(response)
               PROVE  LET code == Verdict(r).code
                      IN  /\ ~Trusted => code # "Ok"
                          /\ ~Trusted /\ edits = 0 /\ WellFormed =>
                               code \in {"CertificateVerificationFailed", "CertificateMissingCertifiedData"}
                          /\ Trusted => code # "CertificateVerificationFailed"
    BY DEF UntrustedIsNamed
  <2> DEFINE code == Verdict(r).code
             cert == Certificate
             q == RequestFromJs(request)
             x == [status_code |-> r.status_code, headers |-> r.headers, body |-> r.body, upgrade |-> <<>>]
             fields == LastHeader(x, "ic-certificate")
             v == Verify(cert, Canister, Root, Now, Offset)
             w == VerifyExchange(q, x, Canister, Root, Now, Offset, MinVerificationVersion)
  <2>1. OnItsWay(r, cert, Served) /\ (edits = 0 => IsSent(r, cert))
    BY <1>1 DEF IInv, IResponse, ToSet
  <2>2. code = IF IsStatusCode(r.status_code) THEN JsErrorCode(w) ELSE "panic"
    BY VerdictLemma
  <2>3. \A n : LastHeader(x, n) = LastHeader(r, n)
    BY DEF LastHeader
  <2>4. x.body = r.body
    OBVIOUS
  <2> HIDE DEF x
  <2>5. IsWhole(r) => IsWhole(x)
    BY <2>3, <2>4 DEF IsWhole
  <2>6. FirstField(fields, "certificate") = cert \/ fields = None \/ CertificateHeaderFrom(fields) # "Ok"
    BY <2>1, <2>3, CertificateThatCounts DEF Brings
  <2>7. v \in CertificateErrors \cup {"Ok"}
    BY VerifyAnswers
  <2>8. /\ fields = None \/ CertificateHeaderFrom(fields) # "Ok" => w \in ResponseVerificationErrors
        /\ FirstField(fields, "certificate") = cert =>
             /\ w = v \/ w \in Refusals
             /\ NothingCertified(cert) => (w = v /\ v # "Ok") \/ w \in Refusals
             /\ IsWhole(x) /\ GetPath(q) # <<>> =>
                  /\ v # "Ok" => w = v
                  /\ v = "Ok" /\ NothingCertified(cert) => w = "CertificateMissingCertifiedData"
    <3> HIDE DEF cert, q
    <3> QED
      BY ExchangeAnswers DEF fields, v, w
  <2>9. WellFormed => GetPath(q) # <<>>
    BY RequestIsKept DEF WellFormed, GetPath
  <2>10. IF builder.custom_tree = None THEN v = "Ok" <=> Trusted ELSE ~Trusted /\ NothingCertified(cert)
    <3>1. CASE builder.custom_tree = None
      BY <1>1, <3>1, TrustedPasses DEF IInv
    <3>2. CASE builder.custom_tree # None
      <4>1. builder.custom_tree \in CustomTrees
        BY <1>1, <3>2 DEF IInv, IBuilder
      <4>2. cert.tree = MixedHashTree(builder.custom_tree)
        BY <3>2, BuildLemma DEF Certificate, ContentsOf
      <4>3. NothingCertified(cert)
        BY <4>1, <4>2, BuilderAssumption DEF NothingCertified, LookupPath, MixedHashTree
      <4> QED
        BY <3>2, <4>3 DEF Trusted
    <3> QED
      BY <3>1, <3>2
  <2>11. edits = 0 => IsStatusCode(r.status_code) /\ IsWhole(x) /\ FirstField(fields, "certificate") = cert
    BY <2>1, <2>3, <2>5 DEF IsSent
  <2> HIDE DEF code, cert, q, fields, v, w
  <2>12. /\ "Ok" \notin Refusals \cup CertificateErrors
         /\ \A e \in Refusals : JsErrorCode(e) \notin {"Ok", "CertificateVerificationFailed"}
         /\ \A e \in CertificateErrors : JsErrorCode(e) = "CertificateVerificationFailed"
         /\ JsErrorCode("Ok") = "Ok"
         /\ JsErrorCode("CertificateMissingCertifiedData") = "CertificateMissingCertifiedData"
         /\ ResponseVerificationErrors \subseteq Refusals
    BY CodeLemma DEF Refusals, ResponseVerificationErrors, CertificateErrors
  <2>13. ~Trusted => code # "Ok"
    <3>1. ~Trusted => w \in Refusals \cup CertificateErrors
      BY <2>6, <2>7, <2>8, <2>10, <2>12
    <3> QED
      BY <2>2, <2>12, <3>1
  <2>14. Trusted => code # "CertificateVerificationFailed"
    <3>1. Trusted => w \in Refusals \cup {"Ok"}
      BY <2>6, <2>8, <2>10, <2>12
    <3> QED
      BY <2>2, <2>12, <3>1
  <2>15. ~Trusted /\ edits = 0 /\ WellFormed =>
           code \in {"CertificateVerificationFailed", "CertificateMissingCertifiedData"}
    <3>1. ~Trusted /\ edits = 0 /\ WellFormed => w \in CertificateErrors \cup {"CertificateMissingCertifiedData"}
      BY <2>7, <2>8, <2>9, <2>10, <2>11
    <3> QED
      BY <2>2, <2>11, <2>12, <3>1
  <2> QED
    BY <2>13, <2>14, <2>15 DEF code
<1>2. []IInv => []UntrustedIsNamed
  BY <1>1, PTL
<1> QED
  BY <1>2, ExchangeInvariant, PTL

\* Of the responses that claim version 2, verify_request_response_pair accepts just
\* those that come with the certificate of the canister, which is to be trusted, and are
\* for their expression the same as one that was certified under the place they claim:
\* for every expression, request and response, the hashes agree if and only if the
\* status, the body, the method, the certified parameters and every header that counts
\* do, each as often; and however often headers are added, dropped, moved or respelt,
\* nothing else makes a difference.
THEOREM AcceptedExactlyHolds ==
  ASSUME MarkersApart
  PROVE  Spec => []AcceptedExactly
<1>1. IInv => AcceptedExactly
  BY AcceptedLemma
<1>2. []IInv => []AcceptedExactly
  BY <1>1, PTL
<1> QED
  BY <1>2, ExchangeInvariant, PTL

\* What verify_request_response_pair hands on of a response that it accepts is what was
\* certified: of version 2 status, body and just the headers that count, each as often as
\* it was certified and in whatever order and spelling they came; of version 1 the body,
\* as it is or decoded; and nothing that came with it.
THEOREM ReturnedIsCertifiedHolds ==
  ASSUME MarkersApart, LoweredOnce
  PROVE  Spec => []ReturnedIsCertified
<1>1. ASSUME IInv
      PROVE  ReturnedIsCertified
  <2> SUFFICES ASSUME NEW r \in ToSet(response), Accepted(r),
                      NEW out, out = Verdict(r).info.response, out # None
               PROVE  IF Claims(r, 1)
                      THEN /\ out.headers = <<>> /\ "statusCode" \notin DOMAIN out
                           /\ \E p \in {PathOf, IndexPath} \cap DOMAIN Bodies :
                                Bodies[p] \in {out.body} \cup Inflate(out.body, LastHeader(r, "content-encoding"))
                      ELSE \E c \in Represented(r) : IsOfCase(out, c)
    BY DEF ReturnedIsCertified, IsOfCase
  <2>1. CASE Claims(r, 1)
    <3>1. out = [body |-> r.body, headers |-> <<>>]
      BY <1>1, <2>1, Returned1Lemma
    <3>2. out.headers = <<>> /\ out.body = r.body /\ "statusCode" \notin DOMAIN out
      BY <3>1
    <3>3. \E p \in {PathOf, IndexPath} \cap DOMAIN Bodies :
            Bodies[p] \in {r.body} \cup Inflate(r.body, LastHeader(r, "content-encoding"))
      BY <1>1, <2>1, Returned1Lemma
    <3> QED
      BY <2>1, <3>2, <3>3
  <2>2. CASE ~Claims(r, 1)
    <3>1. Claims(r, 2)
      <4> DEFINE x == [status_code |-> r.status_code, headers |-> r.headers, body |-> r.body, upgrade |-> <<>>]
      <4>1. VerifyExchange(RequestFromJs(request), x, Canister, Root, Now, Offset, MinVerificationVersion) = "Ok"
        BY PassesLemma
      <4>2. LastHeader(x, "ic-certificate") = LastHeader(r, "ic-certificate")
        BY DEF LastHeader
      <4> HIDE DEF x
      <4> QED
        BY <2>2, <4>1, <4>2, VersionLemma DEF Claims
    <3> QED
      BY <1>1, <2>2, <3>1, Returned2Lemma
  <2> QED
    BY <2>1, <2>2
<1>2. []IInv => []ReturnedIsCertified
  BY <1>1, PTL
<1> QED
  BY <1>2, ExchangeInvariant, PTL

\* What a canister certified it can serve, whatever it certified: under a certificate that
\* is to be trusted verify_request_response_pair accepts the certified response however
\* its headers are ordered, a response to skip and, unless its witness leaves too much
\* out, a body of version 1.
THEOREM CertifiedVerifiesHolds ==
  ASSUME MarkersApart
  PROVE  Spec => []CertifiedVerifies
<1>1. ASSUME IInv
      PROVE  CertifiedVerifies
  <2> SUFFICES ASSUME Trusted, NEW r \in ToSet(response)
               PROVE  /\ edits = 0 /\ Claims(r, 1) =>
                           LET tree == FirstField(LastHeader(r, "ic-certificate"), "tree").http_assets
                           IN  (\A p \in {PathOf, IndexPath} : LookupAsset(tree, p).kind \in {"Found", "Absent"})
                                 => Accepted(r)
                      /\ edits = 0 /\ skips /\ WellFormed => Accepted(r)
                      /\ ~skips => \A c \in CertifiedCases :
                           /\ c.expression.kind # "Skip" /\ c.request = request
                           /\ LET certificates == {i \in DOMAIN r.headers : IsCertificate(r.headers[i])}
                              IN  /\ Cardinality(certificates) = 1
                                  /\ SameResponse(c.response,
                                                  [r EXCEPT !.headers = Restrict(@, DOMAIN @ \ certificates)])
                           /\ Claims(r, 2)
                           /\ FirstField(LastHeader(r, "ic-certificate"), "certificate") = Certificate
                           /\ FirstField(LastHeader(r, "ic-certificate"), "expr_path") = Place(c.path)
                           => Accepted(r)
    BY DEF CertifiedVerifies
  <2>1. edits = 0 /\ Claims(r, 1) =>
          LET tree == FirstField(LastHeader(r, "ic-certificate"), "tree").http_assets
          IN  (\A p \in {PathOf, IndexPath} : LookupAsset(tree, p).kind \in {"Found", "Absent"}) => Accepted(r)
    BY <1>1, BodyVerifies
  <2>2. edits = 0 /\ skips /\ WellFormed => Accepted(r)
    BY <1>1, SkippedVerifies
  <2>3. ASSUME ~skips, NEW c \in CertifiedCases, c.expression.kind # "Skip", c.request = request,
               NEW certificates, certificates = {i \in DOMAIN r.headers : IsCertificate(r.headers[i])},
               SameResponse(c.response, [r EXCEPT !.headers = Restrict(@, DOMAIN @ \ certificates)]),
               Claims(r, 2), FirstField(LastHeader(r, "ic-certificate"), "certificate") = Certificate,
               FirstField(LastHeader(r, "ic-certificate"), "expr_path") = Place(c.path)
        PROVE  Accepted(r)
    <3>1. DOMAIN r.headers \ certificates = OtherThanCertificates(r)
      BY <2>3 DEF OtherThanCertificates
    <3>2. SameResponse(c.response, [r EXCEPT !.headers = Restrict(@, OtherThanCertificates(r))])
      BY <2>3, <3>1
    <3> QED
      BY <1>1, <2>3, <3>2, EqualVerifies
  <2> QED
    BY <2>1, <2>2, <2>3
<1>2. []IInv => []CertifiedVerifies
  BY <1>1, PTL
<1> QED
  BY <1>2, ExchangeInvariant, PTL
=============================================================================
