------------------------- MODULE AssetCanisterProofs -------------------------
(***************************************************************************)
(* The examples that serve a site, for any builds, requests and number of  *)
(* rounds: what they answer passes the gateway, and what passes is what    *)
(* they answer.  Both follow from how the tables of a memory and its tree  *)
(* go together, which custom-assets and assets have in common.             *)
(***************************************************************************)
EXTENDS AssetCanister, UrlPathsProofs, FiniteSetTheorems

\* The strings, with the literals that the provers do not take for strings by themselves.
Str == STRING \cup {DirSeparator, "old-url"}

\* None and Garbled are no values that are sent or kept: not numbers, kinds of
\* expressions, names of encodings, records of one of the kinds there are, headers or sets
\* of certifications.
MarkersApart ==
  \A marker \in {None, Garbled} :
    /\ marker \notin Nat \cup {"Full", "ResponseOnly", "Skip", "br", "gzip"}
    /\ \A a, b, c : marker # [tree |-> a, signature |-> b, delegation |-> c]
    /\ \A a, b : marker # [segments |-> a, exact |-> b]
    /\ \A a, b : marker # [path |-> a, response |-> b]
    /\ \A a, b : marker # [response |-> a, place |-> b]
    /\ \A a, b, c, d : marker # <<a, b, c, d>>
    /\ \A a, b, S : marker # S \cup {<<a, b>>}

-----------------------------------------------------------------------------
(***************************************************************************)
(* The inductive invariant.  What a round records goes together: what was  *)
(* certified is the tree, what the canister answers passes in it, and what *)
(* passes in it is an answer of the canister.                              *)
(***************************************************************************)
Shaped(answer) ==
  /\ answer = [response |-> [status |-> answer.response.status, cel |-> answer.response.cel,
                             body |-> answer.response.body],
               place |-> [segments |-> answer.place.segments, exact |-> answer.place.exact]]
  /\ answer.response.cel \in {"Full", "ResponseOnly", "Skip"}

Best(certified, place, url) == Answers(place, url) /\ ~Outdone({pc[1] : pc \in certified}, place, url)

\* What the verification of an answer comes down to with the certificate of its tree.
Passes(q, answer, certified) ==
  /\ Best(certified, answer.place, q.url)
  /\ <<answer.place, Recomputed(q, answer.response)>> \in certified

\* The certification of a response to a GET request.
CertificationOf(response) ==
  [cel  |-> response.cel, req |-> IF response.cel = "Full" THEN "GET" ELSE None,
   resp |-> [status |-> response.status, body |-> response.body]]

Verified(r, q) ==
  LET answer == r.answers[q]
  IN  answer # None =>
        /\ Shaped(answer)
        /\ Passes(q, answer, CertifiedIn(r.tree)) <=> ~Misspelt(q, r.tree) /\ ~NotAGet(q)

Answered(r, q, pc) ==
  Best(CertifiedIn(r.tree), pc[1], q.url) =>
    \/ /\ pc[2] = Skip
       /\ Segments(q.url) = Segments(MetricsPath) \/ example = "skip-certification"
    \/ \E p \in Requests : LET answer == r.answers[p]
                           IN  /\ Alike(p, q)
                               /\ answer # None /\ Shaped(answer) /\ answer.response.cel # "Skip"
                               /\ pc = <<answer.place, CertificationOf(answer.response)>>

GoTogether(r) ==
  /\ r.data = r.tree /\ r.tree \notin {None, Garbled}
  /\ \A q \in Requests : Verified(r, q) /\ \A pc \in CertifiedIn(r.tree) : Answered(r, q, pc)

Rounds == {history[i] : i \in DOMAIN history}

IInv ==
  /\ example \in Examples
  /\ \E build \in Builds(example) : memory \in Memories(example, build)
  /\ certified_data = memory.tree
  /\ history \in Seq(Rounds) /\ Len(history) <= MaxRounds
  /\ \A r \in Rounds : GoTogether(r)

-----------------------------------------------------------------------------
(***************************************************************************)
(* The verdict.                                                            *)
(***************************************************************************)
\* A header as a canister makes it has all fields of version 2.
LEMMA WholeHeaderLemma ==
  ASSUME MarkersApart, NEW c, NEW w, NEW place,
         \A marker \in {None, Garbled} : c # marker /\ w # marker /\ place # marker
  PROVE  LET fields == CertificateHeader(c, w, place)
         IN  /\ fields # None /\ CertificateHeaderFrom(fields) = "Ok" /\ Version(fields) = 2
             /\ FirstField(fields, "expr_path") # None
<1> DEFINE fields == CertificateHeader(c, w, place)
<1>1. /\ DOMAIN fields = 1 .. 4
      /\ fields[1] = [name |-> "certificate", value |-> c]
      /\ fields[2] = [name |-> "tree", value |-> w]
      /\ fields[3] = [name |-> "expr_path", value |-> place]
      /\ fields[4] = [name |-> "version", value |-> 2]
  BY DEF CertificateHeader
<1>2. fields # None
  BY DEF MarkersApart, CertificateHeader
<1> HIDE DEF fields
<1>3. /\ {i \in DOMAIN fields : fields[i].name = "certificate"} = {1}
      /\ {i \in DOMAIN fields : fields[i].name = "tree"} = {2}
      /\ {i \in DOMAIN fields : fields[i].name = "expr_path"} = {3}
      /\ {i \in DOMAIN fields : fields[i].name = "version"} = {4}
  BY <1>1
<1>4. /\ FirstField(fields, "certificate") = c /\ FirstField(fields, "tree") = w
      /\ FirstField(fields, "expr_path") = place /\ FirstField(fields, "version") = 2
  BY <1>1, <1>3 DEF FirstField
<1>5. 2 # None /\ 2 # Garbled
  BY DEF MarkersApart
<1> QED
  BY <1>2, <1>4, <1>5 DEF CertificateHeaderFrom, FieldNames, Version, fields

\* The certificate of a round passes as long as it is fresh.
LEMMA CertificateLemma ==
  ASSUME MarkersApart, NEW S, history \in Seq(S), Len(history) <= MaxRounds, NEW round \in DOMAIN history
  PROVE  LET c == Certificate(round)
         IN  /\ \A marker \in {None, Garbled} : c # marker
             /\ Verify(c, Canister, Root, Len(history), Offset) = "Ok" <=> Fresh(round)
             /\ LookupPath(c.tree, CertifiedDataPath(Canister)) = history[round].data
<1> DEFINE c == Certificate(round)
           now == Len(history)
           contents == [p \in {TimePath, CertifiedDataPath(Canister)} |->
                          IF p = TimePath THEN round ELSE history[round].data]
<1>1. /\ c.tree = [contents |-> contents, shown |-> DOMAIN contents]
      /\ c.signature = [by |-> Root, of |-> contents] /\ c.delegation = None
      /\ \A marker \in {None, Garbled} : c # marker
  BY DEF Certificate, MarkersApart
<1>2. TimePath # CertifiedDataPath(Canister)
  BY DEF TimePath, CertifiedDataPath, Path
<1>3. LookupPath(c.tree, TimePath) = round /\ LookupPath(c.tree, CertifiedDataPath(Canister)) = history[round].data
  BY <1>1, <1>2 DEF LookupPath
<1>4. now \in Nat /\ now <= MaxU128 /\ round \in 1 .. now /\ MaxU128 \in Nat /\ Offset \in Nat
  BY LenProperties, WidthAssumption, BoundsAssumption
<1>5. round # None /\ round # Garbled
  BY <1>4 DEF MarkersApart
<1> HIDE DEF c, contents, now
<1>6. VerifyCertificateTime(c, now, Offset) = "Ok" <=> Fresh(round)
  <2>1. ~ (round > SaturatingAdd(now, Offset))
    BY <1>4 DEF SaturatingAdd
  <2>2. round < SaturatingSub(now, Offset) <=> ~Fresh(round)
    BY <1>4 DEF SaturatingSub, Fresh, now
  <2> QED
    BY <1>3, <1>5, <2>1, <2>2 DEF VerifyCertificateTime
<1>7. VerifyCertificateSignature(c, Root) = "Ok"
  BY <1>1, BoundsAssumption DEF VerifyCertificateSignature, Digest
<1>8. Verify(c, Canister, Root, now, Offset) = "Ok" <=> Fresh(round)
  BY <1>1, <1>6, <1>7 DEF Verify, SigningKey
<1> QED
  BY <1>1, <1>3, <1>8 DEF c, now

\* An answer is accepted if the certificate is fresh and for the tree, and it passes there.
LEMMA VerdictLemma ==
  ASSUME MarkersApart, NEW S, history \in Seq(S), Len(history) <= MaxRounds, NEW round \in DOMAIN history,
         NEW q, NEW answer, Shaped(answer), NEW tree, tree \notin {None, Garbled}
  PROVE  Verdict(q, answer, round, tree) = "Ok" <=>
           Fresh(round) /\ history[round].data = tree /\ Passes(q, answer, CertifiedIn(tree))
<1> DEFINE c == Certificate(round)
           fields == CertificateHeader(c, tree, answer.place)
           certified == CertifiedIn(tree)
           recomputed == Recomputed(q, answer.response)
           v2 == V2Verification(q.url, recomputed, c, tree, certified, answer.place, Canister, Root,
                                Len(history), Offset)
<1>1. /\ \A marker \in {None, Garbled} : c # marker
      /\ Verify(c, Canister, Root, Len(history), Offset) = "Ok" <=> Fresh(round)
      /\ LookupPath(c.tree, CertifiedDataPath(Canister)) = history[round].data
  BY CertificateLemma
<1>2. \A marker \in {None, Garbled} : answer.place # marker
  <2>1. answer.place = [segments |-> answer.place.segments, exact |-> answer.place.exact]
    BY DEF Shaped
  <2> QED
    BY <2>1 DEF MarkersApart
<1>3. Verdict(q, answer, round, tree) = VerifyVersion(fields, answer.response.cel, 2, "Unused", v2)
  BY DEF Verdict
<1>4. answer.response.cel # None
  BY DEF MarkersApart, Shaped
<1>5. /\ fields # None /\ CertificateHeaderFrom(fields) = "Ok" /\ Version(fields) = 2
      /\ FirstField(fields, "expr_path") # None
  BY <1>1, <1>2, WholeHeaderLemma
<1> HIDE DEF fields, v2
<1>6. Verdict(q, answer, round, tree) = v2
  BY <1>3, <1>4, <1>5 DEF VerifyVersion
<1>7. ValidateTree(Canister, c, tree) = "Ok" <=> history[round].data = tree
  BY <1>1 DEF ValidateTree
<1> HIDE DEF c
<1>8. v2 = "Ok" <=> Fresh(round) /\ history[round].data = tree /\ Passes(q, answer, certified)
  <2> HIDE DEF certified, recomputed
  <2>1. <<answer.place, recomputed>> \in certified => answer.place \in {pc[1] : pc \in certified}
    OBVIOUS
  <2>2. Passes(q, answer, certified) <=>
          /\ Answers(answer.place, q.url) /\ ~Outdone({pc[1] : pc \in certified}, answer.place, q.url)
          /\ <<answer.place, recomputed>> \in certified
    BY DEF Passes, Best, recomputed
  <2> QED
    BY <1>1, <1>7, <2>1, <2>2 DEF V2Verification, v2
<1> QED
  BY <1>6, <1>8

\* What a record that goes together has to do with the verdict.
LEMMA InvariantVerifies ==
  ASSUME MarkersApart, IInv
  PROVE  AnswersVerify
<1> SUFFICES ASSUME NEW round \in DOMAIN history, NEW q \in Requests, history[round].answers[q] # None
             PROVE  Verdict(q, history[round].answers[q], round, history[round].tree) = "Ok"
                      <=> Fresh(round) /\ ~Misspelt(q, history[round].tree) /\ ~NotAGet(q)
  BY DEF AnswersVerify
<1> DEFINE r == history[round]
           answer == r.answers[q]
<1>1. GoTogether(r)
  BY DEF IInv, Rounds
<1>2. r.data = r.tree /\ r.tree \notin {None, Garbled} /\ Verified(r, q)
  BY <1>1 DEF GoTogether
<1>3. Shaped(answer) /\ (Passes(q, answer, CertifiedIn(r.tree)) <=> ~Misspelt(q, r.tree) /\ ~NotAGet(q))
  BY <1>2 DEF Verified
<1>4. Verdict(q, answer, round, r.tree) = "Ok" <=>
        Fresh(round) /\ r.data = r.tree /\ Passes(q, answer, CertifiedIn(r.tree))
  BY <1>2, <1>3, VerdictLemma DEF IInv
<1> QED
  BY <1>2, <1>3, <1>4

\* An answer from any round that passes is an answer of the round of the certificate.
LEMMA InvariantAccepts ==
  ASSUME MarkersApart, IInv
  PROVE  AcceptedIsCurrent
<1> SUFFICES ASSUME NEW i \in DOMAIN history, NEW p0 \in Requests, history[i].answers[p0] # None,
                    NEW answer, answer = history[i].answers[p0],
                    NEW j \in DOMAIN history, NEW k \in DOMAIN history, NEW q \in Requests,
                    Verdict(q, answer, j, history[k].tree) = "Ok"
             PROVE  /\ Fresh(j)
                    /\ \/ /\ answer.response.cel = "Skip"
                          /\ Segments(q.url) = Segments(MetricsPath) \/ example = "skip-certification"
                       \/ \E p \in Requests : Alike(p, q) /\ history[j].answers[p] = answer
  BY DEF AcceptedIsCurrent
<1> DEFINE r == history[j]
           certified == CertifiedIn(r.tree)
           pc == <<answer.place, Recomputed(q, answer.response)>>
<1>1. GoTogether(history[i]) /\ GoTogether(r) /\ GoTogether(history[k])
  BY DEF IInv, Rounds
<1>2. Shaped(answer)
  BY <1>1 DEF GoTogether, Verified
<1>3. Fresh(j) /\ r.data = history[k].tree /\ Passes(q, answer, CertifiedIn(history[k].tree))
  BY <1>1, <1>2, VerdictLemma DEF IInv, GoTogether
<1>4. r.tree = history[k].tree
  BY <1>1, <1>3 DEF GoTogether
<1>5. Best(certified, answer.place, q.url) /\ pc \in certified
  BY <1>3, <1>4 DEF Passes
<1>6. pc[1] = answer.place /\ pc[2] = Recomputed(q, answer.response)
  OBVIOUS
<1>7. Answered(r, q, pc)
  BY <1>1, <1>5 DEF GoTogether
<1> HIDE DEF r, pc, certified
<1>8. CASE pc[2] = Skip /\ (Segments(q.url) = Segments(MetricsPath) \/ example = "skip-certification")
  <2>1. answer.response.cel = "Skip"
    BY <1>6, <1>8 DEF Recomputed, Skip
  <2> QED
    BY <1>3, <1>8, <2>1
<1>9. ASSUME NEW p \in Requests, NEW b, b = r.answers[p], Alike(p, q), b # None, Shaped(b), b.response.cel # "Skip",
             pc = <<b.place, CertificationOf(b.response)>>
      PROVE  r.answers[p] = answer
  <2>1. answer.place = b.place /\ Recomputed(q, answer.response) = CertificationOf(b.response)
    BY <1>9 DEF pc
  <2>2. answer.response.cel = b.response.cel
    BY <2>1 DEF Recomputed, CertificationOf
  <2>3. answer.response.status = b.response.status /\ answer.response.body = b.response.body
    <3>1. [status |-> answer.response.status, body |-> answer.response.body] =
            [status |-> b.response.status, body |-> b.response.body]
      BY <1>9, <2>1, <2>2 DEF Recomputed, CertificationOf
    <3> QED
      BY <3>1
  <2> QED
    BY <1>2, <1>9, <2>1, <2>2, <2>3 DEF Shaped
<1>10. \/ pc[2] = Skip /\ (Segments(q.url) = Segments(MetricsPath) \/ example = "skip-certification")
       \/ \E p \in Requests : LET b == r.answers[p]
                              IN  /\ Alike(p, q)
                                  /\ b # None /\ Shaped(b) /\ b.response.cel # "Skip"
                                  /\ pc = <<b.place, CertificationOf(b.response)>>
  BY <1>5, <1>6, <1>7 DEF Answered, certified
<1> QED
  BY <1>3, <1>8, <1>9, <1>10 DEF r

-----------------------------------------------------------------------------
(***************************************************************************)
(* Sites.  The responses that a memory of custom-assets and of assets      *)
(* offers: each for a URL path as the tree spells it or for the wildcard   *)
(* of the site, in one encoding, with one that is plain beside it.         *)
(***************************************************************************)
IsSite(offers, W, cel) ==
  /\ \A o \in offers :
       /\ o.path = [exact |-> o.path.exact, url |-> o.path.url] /\ o.path.exact \in BOOLEAN
       /\ o.path.url \in Seq(Str)
       /\ IF o.path.exact THEN Spelt(o.path.url) /\ o.path.url # MetricsPath ELSE o.path.url = W
       /\ o.encoding \in {None, "br", "gzip"}
       /\ o.response = [status |-> o.response.status, cel |-> cel, body |-> o.response.body]
       /\ \E p \in offers : p.path = o.path /\ p.encoding = None
  /\ \A o, p \in offers : o.path = p.path /\ o.encoding = p.encoding => o = p

SiteTree(offers) ==
  {<<MetricsPlace, Skip>>} \cup {<<Place(o.path), CertificationOf(o.response)>> : o \in offers}

\* The offer under a path that goes with the encodings accepted.
Offered(offers, path, accept) ==
  LET Has(e) == \E o \in offers : o.path = path /\ o.encoding = e
      best == IF "br" \in accept /\ Has("br") THEN "br"
              ELSE IF "gzip" \in accept /\ Has("gzip") THEN "gzip" ELSE None
  IN  {o \in offers : o.path = path /\ o.encoding = best}

ExactPath(url) == [exact |-> TRUE, url |-> url]
WildPath(url)  == [exact |-> FALSE, url |-> url]

\* What a site answers to a request: what it offers for its URL path, or else for all.
Serves(offers, W, q, answer) ==
  LET IsFrom(path) == \E o \in Offered(offers, path, q.accept) :
                        answer = [response |-> o.response, place |-> Place(path)]
  IN  CASE q.url = MetricsPath ->
             \E status, body : answer = [response |-> [status |-> status, cel |-> "Skip", body |-> body],
                                         place |-> MetricsPlace]
        [] q.url # MetricsPath /\ (\E o \in offers : o.path = ExactPath(q.url)) -> IsFrom(ExactPath(q.url))
        [] q.url # MetricsPath /\ ~ (\E o \in offers : o.path = ExactPath(q.url)) ->
             IF (\E o \in offers : o.path = WildPath(W)) /\ Covers(Segments(W), Segments(q.url))
             THEN IsFrom(WildPath(W)) ELSE answer = None

LEMMA PairOfSegments ==
  ASSUME NEW a, NEW b
  PROVE  <<a>> \o <<b>> = <<a, b>>
<1> DEFINE S == {a, b}
           pair == <<a, b>>
           cat  == <<a>> \o <<b>>
<1>1. /\ <<a>> \in Seq(S) /\ <<b>> \in Seq(S) /\ Len(<<a>>) = 1 /\ Len(<<b>>) = 1
      /\ <<a>>[1] = a /\ <<b>>[1] = b
  OBVIOUS
<1>2. pair \in Seq(S) /\ Len(pair) = 2 /\ pair[1] = a /\ pair[2] = b
  OBVIOUS
<1>3. /\ cat \in Seq(S) /\ Len(cat) = 2
      /\ \A i \in 1 .. 2 : cat[i] = IF i <= 1 THEN <<a>>[i] ELSE <<b>>[i - 1]
  BY <1>1, ConcatProperties
<1> HIDE DEF pair, cat
<1>4. \A i \in 1 .. Len(cat) : cat[i] = pair[i]
  BY <1>1, <1>2, <1>3
<1> HIDE DEF S
<1>5. cat = pair
  BY <1>2, <1>3, <1>4, SeqEqual
<1> QED
  BY <1>5 DEF pair, cat

LEMMA MetricsLemma ==
  /\ Segments(MetricsPath) = <<"metrics">> /\ Spelt(MetricsPath)
  /\ MetricsPlace = [segments |-> Segments(MetricsPath), exact |-> TRUE]
<1>1. MetricsPath = <<DirSeparator>> \o <<"metrics">>
  BY PairOfSegments DEF MetricsPath, DirSeparator
<1>2. <<"metrics">> \in Seq({"metrics"} \ {DirSeparator})
  BY DEF DirSeparator
<1>3. Segments(MetricsPath) = <<"metrics">>
  BY <1>1, <1>2, NamesAreSpelt
<1> QED
  BY <1>1, <1>3 DEF Spelt, MetricsPlace, Place

\* What is certified at the places of a site.
LEMMA SitePlaces ==
  ASSUME NEW offers, NEW W, NEW cel, IsSite(offers, W, cel), NEW pc \in SiteTree(offers)
  PROVE  \/ pc[1] = MetricsPlace /\ pc[2] = Skip
         \/ \E o \in offers : /\ pc = <<Place(o.path), CertificationOf(o.response)>>
                              /\ pc[1] = Place(o.path) /\ pc[2] = CertificationOf(o.response)
                              /\ pc[1].exact = o.path.exact /\ pc[1].segments = Segments(o.path.url)
<1>1. \A a, b : <<a, b>>[1] = a /\ <<a, b>>[2] = b
  OBVIOUS
<1>2. CASE pc = <<MetricsPlace, Skip>>
  BY <1>1, <1>2, Zenon
<1>3. ASSUME NEW o \in offers, pc = <<Place(o.path), CertificationOf(o.response)>>
      PROVE  /\ pc[1] = Place(o.path) /\ pc[2] = CertificationOf(o.response)
             /\ pc[1].exact = o.path.exact /\ pc[1].segments = Segments(o.path.url)
  <2>1. pc[1] = Place(o.path) /\ pc[2] = CertificationOf(o.response)
    BY <1>1, <1>3, Zenon
  <2> QED
    BY <2>1 DEF Place
<1> QED
  BY <1>2, <1>3 DEF SiteTree

\* The wildcard of a site is outdone by what is certified exactly only.
LEMMA WildcardOutdone ==
  ASSUME NEW offers, NEW W \in Seq(Str), NEW cel, IsSite(offers, W, cel), NEW place, ~place.exact,
         place.segments = Segments(W), NEW url
  PROVE  Outdone({pc[1] : pc \in SiteTree(offers)}, place, url) <=>
           \E pc \in SiteTree(offers) : pc[1].exact /\ pc[1].segments = Segments(url)
<1> DEFINE places == {pc[1] : pc \in SiteTree(offers)}
<1>1. ~MoreSpecific(Segments(W), Segments(W))
  <2>1. Len(Names(Segments(W))) \in Nat
    BY SegmentsLemma, NamesLemma DEF Str
  <2> QED
    BY <2>1 DEF MoreSpecific
<1>2. \A pc \in SiteTree(offers) : ~pc[1].exact => pc[1].segments = Segments(W)
  <2> SUFFICES ASSUME NEW pc \in SiteTree(offers), ~pc[1].exact
               PROVE  pc[1].segments = Segments(W)
    OBVIOUS
  <2>1. pc[1] # MetricsPlace
    BY MetricsLemma
  <2>2. PICK o \in offers : pc[1].exact = o.path.exact /\ pc[1].segments = Segments(o.path.url)
    BY <2>1, SitePlaces
  <2> QED
    BY <2>2 DEF IsSite
<1>3. \A d \in places : ~ (~d.exact /\ MoreSpecific(d.segments, place.segments))
  BY <1>1, <1>2
<1>4. (\E d \in places : d.exact /\ d.segments = Segments(url)) <=>
        \E pc \in SiteTree(offers) : pc[1].exact /\ pc[1].segments = Segments(url)
  OBVIOUS
<1> HIDE DEF places
<1> QED
  BY <1>3, <1>4 DEF Outdone, places

\* Who asks for a place as it is spelt asks for what is offered there.
LEMMA SpeltIsOffered ==
  ASSUME NEW offers, NEW W, NEW cel, IsSite(offers, W, cel), NEW pc \in SiteTree(offers), pc[1].exact,
         NEW url, url = <<"">> \o pc[1].segments
  PROVE  url = MetricsPath \/ \E o \in offers : o.path = ExactPath(url)
<1>1. CASE pc[1] = MetricsPlace
  <2>1. url = <<"">> \o Segments(MetricsPath)
    <3>1. MetricsPlace.segments = Segments(MetricsPath)
      BY MetricsLemma
    <3> QED
      BY <1>1, <3>1, Zenon
  <2>2. MetricsPath = <<"">> \o Segments(MetricsPath)
    BY MetricsLemma DEF Spelt, DirSeparator
  <2> QED
    BY <2>1, <2>2
<1>2. CASE \E o \in offers : pc[1].exact = o.path.exact /\ pc[1].segments = Segments(o.path.url)
  <2>1. PICK o \in offers : pc[1].exact = o.path.exact /\ pc[1].segments = Segments(o.path.url)
    BY <1>2
  <2>2. o.path.exact = TRUE /\ o.path = [exact |-> o.path.exact, url |-> o.path.url] /\ Spelt(o.path.url)
    BY <2>1 DEF IsSite
  <2>3. o.path.url = <<"">> \o Segments(o.path.url)
    BY <2>2 DEF Spelt, DirSeparator
  <2> QED
    BY <2>1, <2>2, <2>3 DEF ExactPath
<1> QED
  BY <1>1, <1>2, SitePlaces

\* For each offer there is a request that is answered with it, alike to any request
\* that the offer is the best for.
LEMMA OfferIsAnswered ==
  ASSUME MarkersApart, NEW offers, NEW W, NEW cel, IsSite(offers, W, cel), NEW o \in offers,
         NEW accept, Preferred(accept) = o.encoding
  PROVE  Offered(offers, o.path, accept) = {o}
<1> DEFINE Has(e) == \E x \in offers : x.path = o.path /\ x.encoding = e
           best == IF "br" \in accept /\ Has("br") THEN "br"
                   ELSE IF "gzip" \in accept /\ Has("gzip") THEN "gzip" ELSE None
<1>1. "br" # None /\ "gzip" # None
  BY DEF MarkersApart
<1>2. Has(o.encoding)
  OBVIOUS
<1>3. best = o.encoding
  BY <1>1, <1>2 DEF Preferred
<1>4. Offered(offers, o.path, accept) = {x \in offers : x.path = o.path /\ x.encoding = best}
  BY DEF Offered
<1> HIDE DEF best, Has
<1> QED
  BY <1>3, <1>4 DEF IsSite

\* An answer from an offer has the certification of the offer, for a GET request.
LEMMA OfferShaped ==
  ASSUME NEW offers, NEW W, NEW cel, cel \in {"Full", "ResponseOnly"}, IsSite(offers, W, cel), NEW o \in offers
  PROVE  Shaped([response |-> o.response, place |-> Place(o.path)]) /\ o.response.cel = cel
<1> DEFINE answer == [response |-> o.response, place |-> Place(o.path)]
<1>1. o.response = [status |-> o.response.status, cel |-> cel, body |-> o.response.body]
  BY DEF IsSite
<1>2. answer.response = o.response /\ answer.place = Place(o.path) /\ o.response.cel = cel
  BY <1>1
<1>3. answer.place = [segments |-> answer.place.segments, exact |-> answer.place.exact]
  BY <1>2 DEF Place
<1>4. answer = [response |-> answer.response, place |-> answer.place]
  OBVIOUS
<1> HIDE DEF answer
<1> QED
  BY <1>1, <1>2, <1>3, <1>4 DEF Shaped, answer

LEMMA OfferCertified ==
  ASSUME NEW offers, NEW W, NEW cel, cel \in {"Full", "ResponseOnly"}, IsSite(offers, W, cel), NEW o \in offers,
         NEW q
  PROVE  <<Place(o.path), Recomputed(q, o.response)>> \in SiteTree(offers) <=> (cel = "Full" => q.method = "GET")
<1>1. o.response.cel = cel
  BY OfferShaped
<1>2. <<Place(o.path), CertificationOf(o.response)>> \in SiteTree(offers)
  BY DEF SiteTree
<1>3. ASSUME cel = "Full" => q.method = "GET"
      PROVE  Recomputed(q, o.response) = CertificationOf(o.response)
  BY <1>1, <1>3 DEF Recomputed, CertificationOf
<1>4. ASSUME cel = "Full", <<Place(o.path), Recomputed(q, o.response)>> \in SiteTree(offers)
      PROVE  q.method = "GET"
  <2> DEFINE c == Recomputed(q, o.response)
  <2>1. c.cel = "Full" /\ c.req = q.method
    BY <1>1, <1>4 DEF Recomputed
  <2>2. PICK x \in offers : c = CertificationOf(x.response)
    <3>1. c # Skip
      BY <2>1 DEF Skip
    <3> HIDE DEF c
    <3>2. <<Place(o.path), c>>[2] = c
      OBVIOUS
    <3>3. <<Place(o.path), c>> \in SiteTree(offers)
      BY <1>4 DEF c
    <3> QED
      BY <3>1, <3>2, <3>3, SitePlaces
  <2>3. x.response.cel = cel
    BY OfferShaped
  <2>4. c.req = "GET"
    BY <1>4, <2>2, <2>3 DEF CertificationOf
  <2> QED
    BY <2>1, <2>4
<1> QED
  BY <1>2, <1>3, <1>4

\* Who asks may ask for it in another encoding, and as it is spelt.
LEMMA OtherRequests ==
  ASSUME NEW q \in Requests
  PROVE  /\ \A e \in {None, "br", "gzip"} : \E p \in Requests :
              p.method = q.method /\ p.url = q.url /\ Preferred(p.accept) = e
         /\ \A e \in {None, "br", "gzip"} : \E p \in Requests :
              p.method = q.method /\ p.url = <<"">> \o Segments(q.url) /\ Preferred(p.accept) = e
<1>1. ASSUME NEW r \in Requests, NEW e \in {None, "br", "gzip"}
      PROVE  \E p \in Requests : p.method = r.method /\ p.url = r.url /\ Preferred(p.accept) = e
  <2>1. e \in {"br", "gzip", None}
    OBVIOUS
  <2>2. PICK p \in Requests : p = [r EXCEPT !.accept = p.accept] /\ Preferred(p.accept) = e
    BY <2>1, RequestAssumption, Zenon
  <2>3. r = [method |-> r.method, url |-> r.url, accept |-> r.accept, range |-> None]
    BY RequestAssumption, Zenon
  <2>4. p.method = r.method /\ p.url = r.url
    BY <2>2, <2>3
  <2> QED
    BY <2>2, <2>4
<1> DEFINE s == [q EXCEPT !.url = <<"">> \o Segments(q.url)]
<1>2. s \in Requests
  BY RequestAssumption, Zenon
<1>3. q = [method |-> q.method, url |-> q.url, accept |-> q.accept, range |-> None]
  BY RequestAssumption, Zenon
<1>4. s.method = q.method /\ s.url = <<"">> \o Segments(q.url)
  BY <1>3
<1> HIDE DEF s
<1>5. \A e \in {None, "br", "gzip"} : \E p \in Requests :
        p.method = s.method /\ p.url = s.url /\ Preferred(p.accept) = e
  BY <1>1, <1>2, Zenon
<1>6. \A e \in {None, "br", "gzip"} : \E p \in Requests :
        p.method = q.method /\ p.url = <<"">> \o Segments(q.url) /\ Preferred(p.accept) = e
  BY <1>4, <1>5, Zenon
<1>7. \A e \in {None, "br", "gzip"} : \E p \in Requests :
        p.method = q.method /\ p.url = q.url /\ Preferred(p.accept) = e
  BY <1>1, Zenon
<1> QED
  BY <1>6, <1>7

\* A tree of an example, the certifications of which are those of a site.
IsTreeOf(tree, offers) ==
  /\ CertifiedIn(tree) = SiteTree(offers)
  /\ {pc[1] : pc \in tree} = {pc[1] : pc \in SiteTree(offers)}

\* What a site answers passes, but for what is misspelt and what is not for GET.
LEMMA SiteVerifies ==
  ASSUME MarkersApart, NEW offers, NEW W \in Seq(Str), NEW cel \in {"Full", "ResponseOnly"}, IsSite(offers, W, cel),
         cel = "Full" <=> example = "assets",
         NEW r, IsTreeOf(r.tree, offers),
         NEW q \in Requests, Serves(offers, W, q, r.answers[q])
  PROVE  Verified(r, q)
<1>0. ASSUME NEW o \in offers
      PROVE  <<Place(o.path), Recomputed(q, o.response)>> \in SiteTree(offers) <=> (cel = "Full" => q.method = "GET")
  <2>1. cel \in {"Full", "ResponseOnly"}
    OBVIOUS
  <2> QED
    BY ONLY <2>1, OfferCertified, IsSite(offers, W, cel), o \in offers
<1> DEFINE answer == r.answers[q]
           tree == SiteTree(offers)
<1>1. SUFFICES ASSUME answer # None
               PROVE  Shaped(answer) /\ (Passes(q, answer, tree) <=> ~Misspelt(q, r.tree) /\ ~NotAGet(q))
  BY DEF Verified, IsTreeOf
<1>2. Misspelt(q, r.tree) <=> \E pc \in tree : /\ pc[1].exact /\ pc[1].segments = Segments(q.url)
                                               /\ q.url # <<"">> \o pc[1].segments
  <2> DEFINE Bad(p) == p.exact /\ p.segments = Segments(q.url) /\ q.url # <<"">> \o p.segments
  <2>1. Misspelt(q, r.tree) <=> \E p \in {pc[1] : pc \in r.tree} : Bad(p)
    BY DEF Misspelt
  <2>2. Misspelt(q, r.tree) <=> \E p \in {pc[1] : pc \in tree} : Bad(p)
    BY <2>1 DEF IsTreeOf
  <2> QED
    BY <2>2
<1>3. CASE q.url = MetricsPath
  <2>1. PICK status, body : answer = [response |-> [status |-> status, cel |-> "Skip", body |-> body],
                                      place |-> MetricsPlace]
    BY <1>3 DEF Serves
  <2>2. MetricsPlace = [segments |-> Segments(MetricsPath), exact |-> TRUE]
    BY MetricsLemma
  <2>3. answer.response.cel = "Skip" /\ answer.place = MetricsPlace
    BY <2>1
  <2>4. Shaped(answer)
    <3>1. answer.response = [status |-> answer.response.status, cel |-> answer.response.cel,
                             body |-> answer.response.body]
      BY <2>1
    <3>2. answer = [response |-> answer.response, place |-> answer.place]
      BY <2>1
    <3> HIDE DEF answer
    <3> QED
      BY <2>2, <2>3, <3>1, <3>2 DEF Shaped
  <2> HIDE DEF answer
  <2>5. Passes(q, answer, tree)
    <3>1. Recomputed(q, answer.response) = Skip
      BY <2>3 DEF Recomputed, Skip
    <3>2. <<MetricsPlace, Skip>> \in tree
      BY DEF SiteTree
    <3>3. Answers(MetricsPlace, q.url) /\ ~Outdone({pc[1] : pc \in tree}, MetricsPlace, q.url)
      BY <1>3, <2>2 DEF Answers, Outdone
    <3> QED
      BY <2>3, <3>1, <3>2, <3>3 DEF Passes, Best
  <2>6. ~Misspelt(q, r.tree)
    BY <1>2, <1>3, MetricsLemma DEF Spelt, DirSeparator
  <2>7. ~NotAGet(q)
    BY <1>3 DEF NotAGet
  <2> QED
    BY <2>4, <2>5, <2>6, <2>7
<1>4. q.url # MetricsPath => (NotAGet(q) <=> ~ ((cel = "Full" => q.method = "GET")))
  BY DEF NotAGet
<1>5. CASE q.url # MetricsPath /\ \E o \in offers : o.path = ExactPath(q.url)
  <2>1. PICK o \in offers : o.path = ExactPath(q.url) /\ answer = [response |-> o.response, place |-> Place(o.path)]
    BY <1>5 DEF Serves, Offered
  <2>2. o.path.exact = TRUE /\ o.path.url = q.url
    BY <2>1 DEF ExactPath
  <2>3. answer.place = Place(o.path) /\ answer.response = o.response
    BY <2>1
  <2>4. /\ Shaped(answer)
        /\ <<answer.place, Recomputed(q, answer.response)>> \in tree <=> (cel = "Full" => q.method = "GET")
    <3>1. Shaped([response |-> o.response, place |-> Place(o.path)])
      BY OfferShaped
    <3>2. <<Place(o.path), Recomputed(q, o.response)>> \in SiteTree(offers) <=> (cel = "Full" => q.method = "GET")
      BY <1>0
    <3> QED
      BY <2>1, <2>3, <3>1, <3>2
  <2> HIDE DEF answer
  <2>5. Best(tree, answer.place, q.url)
    BY <2>2, <2>3 DEF Best, Answers, Outdone, Place
  <2>6. ~Misspelt(q, r.tree)
    <3>1. Spelt(q.url)
      BY <2>2 DEF IsSite
    <3> QED
      BY <1>2, <3>1 DEF Spelt, DirSeparator
  <2> QED
    BY <1>4, <1>5, <2>4, <2>5, <2>6 DEF Passes
<1>6. CASE q.url # MetricsPath /\ ~ \E o \in offers : o.path = ExactPath(q.url)
  <2>1. Covers(Segments(W), Segments(q.url)) /\
          \E o \in offers : o.path = WildPath(W) /\ answer = [response |-> o.response, place |-> Place(o.path)]
    BY <1>1, <1>6 DEF Serves, Offered
  <2>2. PICK o \in offers : o.path = WildPath(W) /\ answer = [response |-> o.response, place |-> Place(o.path)]
    BY <2>1
  <2>3. o.path.exact = FALSE /\ o.path.url = W
    BY <2>2 DEF WildPath
  <2>4. answer.place = Place(o.path) /\ answer.response = o.response
    BY <2>2
  <2>5. /\ Shaped(answer)
        /\ <<answer.place, Recomputed(q, answer.response)>> \in tree <=> (cel = "Full" => q.method = "GET")
    <3>1. Shaped([response |-> o.response, place |-> Place(o.path)])
      BY OfferShaped
    <3>2. <<Place(o.path), Recomputed(q, o.response)>> \in SiteTree(offers) <=> (cel = "Full" => q.method = "GET")
      BY <1>0
    <3> QED
      BY <2>2, <2>4, <3>1, <3>2
  <2> HIDE DEF answer
  <2>6. answer.place.exact = FALSE /\ answer.place.segments = Segments(W)
    BY <2>3, <2>4 DEF Place
  <2>7. Outdone({pc[1] : pc \in tree}, answer.place, q.url) <=>
          \E pc \in tree : pc[1].exact /\ pc[1].segments = Segments(q.url)
    BY <2>6, WildcardOutdone
  <2>8. Outdone({pc[1] : pc \in tree}, answer.place, q.url) <=> Misspelt(q, r.tree)
    <3>1. ASSUME NEW pc \in tree, pc[1].exact, pc[1].segments = Segments(q.url)
          PROVE  q.url # <<"">> \o pc[1].segments
      BY <1>6, <3>1, SpeltIsOffered
    <3> QED
      BY <1>2, <2>7, <3>1
  <2>9. Answers(answer.place, q.url)
    BY <2>1, <2>6 DEF Answers
  <2> QED
    BY <1>4, <1>6, <2>5, <2>8, <2>9 DEF Passes, Best
<1> QED
  BY <1>3, <1>5, <1>6

\* What is the best for a request at a site is what the site answers to a request like it.
LEMMA SiteAnswers ==
  ASSUME MarkersApart, NEW offers, NEW W \in Seq(Str), NEW cel \in {"Full", "ResponseOnly"}, IsSite(offers, W, cel),
         NEW r, IsTreeOf(r.tree, offers),
         \A p \in Requests : Serves(offers, W, p, r.answers[p]),
         NEW q \in Requests, NEW pc \in SiteTree(offers)
  PROVE  Answered(r, q, pc)
<1> DEFINE tree == SiteTree(offers)
           places == {d[1] : d \in tree}
<1>1. SUFFICES ASSUME Answers(pc[1], q.url), ~Outdone(places, pc[1], q.url)
               PROVE  \/ pc[2] = Skip /\ Segments(q.url) = Segments(MetricsPath)
                      \/ \E p \in Requests : LET answer == r.answers[p]
                                             IN  /\ Alike(p, q)
                                                 /\ answer # None /\ Shaped(answer) /\ answer.response.cel # "Skip"
                                                 /\ pc = <<answer.place, CertificationOf(answer.response)>>
  BY DEF Answered, Best, IsTreeOf
<1>2. CASE pc[1] = MetricsPlace /\ pc[2] = Skip
  <2>1. MetricsPlace.exact /\ MetricsPlace.segments = Segments(MetricsPath)
    BY MetricsLemma
  <2> QED
    BY <1>1, <1>2, <2>1 DEF Answers
<1>3. ASSUME NEW o \in offers, pc = <<Place(o.path), CertificationOf(o.response)>>,
             pc[1].exact = o.path.exact, pc[1].segments = Segments(o.path.url)
      PROVE  \E p \in Requests : LET answer == r.answers[p]
                                 IN  /\ Alike(p, q)
                                     /\ answer # None /\ Shaped(answer) /\ answer.response.cel # "Skip"
                                     /\ pc = <<answer.place, CertificationOf(answer.response)>>
  <2>1. /\ o.path = [exact |-> o.path.exact, url |-> o.path.url] /\ o.path.exact \in BOOLEAN
        /\ o.encoding \in {None, "br", "gzip"}
    BY DEF IsSite
  <2>2. PICK p \in Requests : /\ Alike(p, q) /\ Preferred(p.accept) = o.encoding
                              /\ \E x \in Offered(offers, o.path, p.accept) :
                                   r.answers[p] = [response |-> x.response, place |-> Place(o.path)]
    <3>1. CASE o.path.exact
      <4>5. PICK p \in Requests : /\ p.method = q.method /\ p.url = <<"">> \o Segments(q.url)
                                  /\ Preferred(p.accept) = o.encoding
        BY <2>1, OtherRequests
      <4>6. Spelt(o.path.url) /\ o.path.url # MetricsPath /\ Segments(o.path.url) = Segments(q.url)
        BY <1>1, <1>3, <3>1 DEF IsSite, Answers
      <4>7. p.url = o.path.url
        BY <4>5, <4>6 DEF Spelt, DirSeparator
      <4>8. Alike(p, q)
        BY <4>5, <4>6, <4>7 DEF Alike
      <4>9. o.path = ExactPath(p.url)
        BY <2>1, <3>1, <4>7 DEF ExactPath
      <4>10. \E x \in Offered(offers, o.path, p.accept) :
               r.answers[p] = [response |-> x.response, place |-> Place(o.path)]
        BY <4>6, <4>7, <4>9 DEF Serves
      <4> QED
        BY <4>5, <4>8, <4>10
    <3>2. CASE ~o.path.exact
      <4>1. PICK p \in Requests : p.method = q.method /\ p.url = q.url /\ Preferred(p.accept) = o.encoding
        BY <2>1, OtherRequests
      <4>2. p.method = q.method /\ p.url = q.url
        BY <4>1
      <4>3. Alike(p, q)
        BY <4>2 DEF Alike
      <4>4. o.path = WildPath(W) /\ o.path.url = W
        BY <2>1, <3>2 DEF IsSite, WildPath
      <4>5. ~pc[1].exact /\ pc[1].segments = Segments(W)
        BY <1>3, <3>2, <4>4
      <4>6. ~ \E d \in tree : d[1].exact /\ d[1].segments = Segments(q.url)
        BY <1>1, <4>5, WildcardOutdone
      <4>7. q.url # MetricsPath
        <5>1. <<MetricsPlace, Skip>> \in tree /\ <<MetricsPlace, Skip>>[1] = MetricsPlace
          BY DEF SiteTree
        <5>2. MetricsPlace.exact = TRUE /\ MetricsPlace.segments = Segments(MetricsPath)
          BY MetricsLemma
        <5> QED
          BY <4>6, <5>1, <5>2
      <4>8. ~ \E x \in offers : x.path = ExactPath(q.url)
        <5> SUFFICES ASSUME NEW x \in offers, x.path = ExactPath(q.url)
                     PROVE  FALSE
          OBVIOUS
        <5> DEFINE d == <<Place(x.path), CertificationOf(x.response)>>
        <5>1. d \in tree /\ d[1] = Place(x.path)
          BY DEF SiteTree
        <5>2. d[1].exact = TRUE /\ d[1].segments = Segments(q.url)
          BY <5>1 DEF Place, ExactPath
        <5> HIDE DEF d
        <5> QED
          BY <4>6, <5>1, <5>2
      <4>9. Covers(Segments(W), Segments(q.url))
        BY <1>1, <4>5 DEF Answers
      <4>10. \E x \in Offered(offers, o.path, p.accept) :
               r.answers[p] = [response |-> x.response, place |-> Place(o.path)]
        <5>1. Serves(offers, W, p, r.answers[p])
          OBVIOUS
        <5> HIDE DEF tree, places
        <5> QED
          BY <4>2, <4>4, <4>7, <4>8, <4>9, <5>1 DEF Serves
      <4> QED
        BY <4>1, <4>3, <4>10
    <3> QED
      BY <2>1, <3>1, <3>2
  <2> DEFINE answer == r.answers[p]
  <2>3. answer = [response |-> o.response, place |-> Place(o.path)]
    <3>1. Offered(offers, o.path, p.accept) = {o}
      BY <2>2, OfferIsAnswered
    <3> QED
      BY <2>2, <3>1
  <2>4. answer # None
    BY <2>3 DEF MarkersApart
  <2>5. Shaped(answer) /\ o.response.cel # "Skip"
    <3>1. Shaped([response |-> o.response, place |-> Place(o.path)]) /\ o.response.cel = cel
      BY OfferShaped
    <3> QED
      BY <2>3, <3>1
  <2>6. answer.response = o.response /\ answer.place = Place(o.path)
    BY <2>3
  <2> QED
    BY <1>3, <2>2, <2>4, <2>5, <2>6
<1> QED
  BY <1>2, <1>3, SitePlaces

-----------------------------------------------------------------------------
(***************************************************************************)
(* custom-assets is a site: the wildcard is that of the index page.        *)
(***************************************************************************)
\* A file in a build has a path as the tree spells it, and not that of the metrics.
LEMMA FileLemma ==
  ASSUME NEW ex \in Examples, NEW build \in Builds(ex), NEW f \in build
  PROVE  LET url == <<"">> \o f.path
         IN  /\ f.path \in Seq(STRING \ {DirSeparator}) /\ f.path # <<>>
             /\ url \in Seq(Str) /\ Segments(url) = f.path /\ Spelt(url) /\ url # MetricsPath
<1> DEFINE url == <<"">> \o f.path
<1>1. f.path \in Seq(STRING \ {DirSeparator}) /\ f.path # <<>> /\ f.path \notin {<<"old-url">>, <<"metrics">>}
  BY BuildAssumption
<1>2. url = <<DirSeparator>> \o f.path
  BY DEF DirSeparator
<1>3. url \in Seq(Str)
  <2>1. f.path \in Seq(Str)
    BY <1>1, SeqMonotonic DEF Str
  <2>2. <<DirSeparator>> \in Seq(Str)
    BY DEF Str
  <2> QED
    BY <1>2, <2>1, <2>2, ConcatProperties
<1>4. Segments(url) = f.path
  BY <1>1, <1>2, NamesAreSpelt
<1>5. Spelt(url)
  BY <1>2, <1>4 DEF Spelt
<1>6. url # MetricsPath
  BY <1>1, <1>4, MetricsLemma
<1> QED
  BY <1>1, <1>3, <1>4, <1>5, <1>6

\* The empty string has no segments, and covers whatever is asked for.
LEMMA EmptyUrl ==
  /\ <<"">> \in Seq(Str) /\ Segments(<<"">>) = <<>>
  /\ \A url \in Seq(Str) : Covers(<<>>, Segments(url))
<1>1. <<"">> = <<DirSeparator>> \o <<>>
  <2>1. <<DirSeparator>> \in Seq({DirSeparator})
    OBVIOUS
  <2>2. <<DirSeparator>> \o <<>> = <<DirSeparator>>
    BY <2>1, ConcatEmptySeq
  <2> QED
    BY <2>2 DEF DirSeparator
<1>2. Segments(<<"">>) = <<>>
  <2>1. <<>> \in Seq({} \ {DirSeparator})
    BY EmptySeq
  <2> QED
    BY <1>1, <2>1, NamesAreSpelt
<1>3. <<"">> \in Seq(Str)
  <2>1. <<DirSeparator>> \in Seq(Str)
    BY DEF Str
  <2> QED
    BY <2>1 DEF DirSeparator
<1>4. ASSUME NEW url \in Seq(Str) PROVE Covers(<<>>, Segments(url))
  <2>1. Segments(url) \in Tidy(Str)
    BY SegmentsLemma DEF Str
  <2>2. <<>> \in Tidy(Str) /\ Len(<<>>) = 0
    BY DEF Tidy
  <2>3. ~IsDirectory(<<>>) /\ Len(Names(<<>>)) = 0
    BY <2>2 DEF IsDirectory, EndsWith, Names
  <2>4. Len(Names(Segments(url))) \in Nat
    BY <2>1, NamesLemma
  <2> QED
    BY <2>1, <2>2, <2>3, <2>4, CoversLemma
<1> QED
  BY <1>2, <1>3, <1>4

\* What is asked for begins with a slash.
LEMMA AskedLemma ==
  ASSUME NEW q \in Requests
  PROVE  q.url \in Seq(Str) /\ q.url # <<>> /\ q.url[1] = DirSeparator
<1>1. q.url \in Seq(STRING) /\ q.url # <<>> /\ q.url[1] = ""
  BY RequestAssumption, Zenon
<1>2. q.url \in Seq(Str)
  BY <1>1, SeqMonotonic DEF Str
<1> QED
  BY <1>1, <1>2 DEF DirSeparator

CustomItems(build) == CertifyIndexAsset(build) \cup UNION {CertifyAssetGlob(build, x) : x \in Extensions}

\* A file is certified under a path with a content type and a cache control.
IsSource(build, f, path, type, cache) ==
  /\ f \in build
  /\ \/ /\ f.path = IndexFile /\ path = IndexReqPath /\ type = "html" /\ cache = "no-cache"
     \/ /\ type \in Extensions /\ f.path \in Glob(type)
        /\ path = <<"">> \o f.path /\ cache = "immutable"

LEMMA ItemSource ==
  ASSUME NEW build, NEW x \in CustomItems(build)
  PROVE  \E f, path, type, cache :
           IsSource(build, f, path, type, cache) /\ x \in CertifyAsset(build, f, path, type, cache)
                                                 /\ CertifyAsset(build, f, path, type, cache) \subseteq CustomItems(build)
<1>1. CASE x \in CertifyIndexAsset(build)
  <2>1. PICK f \in build : f.path = IndexFile /\ x \in CertifyAsset(build, f, IndexReqPath, "html", "no-cache")
    BY <1>1 DEF CertifyIndexAsset
  <2>2. CertifyAsset(build, f, IndexReqPath, "html", "no-cache") \subseteq CustomItems(build)
    BY <2>1 DEF CustomItems, CertifyIndexAsset
  <2> QED
    BY <2>1, <2>2 DEF IsSource
<1>2. ASSUME NEW e \in Extensions, x \in CertifyAssetGlob(build, e)
      PROVE  \E f, path, type, cache :
               IsSource(build, f, path, type, cache) /\ x \in CertifyAsset(build, f, path, type, cache)
                                                     /\ CertifyAsset(build, f, path, type, cache) \subseteq CustomItems(build)
  <2>1. PICK f \in build : /\ f.path \in Glob(e) /\ f.path[1] = "assets"
                           /\ x \in CertifyAsset(build, f, <<"">> \o f.path, e, "immutable")
    BY <1>2 DEF CertifyAssetGlob
  <2>2. CertifyAsset(build, f, <<"">> \o f.path, e, "immutable") \subseteq CustomItems(build)
    <3>1. f \in {g \in build : g.path \in Glob(e) /\ g.path[1] = "assets"}
      BY <2>1
    <3>2. CertifyAsset(build, f, <<"">> \o f.path, e, "immutable") \subseteq CertifyAssetGlob(build, e)
      BY <3>1, Zenon DEF CertifyAssetGlob
    <3>3. CertifyAssetGlob(build, e) \subseteq CustomItems(build)
      BY Zenon DEF CustomItems
    <3> QED
      BY <3>2, <3>3
  <2> QED
    BY <2>1, <2>2 DEF IsSource
<1> QED
  BY <1>1, <1>2 DEF CustomItems

\* No two files are certified under one path.
LEMMA SourceUnique ==
  ASSUME NEW ex \in Examples, NEW build \in Builds(ex), NEW path,
         NEW f, NEW t, NEW c, IsSource(build, f, path, t, c),
         NEW g, NEW u, NEW d, IsSource(build, g, path, u, d)
  PROVE  f = g /\ t = u /\ c = d
<1>1. ASSUME NEW h, NEW v, NEW e, IsSource(build, h, path, v, e)
      PROVE  /\ path = IndexReqPath => h.path = IndexFile /\ v = "html" /\ e = "no-cache"
             /\ path # IndexReqPath => h.path = Segments(path) /\ v \in Extensions /\ h.path \in Glob(v) /\ e = "immutable"
  <2>1. h \in build
    BY <1>1 DEF IsSource
  <2>2. Segments(<<"">> \o h.path) = h.path /\ h.path # <<>>
    BY <2>1, FileLemma
  <2>3. <<"">> \o h.path # IndexReqPath
    BY <2>2, EmptyUrl DEF IndexReqPath
  <2> QED
    BY <1>1, <2>2, <2>3 DEF IsSource
<1>2. f.path = g.path
  BY <1>1
<1>3. f = g
  BY <1>2, BuildAssumption DEF IsSource
<1>4. ASSUME path # IndexReqPath PROVE t = u
  <2>1. t \in Extensions /\ u \in Extensions /\ f.path \in Glob(t) /\ f.path \in Glob(u)
    BY <1>1, <1>2, <1>4
  <2>2. f.path \in Glob(t) \cap Glob(u)
    BY <2>1
  <2> QED
    BY <2>1, <2>2, BuildAssumption
<1> QED
  BY <1>1, <1>3, <1>4

\* A file and its copies, one for each encoding.
LEMMA CopiesLemma ==
  ASSUME MarkersApart, NEW ex \in Examples, NEW build \in Builds(ex), NEW f, NEW path, NEW type, NEW cache
  PROVE  /\ \A x \in CertifyAsset(build, f, path, type, cache) : x.path = path /\ x.encoding \in {None, "br", "gzip"}
         /\ \A x \in CertifyAsset(build, f, path, type, cache) :
              x.response = [status |-> "200", cel |-> "ResponseOnly", body |-> x.response.body]
         /\ \A x, y \in CertifyAsset(build, f, path, type, cache) : x.encoding = y.encoding => x = y
         /\ \E x \in CertifyAsset(build, f, path, type, cache) : x.encoding = None
<1> DEFINE all == CertifyAsset(build, f, path, type, cache)
           Item(g, e) == [path |-> path, encoding |-> e, response |-> AssetResponse(g.content, type, cache, e)]
<1>1. all = {Item(f, None)} \cup UNION {{Item(g, e) : g \in Encoded(build, f.path, e)} : e \in {"gzip", "br"}}
  BY DEF CertifyAsset
<1> HIDE DEF all
<1>2. \A g, e : /\ Item(g, e).path = path /\ Item(g, e).encoding = e
                /\ Item(g, e).response = [status |-> "200", cel |-> "ResponseOnly", body |-> Item(g, e).response.body]
  BY DEF AssetResponse
<1>3. None \notin {"gzip", "br"}
  BY DEF MarkersApart
<1>4. \A e : \A g, h \in Encoded(build, f.path, e) : g = h
  BY BuildAssumption DEF Encoded
<1> HIDE DEF Item
<1>5. \A x \in all : \/ x = Item(f, None)
                     \/ \E e \in {"gzip", "br"} : \E g \in Encoded(build, f.path, e) : x = Item(g, e)
  BY <1>1
<1>6. \A x \in all : /\ x.path = path /\ x.encoding \in {None, "br", "gzip"}
                     /\ x.response = [status |-> "200", cel |-> "ResponseOnly", body |-> x.response.body]
  BY <1>2, <1>5
<1>7. ASSUME NEW x \in all, NEW y \in all, x.encoding = y.encoding
      PROVE  x = y
  <2>1. CASE x.encoding = None
    <3>1. x = Item(f, None)
      BY <1>2, <1>3, <1>5, <2>1
    <3>2. y.encoding = None
      BY <1>7, <2>1
    <3>3. y = Item(f, None)
      BY <1>2, <1>3, <1>5, <3>2
    <3> QED
      BY <3>1, <3>3
  <2>2. CASE x.encoding # None
    <3>1. PICK g : g \in Encoded(build, f.path, x.encoding) /\ x = Item(g, x.encoding)
      BY <1>2, <1>5, <2>2
    <3>2. PICK h : h \in Encoded(build, f.path, x.encoding) /\ y = Item(h, x.encoding)
      BY <1>2, <1>5, <1>7, <2>2
    <3> QED
      BY <1>4, <3>1, <3>2
  <2> QED
    BY <2>1, <2>2
<1>8. \E x \in all : x.encoding = None
  BY <1>1, <1>2
<1> QED
  BY <1>6, <1>7, <1>8 DEF all

LEMMA CopyPath ==
  ASSUME MarkersApart, NEW ex \in Examples, NEW build \in Builds(ex), NEW f, NEW path, NEW type, NEW cache,
         NEW x \in CertifyAsset(build, f, path, type, cache)
  PROVE  x.path = path
<1>1. \A y \in CertifyAsset(build, f, path, type, cache) : y.path = path
  BY CopiesLemma
<1> QED
  BY <1>1

LEMMA CopyDiffers ==
  ASSUME MarkersApart, NEW ex \in Examples, NEW build \in Builds(ex), NEW f, NEW path, NEW type, NEW cache,
         NEW x \in CertifyAsset(build, f, path, type, cache), NEW y \in CertifyAsset(build, f, path, type, cache),
         x.encoding = y.encoding
  PROVE  x = y
<1>1. \A v, w \in CertifyAsset(build, f, path, type, cache) : v.encoding = w.encoding => v = w
  BY CopiesLemma, Zenon
<1> QED
  BY <1>1

\* What custom-assets keeps under a path, there is one of for each encoding, and one
\* that is plain.
LEMMA ItemLemma ==
  ASSUME MarkersApart, NEW ex \in Examples, NEW build \in Builds(ex), NEW x \in CustomItems(build)
  PROVE  /\ x.encoding \in {None, "br", "gzip"}
         /\ x.response = [status |-> "200", cel |-> "ResponseOnly", body |-> x.response.body]
         /\ x.path \in Seq(Str)
         /\ x.path # IndexReqPath => Spelt(x.path) /\ x.path # MetricsPath
         /\ \E y \in CustomItems(build) : y.path = x.path /\ y.encoding = None
<1>1. PICK f, path, type, cache :
        /\ IsSource(build, f, path, type, cache) /\ x \in CertifyAsset(build, f, path, type, cache)
        /\ CertifyAsset(build, f, path, type, cache) \subseteq CustomItems(build)
  BY ItemSource
<1>2. /\ x.path = path /\ x.encoding \in {None, "br", "gzip"}
      /\ x.response = [status |-> "200", cel |-> "ResponseOnly", body |-> x.response.body]
  BY <1>1, CopiesLemma
<1>3. PICK y \in CertifyAsset(build, f, path, type, cache) : y.encoding = None
  BY <1>1, CopiesLemma
<1>4. y \in CustomItems(build) /\ y.path = x.path
  BY <1>1, <1>2, CopyPath
<1>5. path \in Seq(Str) /\ (path # IndexReqPath => Spelt(path) /\ path # MetricsPath)
  <2>1. CASE path = IndexReqPath
    BY <2>1, EmptyUrl DEF IndexReqPath
  <2>2. CASE f \in build /\ path = <<"">> \o f.path
    BY <2>2, FileLemma
  <2> QED
    BY <1>1, <2>1, <2>2 DEF IsSource
<1> QED
  BY <1>2, <1>3, <1>4, <1>5

LEMMA ItemsDiffer ==
  ASSUME MarkersApart, NEW ex \in Examples, NEW build \in Builds(ex),
         NEW x \in CustomItems(build), NEW y \in CustomItems(build), x.path = y.path, x.encoding = y.encoding
  PROVE  x = y
<1>1. PICK f, p, t, c : IsSource(build, f, p, t, c) /\ x \in CertifyAsset(build, f, p, t, c)
  BY ItemSource
<1>2. PICK g, r, u, d : IsSource(build, g, r, u, d) /\ y \in CertifyAsset(build, g, r, u, d)
  BY ItemSource
<1>3. x.path = p /\ y.path = r
  BY <1>1, <1>2, CopyPath
<1>4. r = p
  BY <1>3
<1>5. f = g /\ t = u /\ c = d
  BY <1>1, <1>2, <1>4, SourceUnique
<1>6. y \in CertifyAsset(build, f, p, t, c)
  BY <1>2, <1>4, <1>5
<1> QED
  BY <1>1, <1>6, CopyDiffers

\* The two tables as one.
LEMMA TableLemma ==
  ASSUME MarkersApart, NEW ex \in Examples, NEW build \in Builds(ex), NEW path, NEW e
  PROVE  /\ <<path, e>> \in DOMAIN CustomMemory(build).responses <=>
              \E x \in CustomItems(build) : x.path = path /\ x.encoding = e
         /\ \A x \in CustomItems(build) : x.path = path /\ x.encoding = e =>
              CustomMemory(build).responses[<<path, e>>] = x.response
<1> DEFINE items == CustomItems(build)
           keys  == {<<x.path, x.encoding>> : x \in items}
           table == [k \in keys |-> (CHOOSE x \in items : <<x.path, x.encoding>> = k).response]
<1>1. CustomMemory(build).responses = table
  BY DEF CustomMemory, CustomItems
<1> HIDE DEF items
<1>2. \A a, b, c, d : <<a, b>> = <<c, d>> <=> a = c /\ b = d
  OBVIOUS
<1>3. <<path, e>> \in keys <=> \E x \in items : x.path = path /\ x.encoding = e
  BY <1>2
<1>4. ASSUME NEW x \in items, x.path = path, x.encoding = e
      PROVE  table[<<path, e>>] = x.response
  <2> DEFINE y == CHOOSE y \in items : <<y.path, y.encoding>> = <<path, e>>
  <2>1. y \in items /\ <<y.path, y.encoding>> = <<path, e>>
    BY <1>4
  <2> HIDE DEF y
  <2>2. y.path = path /\ y.encoding = e
    BY <1>2, <2>1
  <2>3. y = x
    BY <1>4, <2>1, <2>2, ItemsDiffer DEF items
  <2>4. table[<<path, e>>] = y.response
    BY <1>3, <1>4 DEF y
  <2> QED
    BY <2>3, <2>4
<1> QED
  BY <1>1, <1>3, <1>4 DEF items

CustomPath(path) == [exact |-> path # IndexReqPath, url |-> path]

CustomOffers(build) ==
  {[path |-> CustomPath(x.path), encoding |-> x.encoding, response |-> x.response] : x \in CustomItems(build)}

LEMMA CustomSite ==
  ASSUME MarkersApart, NEW ex \in Examples, NEW build \in Builds(ex)
  PROVE  /\ IsSite(CustomOffers(build), IndexReqPath, "ResponseOnly")
         /\ CustomMemory(build).tree = SiteTree(CustomOffers(build))
<1> DEFINE offers == CustomOffers(build)
           Offer(x) == [path |-> CustomPath(x.path), encoding |-> x.encoding, response |-> x.response]
<1>1. \A x : /\ Offer(x).path = CustomPath(x.path) /\ Offer(x).encoding = x.encoding /\ Offer(x).response = x.response
             /\ Offer(x).path.exact = (x.path # IndexReqPath) /\ Offer(x).path.url = x.path
             /\ Offer(x).path = [exact |-> Offer(x).path.exact, url |-> Offer(x).path.url]
  BY DEF CustomPath
<1>2. offers = {Offer(x) : x \in CustomItems(build)}
  BY DEF CustomOffers
<1> HIDE DEF Offer, offers
<1>3. ASSUME NEW o \in offers
      PROVE  /\ o.path = [exact |-> o.path.exact, url |-> o.path.url] /\ o.path.exact \in BOOLEAN
             /\ o.path.url \in Seq(Str)
             /\ IF o.path.exact THEN Spelt(o.path.url) /\ o.path.url # MetricsPath ELSE o.path.url = IndexReqPath
             /\ o.encoding \in {None, "br", "gzip"}
             /\ o.response = [status |-> o.response.status, cel |-> "ResponseOnly", body |-> o.response.body]
             /\ \E p \in offers : p.path = o.path /\ p.encoding = None
  <2>1. PICK x \in CustomItems(build) : o = Offer(x)
    BY <1>2
  <2>2. /\ x.encoding \in {None, "br", "gzip"}
        /\ x.response = [status |-> "200", cel |-> "ResponseOnly", body |-> x.response.body]
        /\ x.path \in Seq(Str)
        /\ x.path # IndexReqPath => Spelt(x.path) /\ x.path # MetricsPath
    BY ItemLemma
  <2>3. PICK y \in CustomItems(build) : y.path = x.path /\ y.encoding = None
    BY ItemLemma
  <2>4. Offer(y) \in offers /\ Offer(y).path = o.path /\ Offer(y).encoding = None
    BY <1>1, <1>2, <2>1, <2>3
  <2>5. o.response = [status |-> o.response.status, cel |-> "ResponseOnly", body |-> o.response.body]
    <3>1. x.response.status = "200"
      BY <2>2
    <3> QED
      BY <1>1, <2>1, <2>2, <3>1
  <2> QED
    BY <1>1, <2>1, <2>2, <2>4, <2>5
<1>4. ASSUME NEW o \in offers, NEW p \in offers, o.path = p.path, o.encoding = p.encoding
      PROVE  o = p
  <2>1. PICK x \in CustomItems(build) : o = Offer(x)
    BY <1>2
  <2>2. PICK y \in CustomItems(build) : p = Offer(y)
    BY <1>2
  <2>3. x.path = y.path /\ x.encoding = y.encoding
    BY <1>1, <1>4, <2>1, <2>2
  <2>4. x = y
    BY <2>3, ItemsDiffer
  <2> QED
    BY <2>1, <2>2, <2>4
<1>5. CustomMemory(build).tree = SiteTree(offers)
  <2> DEFINE Kept(x) == <<CustomPlace(x.path), [cel |-> "ResponseOnly", req |-> None,
                             resp |-> [status |-> x.response.status, body |-> x.response.body]]>>
             Certified(o) == <<Place(o.path), CertificationOf(o.response)>>
  <2>1. CustomMemory(build).tree = {<<MetricsPlace, Skip>>} \cup {Kept(x) : x \in CustomItems(build)}
    BY DEF CustomMemory, CustomItems
  <2>2. SiteTree(offers) = {<<MetricsPlace, Skip>>} \cup {Certified(o) : o \in offers}
    BY DEF SiteTree
  <2>3. ASSUME NEW x \in CustomItems(build)
        PROVE  Kept(x) = Certified(Offer(x))
    <3>1. x.response.cel = "ResponseOnly"
      <4>1. x.response = [status |-> "200", cel |-> "ResponseOnly", body |-> x.response.body]
        BY ItemLemma
      <4> QED
        BY <4>1
    <3>2. Place(Offer(x).path) = CustomPlace(x.path)
      BY <1>1 DEF CustomPlace, CustomPath
    <3>3. CertificationOf(x.response) = [cel |-> "ResponseOnly", req |-> None,
                                         resp |-> [status |-> x.response.status, body |-> x.response.body]]
      BY <3>1 DEF CertificationOf
    <3> QED
      BY <1>1, <3>2, <3>3
  <2> HIDE DEF Kept, Certified
  <2> QED
    BY <1>2, <2>1, <2>2, <2>3
<1>6. IsSite(offers, IndexReqPath, "ResponseOnly")
  BY <1>3, <1>4 DEF IsSite
<1> QED
  BY <1>5, <1>6 DEF offers

\* What the tables have under a path they know, for the encodings accepted.
LEMMA CustomAnswer ==
  ASSUME MarkersApart, NEW ex \in Examples, NEW build \in Builds(ex), memory = CustomMemory(build),
         NEW path, \E x \in CustomItems(build) : x.path = path, NEW q, q.url # MetricsPath, path = AssetReqPath(q)
  PROVE  \E o \in Offered(CustomOffers(build), CustomPath(path), q.accept) :
           AssetHandler(q) = [response |-> o.response, place |-> Place(CustomPath(path))]
<1> DEFINE offers == CustomOffers(build)
           Has(e) == \E x \in CustomItems(build) : x.path = path /\ x.encoding = e
           best == IF "br" \in q.accept /\ Has("br") THEN "br"
                   ELSE IF "gzip" \in q.accept /\ Has("gzip") THEN "gzip" ELSE None
           Offer(x) == [path |-> CustomPath(x.path), encoding |-> x.encoding, response |-> x.response]
<1>1. \A e : <<path, e>> \in DOMAIN memory.responses <=> Has(e)
  BY TableLemma
<1>2. AssetHandler(q) = [response |-> memory.responses[<<path, best>>], place |-> CustomPlace(path)]
  BY <1>1 DEF AssetHandler
<1>3. \A e : (\E o \in offers : o.path = CustomPath(path) /\ o.encoding = e) <=> Has(e)
  <2> SUFFICES ASSUME NEW e
               PROVE  (\E o \in offers : o.path = CustomPath(path) /\ o.encoding = e) <=> Has(e)
    OBVIOUS
  <2>1. ASSUME NEW o \in offers, o.path = CustomPath(path), o.encoding = e PROVE Has(e)
    <3>1. PICK x \in CustomItems(build) : o = Offer(x)
      BY DEF CustomOffers
    <3>2. o.path.url = x.path /\ o.encoding = x.encoding /\ o.path.url = path
      BY <2>1, <3>1 DEF CustomPath
    <3> QED
      BY <2>1, <3>2
  <2>2. ASSUME NEW x \in CustomItems(build), x.path = path, x.encoding = e
        PROVE  \E o \in offers : o.path = CustomPath(path) /\ o.encoding = e
    <3>1. Offer(x) \in offers /\ Offer(x).path = CustomPath(path) /\ Offer(x).encoding = e
      BY <2>2 DEF CustomOffers
    <3> QED
      BY <3>1
  <2> QED
    BY <2>1, <2>2
<1>4. Offered(offers, CustomPath(path), q.accept) = {o \in offers : o.path = CustomPath(path) /\ o.encoding = best}
  BY <1>3 DEF Offered
<1>5. Has(None)
  BY ItemLemma
<1>6. Has(best)
  BY <1>5
<1> HIDE DEF best
<1>7. PICK x \in CustomItems(build) : x.path = path /\ x.encoding = best
  BY <1>6
<1>8. memory.responses[<<path, best>>] = x.response
  BY <1>7, TableLemma
<1>9. Offer(x) \in offers /\ Offer(x).path = CustomPath(path) /\ Offer(x).encoding = best /\ Offer(x).response = x.response
  BY <1>7 DEF CustomOffers
<1>10. CustomPlace(path) = Place(CustomPath(path))
  BY DEF CustomPlace, CustomPath
<1> HIDE DEF Offer, offers
<1>11. Offer(x) \in Offered(offers, CustomPath(path), q.accept)
  BY <1>4, <1>9
<1> QED
  BY <1>2, <1>8, <1>9, <1>10, <1>11 DEF offers

\* custom-assets serves its site.
LEMMA CustomServes ==
  ASSUME MarkersApart, NEW ex \in Examples, NEW build \in Builds(ex), memory = CustomMemory(build),
         NEW f \in build, f.path = IndexFile, NEW q \in Requests
  PROVE  Serves(CustomOffers(build), IndexReqPath, q, AssetHandler(q))
<1> DEFINE offers == CustomOffers(build)
           answer == AssetHandler(q)
           path == AssetReqPath(q)
           IsFrom(p) == \E o \in Offered(offers, p, q.accept) : answer = [response |-> o.response, place |-> Place(p)]
<1>1. CASE q.url = MetricsPath
  <2>1. answer = [response |-> CustomMetrics, place |-> MetricsPlace]
    BY <1>1 DEF AssetHandler
  <2>2. CustomMetrics = [status |-> "200", cel |-> "Skip", body |-> CustomMetrics.body]
    BY DEF CustomMetrics, AssetResponse
  <2> QED
    BY <1>1, <2>1, <2>2 DEF Serves
<1>2. ASSUME q.url # MetricsPath, \E x \in CustomItems(build) : x.path = path
      PROVE  IsFrom(CustomPath(path))
  BY <1>2, CustomAnswer
<1>3. <<q.url, None>> \in DOMAIN memory.responses <=> \E x \in CustomItems(build) : x.path = q.url /\ x.encoding = None
  BY TableLemma
<1>4. (\E o \in offers : o.path = ExactPath(q.url)) <=>
        q.url # IndexReqPath /\ \E x \in CustomItems(build) : x.path = q.url
  <2>1. \A p : CustomPath(p) = ExactPath(q.url) <=> p # IndexReqPath /\ p = q.url
    <3> SUFFICES ASSUME NEW p
                 PROVE  CustomPath(p) = ExactPath(q.url) <=> p # IndexReqPath /\ p = q.url
      OBVIOUS
    <3>1. ASSUME CustomPath(p) = ExactPath(q.url) PROVE p # IndexReqPath /\ p = q.url
      <4>1. CustomPath(p).exact = (p # IndexReqPath) /\ CustomPath(p).url = p
        BY DEF CustomPath
      <4>2. ExactPath(q.url).exact = TRUE /\ ExactPath(q.url).url = q.url
        BY DEF ExactPath
      <4> QED
        BY <3>1, <4>1, <4>2
    <3> QED
      BY <3>1 DEF CustomPath, ExactPath
  <2>2. ASSUME NEW o \in offers, o.path = ExactPath(q.url)
        PROVE  q.url # IndexReqPath /\ \E x \in CustomItems(build) : x.path = q.url
    <3>1. PICK x \in CustomItems(build) : o.path = CustomPath(x.path)
      BY DEF CustomOffers
    <3> QED
      BY <2>1, <2>2, <3>1
  <2>3. ASSUME q.url # IndexReqPath, NEW x \in CustomItems(build), x.path = q.url
        PROVE  \E o \in offers : o.path = ExactPath(q.url)
    <3> DEFINE o == [path |-> CustomPath(x.path), encoding |-> x.encoding, response |-> x.response]
    <3>1. o \in offers /\ o.path = CustomPath(x.path)
      BY DEF CustomOffers
    <3> QED
      BY <2>1, <2>3, <3>1
  <2> QED
    BY <2>2, <2>3
<1>5. ASSUME q.url # MetricsPath, \E o \in offers : o.path = ExactPath(q.url)
      PROVE  IsFrom(ExactPath(q.url))
  <2>1. \E x \in CustomItems(build) : x.path = q.url /\ x.encoding = None
    BY <1>4, <1>5, ItemLemma
  <2>2. path = q.url
    BY <1>3, <2>1 DEF AssetReqPath
  <2>3. CustomPath(path) = ExactPath(q.url)
    BY <1>4, <1>5, <2>2 DEF CustomPath, ExactPath
  <2> QED
    BY <1>2, <1>5, <2>1, <2>2, <2>3
<1>6. \E x \in CustomItems(build) : x.path = IndexReqPath
  <2>1. PICK x \in CertifyAsset(build, f, IndexReqPath, "html", "no-cache") : x.encoding = None
    BY CopiesLemma
  <2>2. x.path = IndexReqPath
    BY CopyPath
  <2>3. x \in CertifyIndexAsset(build)
    BY DEF CertifyIndexAsset
  <2> QED
    BY <2>2, <2>3 DEF CustomItems
<1>7. ASSUME q.url # MetricsPath, ~ \E o \in offers : o.path = ExactPath(q.url)
      PROVE  /\ \E o \in offers : o.path = WildPath(IndexReqPath)
             /\ Covers(Segments(IndexReqPath), Segments(q.url))
             /\ IsFrom(WildPath(IndexReqPath))
  <2>1. path = IndexReqPath
    BY <1>3, <1>4, <1>7 DEF AssetReqPath
  <2>2. CustomPath(path) = WildPath(IndexReqPath)
    BY <2>1 DEF CustomPath, WildPath
  <2>3. \E o \in offers : o.path = WildPath(IndexReqPath)
    <3>1. PICK x \in CustomItems(build) : x.path = IndexReqPath
      BY <1>6
    <3> DEFINE o == [path |-> CustomPath(x.path), encoding |-> x.encoding, response |-> x.response]
    <3>2. o \in offers /\ o.path = CustomPath(x.path)
      BY DEF CustomOffers
    <3> QED
      BY <2>1, <2>2, <3>1, <3>2
  <2>4. Covers(Segments(IndexReqPath), Segments(q.url))
    BY AskedLemma, EmptyUrl DEF IndexReqPath
  <2> QED
    BY <1>2, <1>6, <1>7, <2>1, <2>2, <2>3, <2>4
<1> HIDE DEF offers, answer
<1>8. Serves(offers, IndexReqPath, q, answer)
  BY <1>1, <1>5, <1>7 DEF Serves, answer, offers
<1> QED
  BY <1>8 DEF offers, answer

-----------------------------------------------------------------------------
(***************************************************************************)
(* assets is a site: the wildcard is that of "/".  Its router prepares     *)
(* each file, and what is a copy of one, once for each path of the file.   *)
(***************************************************************************)
RootUrl == <<"", "">>

Batch(build) == [assets |-> build, configs |-> AssetConfigs]

Config(build, f) == Router!ConfigFor(f, Batch(build))

\* The index page is configured for "/", exactly and for all below, and no other file is.
LEMMA ConfigLemma ==
  ASSUME NEW build, NEW f
  PROVE  /\ f.path = IndexFile => Config(build, f) = AssetConfigs[1]
         /\ f.path # IndexFile => Config(build, f).fallbacks = <<>> /\ Config(build, f).aliases = <<>>
         /\ Config(build, f).encodings \in {<<>>, Encodings}
<1> DEFINE I == {i \in 1 .. Len(AssetConfigs) : Router!Matches(AssetConfigs[i], f.path)}
           c == Config(build, f)
<1>1. c = LET i == IF I # {} THEN CHOOSE x \in I : \A y \in I : x =< y ELSE 0
          IN  IF i = 0 THEN Router!NoConfig ELSE AssetConfigs[i]
  BY DEF Config, Batch, Router!ConfigFor, Router!SelectInSeq, Router!Min
<1>2. /\ Len(AssetConfigs) = 5
      /\ AssetConfigs[1].kind = "File" /\ AssetConfigs[1].path = IndexFile /\ AssetConfigs[1].encodings = Encodings
      /\ \A i \in {2, 3, 4} : /\ AssetConfigs[i].fallbacks = <<>> /\ AssetConfigs[i].aliases = <<>>
                              /\ AssetConfigs[i].encodings \in {<<>>, Encodings}
      /\ AssetConfigs[5].kind = "Redirect"
  <2>1. /\ Len(AssetConfigs) = 5
        /\ AssetConfigs[1].kind = "File" /\ AssetConfigs[1].path = IndexFile /\ AssetConfigs[1].encodings = Encodings
        /\ AssetConfigs[5].kind = "Redirect"
    BY DEF AssetConfigs
  <2>2. /\ AssetConfigs[2] = PatternConfig("js", Encodings) /\ AssetConfigs[3] = PatternConfig("css", Encodings)
        /\ AssetConfigs[4] = PatternConfig("ico", <<>>)
    BY DEF AssetConfigs
  <2>3. \A x, encodings : /\ PatternConfig(x, encodings).fallbacks = <<>> /\ PatternConfig(x, encodings).aliases = <<>>
                          /\ PatternConfig(x, encodings).encodings = encodings
    BY DEF PatternConfig
  <2> QED
    BY <2>1, <2>2, <2>3
<1>3. I \in SUBSET (1 .. 5) /\ (1 \in I <=> f.path = IndexFile) /\ 5 \notin I
  <2>1. Router!Matches(AssetConfigs[1], f.path) <=> AssetConfigs[1].path = f.path
    BY <1>2 DEF Router!Matches
  <2>2. ~Router!Matches(AssetConfigs[5], f.path)
    BY <1>2 DEF Router!Matches
  <2> QED
    BY <1>2, <2>1, <2>2
<1> HIDE DEF I, c
<1>4. CASE I # {}
  <2>1. \E x \in I : \A y \in I : x =< y
    BY <1>3, <1>4, SmallestExists
  <2> DEFINE i == CHOOSE x \in I : \A y \in I : x =< y
  <2>2. i \in I /\ \A y \in I : i =< y
    BY <2>1
  <2> HIDE DEF i
  <2>5. c = AssetConfigs[i]
    <3>1. i # 0
      BY <1>3, <2>2
    <3> QED
      BY <1>1, <1>4, <3>1 DEF i
  <2>3. f.path = IndexFile => i = 1
    BY <1>3, <2>2
  <2>4. f.path # IndexFile => i \in {2, 3, 4}
    BY <1>3, <2>2
  <2> QED
    BY <1>2, <2>3, <2>4, <2>5 DEF c
<1>5. CASE I = {}
  BY <1>1, <1>3, <1>5 DEF Router!NoConfig, c
<1> QED
  BY <1>4, <1>5

\* The paths a file is prepared for.
FilePaths(f) ==
  {ExactPath(<<"">> \o f.path)} \cup IF f.path = IndexFile THEN {ExactPath(RootUrl), WildPath(RootUrl)} ELSE {}

\* What is prepared for a path with a content and an encoding.
Prepared(path, content, c, encoding) ==
  IF path.exact THEN Router!PrepareStatic(path.url, content, c, encoding, None)
  ELSE Router!PrepareFallback([scope |-> path.url, status |-> "200"], content, c, encoding)

LEMMA PreparedLemma ==
  ASSUME NEW f, NEW path \in FilePaths(f), NEW content, NEW c, NEW encoding
  PROVE  LET x == Prepared(path, content, c, encoding)
         IN  /\ x = [path |-> x.path, response |-> x.response]
             /\ x.path = path /\ x.response.encoding = encoding /\ x.response.range = None
             /\ path = [exact |-> path.exact, url |-> path.url] /\ path.exact \in BOOLEAN
<1>1. path = [exact |-> path.exact, url |-> path.url] /\ path.exact \in BOOLEAN
  <2>1. \A url : /\ ExactPath(url) = [exact |-> TRUE, url |-> url] /\ WildPath(url) = [exact |-> FALSE, url |-> url]
                 /\ ExactPath(url).exact = TRUE /\ WildPath(url).exact = FALSE
                 /\ ExactPath(url).url = url /\ WildPath(url).url = url
    BY DEF ExactPath, WildPath
  <2>2. \E url : path \in {ExactPath(url), WildPath(url)}
    BY DEF FilePaths
  <2> QED
    BY <2>1, <2>2
<1>2. CASE path.exact
  BY <1>1, <1>2 DEF Prepared, Router!PrepareStatic, Router!PrepareResponse
<1>3. CASE ~path.exact
  BY <1>1, <1>3 DEF Prepared, Router!PrepareFallback, Router!PrepareResponse
<1> QED
  BY <1>1, <1>2, <1>3

\* No file is in chunks.
LEMMA StaticLemma ==
  ASSUME NEW url, NEW content, NEW c, NEW encoding
  PROVE  Router!StaticItems(url, content, c, encoding) = {Prepared(ExactPath(url), content, c, encoding)}
<1>1. ~Router!IsLarge(content)
  BY DEF Router!IsLarge, OneChunk
<1>2. Router!StaticItems(url, content, c, encoding) = {Router!PrepareStatic(url, content, c, encoding, None)}
  BY <1>1 DEF Router!StaticItems
<1> QED
  BY <1>2 DEF Prepared, ExactPath

LEMMA VariantLemma ==
  ASSUME NEW ex \in Examples, NEW build \in Builds(ex), NEW f \in build, NEW content, NEW encoding
  PROVE  Router!VariantItems(Router!PathToUrl(f.path), content, Config(build, f), encoding) =
           {Prepared(path, content, Config(build, f), encoding) : path \in FilePaths(f)}
<1> DEFINE c == Config(build, f)
           P(path) == Prepared(path, content, c, encoding)
           url == <<"">> \o f.path
<1>1. Router!PathToUrl(f.path) = url
  <2>1. f.path \in Seq(STRING \ {DirSeparator}) /\ f.path # <<>>
    BY FileLemma
  <2>2. Head(f.path) # ""
    <3>1. f.path[1] \in STRING \ {DirSeparator}
      BY <2>1, EmptySeq, LenProperties
    <3>2. f.path[1] # ""
      BY <3>1 DEF DirSeparator
    <3>3. Head(f.path) = f.path[1]
      OBVIOUS
    <3> QED
      BY <3>2, <3>3
  <2> QED
    BY <2>2 DEF Router!PathToUrl
<1>2. Router!VariantItems(url, content, c, encoding) =
        {P(ExactPath(url))}
          \cup {Router!PrepareFallback(s, content, c, encoding) : s \in Router!ToSet(c.fallbacks)}
          \cup UNION {{P(ExactPath(alias))} : alias \in Router!ToSet(c.aliases)}
  BY StaticLemma DEF Router!VariantItems
<1>3. CASE f.path = IndexFile
  <2>1. c.fallbacks = <<[scope |-> RootUrl, status |-> "200"]>> /\ c.aliases = <<RootUrl>>
    <3>1. c = AssetConfigs[1]
      BY <1>3, ConfigLemma
    <3>2. /\ AssetConfigs[1].fallbacks = <<[scope |-> RootUrl, status |-> "200"]>>
          /\ AssetConfigs[1].aliases = <<RootUrl>>
      BY DEF AssetConfigs, RootUrl
    <3> QED
      BY <3>1, <3>2
  <2>2. /\ Router!ToSet(c.fallbacks) = {[scope |-> RootUrl, status |-> "200"]}
        /\ Router!ToSet(c.aliases) = {RootUrl}
    BY <2>1 DEF Router!ToSet
  <2>3. Router!PrepareFallback([scope |-> RootUrl, status |-> "200"], content, c, encoding) = P(WildPath(RootUrl))
    BY DEF Prepared, WildPath
  <2>4. FilePaths(f) = {ExactPath(url), ExactPath(RootUrl), WildPath(RootUrl)}
    BY <1>3 DEF FilePaths
  <2> HIDE DEF P, c, url
  <2> QED
    BY <1>1, <1>2, <2>2, <2>3, <2>4 DEF P, c
<1>4. CASE f.path # IndexFile
  <2>1. Router!ToSet(c.fallbacks) = {} /\ Router!ToSet(c.aliases) = {}
    BY <1>4, ConfigLemma DEF Router!ToSet
  <2>2. FilePaths(f) = {ExactPath(url)}
    BY <1>4 DEF FilePaths
  <2> HIDE DEF P, c, url
  <2> QED
    BY <1>1, <1>2, <2>1, <2>2 DEF P, c
<1> QED
  BY <1>3, <1>4

\* The copy of a file in an encoding.
IsCopy(build, f, g, encoding) ==
  \/ encoding = None /\ g = f
  \/ encoding = "br" /\ g \in build /\ g.path = Router!WithPostfix(f.path, ".br")
  \/ encoding = "gzip" /\ g \in build /\ g.path = Router!WithPostfix(f.path, ".gz")

LEMMA CopyUnique ==
  ASSUME MarkersApart, NEW ex \in Examples, NEW build \in Builds(ex), NEW f, NEW encoding,
         NEW g, IsCopy(build, f, g, encoding), NEW h, IsCopy(build, f, h, encoding)
  PROVE  g = h
<1>1. None \notin {"br", "gzip"}
  BY DEF MarkersApart
<1>2. \A a, b \in build : a.path = b.path => a = b
  BY BuildAssumption
<1> QED
  BY <1>1, <1>2 DEF IsCopy

\* What is prepared for a file.
LEMMA FileItems ==
  ASSUME NEW ex \in Examples, NEW build \in Builds(ex), NEW f \in build,
         NEW x \in Router!AssetItems(f, Batch(build))
  PROVE  /\ \E path \in FilePaths(f) : \E g, encoding :
              IsCopy(build, f, g, encoding) /\ x = Prepared(path, g.content, Config(build, f), encoding)
         /\ \A path \in FilePaths(f) :
              Prepared(path, f.content, Config(build, f), None) \in Router!AssetItems(f, Batch(build))
<1> DEFINE c == Config(build, f)
           url == Router!PathToUrl(f.path)
           Variants(content, encoding) == Router!VariantItems(url, content, c, encoding)
           EncodedAs(e) == {a \in build : a.path = Router!WithPostfix(f.path, e.postfix)}
<1>1. Router!AssetItems(f, Batch(build)) =
        Variants(f.content, None)
          \cup UNION {UNION {Variants(a.content, e.encoding) : a \in EncodedAs(e)} : e \in Router!ToSet(c.encodings)}
  BY DEF Router!AssetItems, Batch, Config
<1>2. \A content, encoding : Variants(content, encoding) = {Prepared(path, content, c, encoding) : path \in FilePaths(f)}
  BY VariantLemma
<1>3. \A e \in Router!ToSet(c.encodings) :
        e \in {[encoding |-> "br", postfix |-> ".br"], [encoding |-> "gzip", postfix |-> ".gz"]}
  <2>1. c.encodings \in {<<>>, Encodings}
    BY ConfigLemma
  <2> QED
    BY <2>1 DEF Router!ToSet, Encodings
<1> HIDE DEF c, url, Variants
<1>4. ASSUME NEW e \in Router!ToSet(c.encodings), NEW a \in EncodedAs(e), x \in Variants(a.content, e.encoding)
      PROVE  \E path \in FilePaths(f) : \E g, encoding :
               IsCopy(build, f, g, encoding) /\ x = Prepared(path, g.content, c, encoding)
  <2>1. IsCopy(build, f, a, e.encoding)
    BY <1>3, <1>4 DEF IsCopy
  <2> QED
    BY <1>2, <1>4, <2>1
<1>5. \E path \in FilePaths(f) : \E g, encoding :
        IsCopy(build, f, g, encoding) /\ x = Prepared(path, g.content, c, encoding)
  <2>1. CASE x \in Variants(f.content, None)
    <3>1. IsCopy(build, f, f, None)
      BY DEF IsCopy
    <3> QED
      BY <1>2, <2>1, <3>1
  <2> QED
    BY <1>1, <1>4, <2>1
<1>6. \A path \in FilePaths(f) : Prepared(path, f.content, c, None) \in Router!AssetItems(f, Batch(build))
  BY <1>1, <1>2
<1> QED
  BY <1>5, <1>6 DEF c

OldUrl == <<"", "old-url">>

\* What assets certifies that is no file of its build.
LEMMA RootAndOldUrl ==
  /\ RootUrl \in Seq(Str) /\ Segments(RootUrl) = <<DirSeparator>> /\ Spelt(RootUrl) /\ RootUrl # MetricsPath
  /\ OldUrl \in Seq(Str) /\ Segments(OldUrl) = <<"old-url">> /\ Spelt(OldUrl) /\ OldUrl # MetricsPath
<1>1. RootUrl = <<DirSeparator, DirSeparator>> /\ RootUrl \in Seq(Str)
  BY DEF RootUrl, DirSeparator, Str
<1>2. Segments(RootUrl) = <<DirSeparator>>
  BY <1>1, RootLemma DEF Str
<1>3. Spelt(RootUrl)
  BY <1>1, <1>2, PairOfSegments DEF Spelt
<1>4. OldUrl = <<DirSeparator>> \o <<"old-url">>
  BY PairOfSegments DEF OldUrl, DirSeparator
<1>5. <<"old-url">> \in Seq({"old-url"} \ {DirSeparator})
  BY DEF DirSeparator
<1>6. Segments(OldUrl) = <<"old-url">>
  BY <1>4, <1>5, NamesAreSpelt
<1>7. Spelt(OldUrl)
  BY <1>4, <1>6 DEF Spelt
<1>8. OldUrl \in Seq(Str)
  BY DEF OldUrl, DirSeparator, Str
<1>9. RootUrl # MetricsPath /\ OldUrl # MetricsPath
  BY DEF RootUrl, OldUrl, MetricsPath
<1> QED
  BY <1>1, <1>2, <1>3, <1>6, <1>7, <1>8, <1>9

\* The paths of files are spelt as in the tree, but for the wildcard, and no two files
\* have one in common.
LEMMA FilePathLemma ==
  ASSUME NEW ex \in Examples, NEW build \in Builds(ex), NEW f \in build, NEW path \in FilePaths(f)
  PROVE  /\ path.url \in Seq(Str) /\ path.url # OldUrl
         /\ path.exact => Spelt(path.url) /\ path.url # MetricsPath
         /\ ~path.exact => path.url = RootUrl
         /\ \A g \in build : path \in FilePaths(g) => g = f
<1>1. \A url : /\ ExactPath(url).exact = TRUE /\ WildPath(url).exact = FALSE
               /\ ExactPath(url).url = url /\ WildPath(url).url = url
  BY DEF ExactPath, WildPath
<1>2. ASSUME NEW g \in build
      PROVE  LET url == <<"">> \o g.path
             IN  /\ url \in Seq(Str) /\ Segments(url) = g.path /\ Spelt(url) /\ url # MetricsPath
                 /\ url # OldUrl /\ url # RootUrl
  <2>1. /\ g.path \in Seq(STRING \ {DirSeparator}) /\ g.path # <<"old-url">>
        /\ <<"">> \o g.path \in Seq(Str) /\ Segments(<<"">> \o g.path) = g.path
        /\ Spelt(<<"">> \o g.path) /\ <<"">> \o g.path # MetricsPath
    BY FileLemma, BuildAssumption
  <2>2. g.path # <<DirSeparator>>
    <3>1. <<DirSeparator>> \notin Seq(STRING \ {DirSeparator})
      <4>1. ASSUME NEW S, <<DirSeparator>> \in Seq(S) PROVE DirSeparator \in S
        BY <4>1
      <4> QED
        BY <4>1
    <3> QED
      BY <2>1, <3>1
  <2> QED
    BY <2>1, <2>2, RootAndOldUrl
<1>3. RootUrl # OldUrl
  BY DEF RootUrl, OldUrl
<1>4. \A g \in build : path \in FilePaths(g) <=>
        \/ path = ExactPath(<<"">> \o g.path)
        \/ g.path = IndexFile /\ path \in {ExactPath(RootUrl), WildPath(RootUrl)}
  BY DEF FilePaths
<1>5. CASE path = ExactPath(<<"">> \o f.path)
  <2>1. path.exact = TRUE /\ path.url = <<"">> \o f.path
    BY <1>1, <1>5
  <2>2. ASSUME NEW g \in build, path \in FilePaths(g) PROVE g.path = f.path
    <3>1. path = ExactPath(<<"">> \o g.path)
      BY <1>1, <1>2, <1>4, <2>1, <2>2
    <3>2. <<"">> \o g.path = <<"">> \o f.path
      BY <1>1, <2>1, <3>1
    <3> QED
      BY <1>2, <3>2
  <2>3. \A g \in build : path \in FilePaths(g) => g = f
    BY <2>2, BuildAssumption
  <2> QED
    BY <1>2, <2>1, <2>3
<1>6. CASE f.path = IndexFile /\ path \in {ExactPath(RootUrl), WildPath(RootUrl)}
  <2>1. path.url = RootUrl
    BY <1>1, <1>6
  <2>2. ASSUME NEW g \in build, path \in FilePaths(g) PROVE g.path = f.path
    <3>1. path # ExactPath(<<"">> \o g.path)
      BY <1>1, <1>2, <2>1
    <3> QED
      BY <1>4, <1>6, <2>2, <3>1
  <2>3. \A g \in build : path \in FilePaths(g) => g = f
    BY <2>2, BuildAssumption
  <2> QED
    BY <1>3, <2>1, <2>3, RootAndOldUrl
<1> QED
  BY <1>4, <1>5, <1>6

Redirection == Router!PrepareRedirect(AssetConfigs[5])

LEMMA RedirectionLemma ==
  /\ Redirection = [path |-> Redirection.path, response |-> Redirection.response]
  /\ Redirection.path = ExactPath(OldUrl)
  /\ Redirection.response.encoding = None /\ Redirection.response.range = None
<1>1. AssetConfigs[5].from = OldUrl
  BY DEF AssetConfigs, OldUrl
<1>2. Redirection.path = ExactPath(OldUrl)
  BY <1>1 DEF Redirection, Router!PrepareRedirect, ExactPath
<1> QED
  BY <1>2 DEF Redirection, Router!PrepareRedirect, Router!PrepareResponse

\* What is prepared is of a file, or the redirect.
LEMMA WorkLemma ==
  ASSUME NEW build, NEW order, NEW w \in Router!Work(Batch(build), order)
  PROVE  /\ w = <<w[1], w[2]>>
         /\ \/ \E f \in build : /\ w[1] = order[f] /\ w[2] \in Router!AssetItems(f, Batch(build))
                                /\ \A x \in Router!AssetItems(f, Batch(build)) :
                                     <<order[f], x>> \in Router!Work(Batch(build), order)
            \/ w[1] = Router!Cardinality(build) + 5 /\ w[2] = Redirection
<1> DEFINE work == Router!Work(Batch(build), order)
           Items(f) == Router!AssetItems(f, Batch(build))
           Reached == Router!ReachedAssets(Batch(build), order)
<1>1. work = (UNION {{order[a]} \X Items(a) : a \in Reached}) \cup Router!Redirects(Batch(build))
  BY DEF Router!Work
<1>2. Reached \subseteq build
  BY DEF Router!ReachedAssets, Batch
<1>3. \A i \in Router!ReachedRedirects(Batch(build)) : i = 5
  <2>4. DOMAIN AssetConfigs = 1 .. 5
    BY DEF AssetConfigs
  <2>1. /\ AssetConfigs[2] = PatternConfig("js", Encodings) /\ AssetConfigs[3] = PatternConfig("css", Encodings)
        /\ AssetConfigs[4] = PatternConfig("ico", <<>>) /\ AssetConfigs[1].kind = "File"
    BY DEF AssetConfigs
  <2>2. \A x, encodings : PatternConfig(x, encodings).kind = "Pattern"
    BY DEF PatternConfig
  <2>3. \A i \in DOMAIN AssetConfigs : AssetConfigs[i].kind = "Redirect" => i = 5
    BY <2>1, <2>2, <2>4
  <2> QED
    BY <2>3 DEF Router!ReachedRedirects, Batch
<1> HIDE DEF work, Items, Reached
<1>4. ASSUME NEW f \in Reached, w \in {order[f]} \X Items(f)
      PROVE  /\ w = <<w[1], w[2]>> /\ w[1] = order[f] /\ w[2] \in Items(f)
             /\ \A x \in Items(f) : <<order[f], x>> \in work
  BY <1>1, <1>4
<1>5. ASSUME w \in Router!Redirects(Batch(build))
      PROVE  w = <<w[1], w[2]>> /\ w[1] = Router!Cardinality(build) + 5 /\ w[2] = Redirection
  <2>1. w = <<Router!Cardinality(build) + 5, Redirection>>
    BY <1>3, <1>5 DEF Router!Redirects, Redirection, Batch
  <2> QED
    BY <2>1
<1>6. w \in work
  BY DEF work
<1>7. CASE w \in Router!Redirects(Batch(build))
  BY <1>5, <1>7
<1>8. CASE \E f \in Reached : w \in {order[f]} \X Items(f)
  BY <1>2, <1>4, <1>8 DEF work, Items
<1> QED
  BY <1>1, <1>6, <1>7, <1>8

\* What is prepared for a file is for one of its paths, in no chunks, and each with one
\* that is plain.
LEMMA FileItem ==
  ASSUME NEW ex \in Examples, NEW build \in Builds(ex), NEW f \in build,
         NEW x \in Router!AssetItems(f, Batch(build))
  PROVE  /\ x = [path |-> x.path, response |-> x.response]
         /\ x.path \in FilePaths(f) /\ x.path = [exact |-> x.path.exact, url |-> x.path.url] /\ x.path.exact \in BOOLEAN
         /\ x.response.encoding \in {None, "br", "gzip"} /\ x.response.range = None
         /\ \E y \in Router!AssetItems(f, Batch(build)) : y.path = x.path /\ y.response.encoding = None
<1> PICK path \in FilePaths(f) :
      \E g, encoding : IsCopy(build, f, g, encoding) /\ x = Prepared(path, g.content, Config(build, f), encoding)
  BY FileItems
<1>1. PICK g, encoding :
        IsCopy(build, f, g, encoding) /\ x = Prepared(path, g.content, Config(build, f), encoding)
  OBVIOUS
<1>2. /\ x = [path |-> x.path, response |-> x.response]
      /\ x.path = path /\ x.response.encoding = encoding /\ x.response.range = None
      /\ path = [exact |-> path.exact, url |-> path.url] /\ path.exact \in BOOLEAN
  BY <1>1, PreparedLemma
<1>3. encoding \in {None, "br", "gzip"}
  BY <1>1 DEF IsCopy
<1> DEFINE y == Prepared(path, f.content, Config(build, f), None)
<1>4. y \in Router!AssetItems(f, Batch(build))
  BY FileItems
<1>5. y.path = path /\ y.response.encoding = None
  BY PreparedLemma
<1> QED
  BY <1>1, <1>2, <1>3, <1>4, <1>5

LEMMA FileItemUnique ==
  ASSUME MarkersApart, NEW ex \in Examples, NEW build \in Builds(ex), NEW f \in build,
         NEW x \in Router!AssetItems(f, Batch(build)), NEW y \in Router!AssetItems(f, Batch(build)),
         x.path = y.path, x.response.encoding = y.response.encoding
  PROVE  x = y
<1> PICK p \in FilePaths(f) :
      \E g, e : IsCopy(build, f, g, e) /\ x = Prepared(p, g.content, Config(build, f), e)
  BY FileItems
<1>1. PICK g, e : IsCopy(build, f, g, e) /\ x = Prepared(p, g.content, Config(build, f), e)
  OBVIOUS
<1> PICK r \in FilePaths(f) :
      \E h, d : IsCopy(build, f, h, d) /\ y = Prepared(r, h.content, Config(build, f), d)
  BY FileItems
<1>2. PICK h, d : IsCopy(build, f, h, d) /\ y = Prepared(r, h.content, Config(build, f), d)
  OBVIOUS
<1>3. x.path = p /\ x.response.encoding = e
  BY <1>1, PreparedLemma
<1>4. y.path = r /\ y.response.encoding = d
  BY <1>2, PreparedLemma
<1>5. p = r /\ e = d
  BY <1>3, <1>4
<1>6. g = h
  BY <1>1, <1>2, <1>5, CopyUnique
<1> QED
  BY <1>1, <1>2, <1>5, <1>6

\* All that a site of the router consists of.
RouterItems(items) ==
  /\ \A x \in items :
       /\ x = [path |-> x.path, response |-> x.response]
       /\ x.path = [exact |-> x.path.exact, url |-> x.path.url] /\ x.path.exact \in BOOLEAN
       /\ x.path.url \in Seq(Str)
       /\ IF x.path.exact THEN Spelt(x.path.url) /\ x.path.url # MetricsPath ELSE x.path.url = RootUrl
       /\ x.response.encoding \in {None, "br", "gzip"} /\ x.response.range = None
       /\ \E y \in items : y.path = x.path /\ y.response.encoding = None
  /\ \A x, y \in items : x.path = y.path /\ x.response.encoding = y.response.encoding => x = y

\* One thing is prepared for a path and an encoding.
LEMMA PreparedOnce ==
  ASSUME MarkersApart, NEW ex \in Examples, NEW build \in Builds(ex), NEW order,
         NEW w \in Router!Work(Batch(build), order), NEW v \in Router!Work(Batch(build), order),
         w[2].path = v[2].path, w[2].response.encoding = v[2].response.encoding
  PROVE  w = v
<1>1. w = <<w[1], w[2]>> /\ v = <<v[1], v[2]>>
  BY WorkLemma
<1>2. ASSUME NEW u \in Router!Work(Batch(build), order), NEW f \in build, u[2] \in Router!AssetItems(f, Batch(build))
      PROVE  u[2].path \in FilePaths(f) /\ u[2] # Redirection /\ u[2].path # Redirection.path
  <2>1. u[2].path \in FilePaths(f)
    BY <1>2, FileItem
  <2>3. u[2].path.url # OldUrl
    BY <2>1, FilePathLemma
  <2>2. Redirection.path.url = OldUrl
    BY RedirectionLemma DEF ExactPath
  <2> QED
    BY <2>1, <2>2, <2>3
<1>3. ASSUME NEW f \in build, w[1] = order[f], w[2] \in Router!AssetItems(f, Batch(build)),
             NEW g \in build, v[1] = order[g], v[2] \in Router!AssetItems(g, Batch(build))
      PROVE  w = v
  <2>1. w[2].path \in FilePaths(f) /\ w[2].path \in FilePaths(g)
    BY <1>2, <1>3
  <2>2. f = g
    BY <2>1, FilePathLemma
  <2>3. w[2] = v[2]
    BY <1>3, <2>2, FileItemUnique
  <2> QED
    BY <1>1, <1>3, <2>2, <2>3
<1>4. ASSUME NEW u \in Router!Work(Batch(build), order)
      PROVE  \/ \E f \in build : u[1] = order[f] /\ u[2] \in Router!AssetItems(f, Batch(build))
             \/ u[1] = Router!Cardinality(build) + 5 /\ u[2] = Redirection
  BY WorkLemma
<1> QED
  BY <1>1, <1>2, <1>3, <1>4

\* What is prepared has its turn and is whole.
LEMMA WorkIsWhole ==
  ASSUME MarkersApart, NEW ex \in Examples, NEW build \in Builds(ex), NEW order \in Router!Orders(build)
  PROVE  /\ \A w \in Router!Work(Batch(build), order) : w[1] \in Int
         /\ RouterItems({w[2] : w \in Router!Work(Batch(build), order)})
<1> DEFINE work == Router!Work(Batch(build), order)
           items == {w[2] : w \in work}
           Items(f) == Router!AssetItems(f, Batch(build))
<1>1. \A w \in work : \/ \E f \in build : /\ w[1] = order[f] /\ w[2] \in Items(f)
                                          /\ \A x \in Items(f) : <<order[f], x>> \in work
                      \/ w[1] = Router!Cardinality(build) + 5 /\ w[2] = Redirection
  BY WorkLemma
<1>2. \A w \in work : w[1] \in Int
  <2>1. Router!Cardinality(build) \in Nat
    <3>1. Router!Cardinality(build) = Cardinality(build)
      BY DEF Cardinality, Router!Cardinality
    <3> QED
      BY <3>1, BuildAssumption, FS_CardinalityType
  <2>2. \A f \in build : order[f] \in 1 .. Router!Cardinality(build)
    BY DEF Router!Orders
  <2> HIDE DEF work, Items
  <2> QED
    BY <1>1, <2>1, <2>2
<1> HIDE DEF work, Items
<1>3. ASSUME NEW x \in items
      PROVE  /\ x = [path |-> x.path, response |-> x.response]
             /\ x.path = [exact |-> x.path.exact, url |-> x.path.url] /\ x.path.exact \in BOOLEAN
             /\ x.path.url \in Seq(Str)
             /\ IF x.path.exact THEN Spelt(x.path.url) /\ x.path.url # MetricsPath ELSE x.path.url = RootUrl
             /\ x.response.encoding \in {None, "br", "gzip"} /\ x.response.range = None
             /\ \E y \in items : y.path = x.path /\ y.response.encoding = None
  <2>1. CASE x = Redirection
    <3>1. /\ x.path.exact = TRUE /\ x.path.url = OldUrl
          /\ x.path = [exact |-> x.path.exact, url |-> x.path.url]
      BY <2>1, RedirectionLemma DEF ExactPath
    <3>2. x = [path |-> x.path, response |-> x.response] /\ x.response.encoding = None /\ x.response.range = None
      BY <2>1, RedirectionLemma
    <3> QED
      BY <1>3, <3>1, <3>2, RootAndOldUrl
  <2>2. ASSUME NEW f \in build, x \in Items(f), \A y \in Items(f) : <<order[f], y>> \in work
        PROVE  /\ x = [path |-> x.path, response |-> x.response]
               /\ x.path = [exact |-> x.path.exact, url |-> x.path.url] /\ x.path.exact \in BOOLEAN
               /\ x.path.url \in Seq(Str)
               /\ IF x.path.exact THEN Spelt(x.path.url) /\ x.path.url # MetricsPath ELSE x.path.url = RootUrl
               /\ x.response.encoding \in {None, "br", "gzip"} /\ x.response.range = None
               /\ \E y \in items : y.path = x.path /\ y.response.encoding = None
    <3>1. /\ x = [path |-> x.path, response |-> x.response]
          /\ x.path \in FilePaths(f) /\ x.path = [exact |-> x.path.exact, url |-> x.path.url] /\ x.path.exact \in BOOLEAN
          /\ x.response.encoding \in {None, "br", "gzip"} /\ x.response.range = None
          /\ \E y \in Items(f) : y.path = x.path /\ y.response.encoding = None
      BY <2>2, FileItem DEF Items
    <3>2. /\ x.path.url \in Seq(Str)
          /\ x.path.exact => Spelt(x.path.url) /\ x.path.url # MetricsPath
          /\ ~x.path.exact => x.path.url = RootUrl
      BY <3>1, FilePathLemma
    <3>3. \A y \in Items(f) : y \in items
      <4> SUFFICES ASSUME NEW y \in Items(f)
                   PROVE  y \in items
        OBVIOUS
      <4>1. <<order[f], y>> \in work /\ <<order[f], y>>[2] = y
        BY <2>2
      <4> QED
        BY <4>1
    <3> QED
      BY <3>1, <3>2, <3>3
  <2>3. PICK w \in work : x = w[2]
    BY <1>3
  <2> QED
    BY <1>1, <2>1, <2>2, <2>3
<1>4. ASSUME NEW x \in items, NEW y \in items, x.path = y.path, x.response.encoding = y.response.encoding
      PROVE  x = y
  <2>1. PICK w \in work, v \in work : x = w[2] /\ y = v[2]
    BY <1>4
  <2>2. w = v
    BY <1>4, <2>1, PreparedOnce DEF work
  <2> QED
    BY <2>1, <2>2
<1>5. RouterItems(items)
  BY <1>3, <1>4 DEF RouterItems
<1> QED
  BY <1>2, <1>5 DEF work

\* What is stored under a key that nothing else has.
LEMMA StoredLemma ==
  ASSUME NEW work, \A w \in work : w[1] \in Int,
         \A w, v \in work : Router!KeyOf(w[2]) = Router!KeyOf(v[2]) => w = v
  PROVE  /\ \A k : k \in DOMAIN Router!Stored(<<>>, work) <=> \E w \in work : Router!KeyOf(w[2]) = k
         /\ \A w \in work : Router!Stored(<<>>, work)[Router!KeyOf(w[2])] = w[2]
<1> DEFINE keys == {Router!KeyOf(w[2]) : w \in work}
<1>1. Router!Stored(<<>>, work) = [k \in DOMAIN <<>> \cup keys |->
                                     IF k \in keys THEN Router!LastFor(work, k)[2] ELSE <<>>[k]]
  BY DEF Router!Stored
<1>2. ASSUME NEW w \in work
      PROVE  Router!LastFor(work, Router!KeyOf(w[2])) = w
  <2>1. \A v \in work : Router!KeyOf(v[2]) = Router!KeyOf(w[2]) => v[1] <= w[1]
    BY <1>2
  <2> QED
    BY <1>2, <2>1 DEF Router!LastFor
<1>3. DOMAIN <<>> = {}
  OBVIOUS
<1>4. \A k : k \in keys <=> \E w \in work : Router!KeyOf(w[2]) = k
  OBVIOUS
<1> HIDE DEF keys
<1> QED
  BY <1>1, <1>2, <1>3, <1>4

\* A table of the router has one of the items that are exact, or of those that are not,
\* under each key.
IsTable(table, items, exact) ==
  /\ \A url, e, r : Router!Key(url, e, r) \in DOMAIN table <=>
       r = None /\ \E x \in items : x.path = [exact |-> exact, url |-> url] /\ x.response.encoding = e
  /\ \A x \in items : x.path.exact = exact => table[Router!Key(x.path.url, x.response.encoding, None)] = x

LEMMA StoredIsTable ==
  ASSUME NEW work, \A w \in work : w[1] \in Int, NEW items, items = {w[2] : w \in work}, RouterItems(items),
         \A w, v \in work : w[2].path = v[2].path /\ w[2].response.encoding = v[2].response.encoding => w = v,
         NEW exact \in BOOLEAN
  PROVE  IsTable(Router!Stored(<<>>, {w \in work : w[2].path.exact = exact}), items, exact)
<1> DEFINE part == {w \in work : w[2].path.exact = exact}
           table == Router!Stored(<<>>, part)
<1>1. \A x \in items : /\ x.path = [exact |-> x.path.exact, url |-> x.path.url] /\ x.response.range = None
                       /\ Router!KeyOf(x) = Router!Key(x.path.url, x.response.encoding, None)
  BY DEF RouterItems, Router!KeyOf
<1>2. ASSUME NEW x \in items, NEW url, NEW e, NEW r, Router!KeyOf(x) = Router!Key(url, e, r)
      PROVE  x.path.url = url /\ x.response.encoding = e /\ r = None
  <2>1. \A u, v, w : Router!Key(u, v, w).path = u /\ Router!Key(u, v, w).encoding = v /\ Router!Key(u, v, w).range = w
    BY DEF Router!Key
  <2>2. Router!Key(x.path.url, x.response.encoding, None) = Router!Key(url, e, r)
    BY <1>1, <1>2
  <2> QED
    BY <2>1, <2>2
<1>3. \A w \in part : w \in work /\ w[2] \in items /\ w[2].path.exact = exact /\ w[1] \in Int
  OBVIOUS
<1>4. ASSUME NEW w \in part, NEW v \in part, Router!KeyOf(w[2]) = Router!KeyOf(v[2])
      PROVE  w = v
  <2>1. w[2].path.url = v[2].path.url /\ w[2].response.encoding = v[2].response.encoding
    <3>1. Router!KeyOf(w[2]) = Router!Key(v[2].path.url, v[2].response.encoding, None)
      BY <1>1, <1>3, <1>4
    <3> QED
      BY <1>2, <1>3, <3>1
  <2>2. w[2].path = v[2].path
    BY <1>1, <1>3, <2>1
  <2> QED
    BY <1>3, <2>1, <2>2
<1> HIDE DEF part
<1>5. /\ \A k : k \in DOMAIN table <=> \E w \in part : Router!KeyOf(w[2]) = k
      /\ \A w \in part : table[Router!KeyOf(w[2])] = w[2]
  BY <1>3, <1>4, StoredLemma
<1> HIDE DEF table
<1>6. \A x \in items : x.path.exact = exact => \E w \in part : w[2] = x
  BY DEF part
<1>7. ASSUME NEW url, NEW e, NEW r
      PROVE  Router!Key(url, e, r) \in DOMAIN table <=>
               r = None /\ \E x \in items : x.path = [exact |-> exact, url |-> url] /\ x.response.encoding = e
  <2>1. ASSUME NEW w \in part, Router!KeyOf(w[2]) = Router!Key(url, e, r)
        PROVE  r = None /\ w[2].path = [exact |-> exact, url |-> url] /\ w[2].response.encoding = e
    <3>1. w[2].path.url = url /\ w[2].response.encoding = e /\ r = None
      BY <1>2, <1>3, <2>1
    <3> QED
      BY <1>1, <1>3, <3>1
  <2>2. ASSUME r = None, NEW x \in items, x.path = [exact |-> exact, url |-> url], x.response.encoding = e
        PROVE  \E w \in part : Router!KeyOf(w[2]) = Router!Key(url, e, r)
    <3>1. x.path.exact = exact /\ x.path.url = url
      BY <2>2
    <3>2. PICK w \in part : w[2] = x
      BY <1>6, <3>1
    <3> QED
      BY <1>1, <2>2, <3>1, <3>2
  <2> QED
    BY <1>3, <1>5, <2>1, <2>2
<1>8. ASSUME NEW x \in items, x.path.exact = exact
      PROVE  table[Router!Key(x.path.url, x.response.encoding, None)] = x
  <2>1. PICK w \in part : w[2] = x
    BY <1>6, <1>8
  <2>2. table[Router!KeyOf(x)] = x
    BY <1>5, <2>1
  <2> QED
    BY <1>1, <1>8, <2>2
<1>9. IsTable(table, items, exact)
  BY <1>7, <1>8 DEF IsTable
<1> QED
  BY <1>9 DEF table, part

\* What certify_all_assets leaves behind, whatever the order.
LEMMA RouterMemory ==
  ASSUME MarkersApart, NEW ex \in Examples, NEW build \in Builds(ex), NEW m \in RouterMemories(build)
  PROVE  \E items : /\ RouterItems(items)
                    /\ IsTable(m.responses, items, TRUE) /\ IsTable(m.fallback_responses, items, FALSE)
                    /\ m.tree = {<<MetricsPlace, Skip>>} \cup {Router!Entry(x) : x \in items}
<1>1. PICK order \in Router!Orders(build) :
        LET work  == Router!Work(Batch(build), order)
            Exact == {w \in work : w[2].path.exact}
        IN  m = [tree |-> NewRouter.tree \cup {Router!Entry(w[2]) : w \in work},
                 responses |-> Router!Stored(<<>>, Exact),
                 fallback_responses |-> Router!Stored(<<>>, work \ Exact)]
  BY DEF RouterMemories, Batch
<1> DEFINE work == Router!Work(Batch(build), order)
           Exact == {w \in work : w[2].path.exact}
           items == {w[2] : w \in work}
<1>2. /\ m.tree = NewRouter.tree \cup {Router!Entry(w[2]) : w \in work}
      /\ m.responses = Router!Stored(<<>>, Exact)
      /\ m.fallback_responses = Router!Stored(<<>>, work \ Exact)
  BY <1>1
<1>3. (\A w \in work : w[1] \in Int) /\ RouterItems(items)
  BY WorkIsWhole
<1>4. \A w, v \in work : w[2].path = v[2].path /\ w[2].response.encoding = v[2].response.encoding => w = v
  BY PreparedOnce
<1> HIDE DEF work
<1>5. \A w \in work : w[2].path.exact \in BOOLEAN
  BY <1>3 DEF RouterItems
<1>6. Exact = {w \in work : w[2].path.exact = TRUE} /\ work \ Exact = {w \in work : w[2].path.exact = FALSE}
  BY <1>5
<1>7. /\ IsTable(Router!Stored(<<>>, {w \in work : w[2].path.exact = TRUE}), items, TRUE)
      /\ IsTable(Router!Stored(<<>>, {w \in work : w[2].path.exact = FALSE}), items, FALSE)
  BY <1>3, <1>4, StoredIsTable
<1>8. IsTable(m.responses, items, TRUE) /\ IsTable(m.fallback_responses, items, FALSE)
  BY <1>2, <1>6, <1>7
<1>9. m.tree = {<<MetricsPlace, Skip>>} \cup {Router!Entry(x) : x \in items}
  <2>1. NewRouter.tree = {<<MetricsPlace, Skip>>}
    BY DEF NewRouter
  <2> QED
    BY <1>2, <2>1
<1> QED
  BY <1>3, <1>8, <1>9

RouterOffer(x) ==
  [path |-> x.path, encoding |-> x.response.encoding,
   response |-> [status |-> x.response.status, cel |-> "Full", body |-> x.response]]

RouterOffers(items) == {RouterOffer(x) : x \in items}

LEMMA RouterSite ==
  ASSUME NEW items, RouterItems(items),
         NEW tree, tree = {<<MetricsPlace, Skip>>} \cup {Router!Entry(x) : x \in items}
  PROVE  /\ IsSite(RouterOffers(items), RootUrl, "Full")
         /\ RouterCertified(tree) = SiteTree(RouterOffers(items))
         /\ {pc[1] : pc \in tree} = {pc[1] : pc \in SiteTree(RouterOffers(items))}
<1> DEFINE offers == RouterOffers(items)
<1>1. \A x : /\ RouterOffer(x).path = x.path /\ RouterOffer(x).encoding = x.response.encoding
             /\ RouterOffer(x).response = [status |-> x.response.status, cel |-> "Full", body |-> x.response]
             /\ RouterOffer(x).response = [status |-> RouterOffer(x).response.status, cel |-> "Full",
                                           body |-> RouterOffer(x).response.body]
  BY DEF RouterOffer
<1>2. ASSUME NEW o \in offers
      PROVE  /\ o.path = [exact |-> o.path.exact, url |-> o.path.url] /\ o.path.exact \in BOOLEAN
             /\ o.path.url \in Seq(Str)
             /\ IF o.path.exact THEN Spelt(o.path.url) /\ o.path.url # MetricsPath ELSE o.path.url = RootUrl
             /\ o.encoding \in {None, "br", "gzip"}
             /\ o.response = [status |-> o.response.status, cel |-> "Full", body |-> o.response.body]
             /\ \E p \in offers : p.path = o.path /\ p.encoding = None
  <2>1. PICK x \in items : o = RouterOffer(x)
    BY DEF RouterOffers
  <2>2. /\ x.path = [exact |-> x.path.exact, url |-> x.path.url] /\ x.path.exact \in BOOLEAN
        /\ x.path.url \in Seq(Str)
        /\ IF x.path.exact THEN Spelt(x.path.url) /\ x.path.url # MetricsPath ELSE x.path.url = RootUrl
        /\ x.response.encoding \in {None, "br", "gzip"}
    BY DEF RouterItems
  <2>3. PICK y \in items : y.path = x.path /\ y.response.encoding = None
    BY DEF RouterItems
  <2>4. RouterOffer(y) \in offers /\ RouterOffer(y).path = o.path /\ RouterOffer(y).encoding = None
    BY <1>1, <2>1, <2>3 DEF RouterOffers
  <2> HIDE DEF offers
  <2> QED
    BY <1>1, <2>1, <2>2, <2>4
<1>3. ASSUME NEW o \in offers, NEW p \in offers, o.path = p.path, o.encoding = p.encoding
      PROVE  o = p
  <2>1. PICK x \in items : o = RouterOffer(x)
    BY DEF RouterOffers
  <2>2. PICK y \in items : p = RouterOffer(y)
    BY DEF RouterOffers
  <2>3. x.path = y.path /\ x.response.encoding = y.response.encoding
    BY <1>1, <1>3, <2>1, <2>2
  <2>4. x = y
    BY <2>3 DEF RouterItems
  <2> QED
    BY <2>1, <2>2, <2>4
<1>4. IsSite(offers, RootUrl, "Full")
  BY <1>2, <1>3 DEF IsSite
<1> DEFINE F(pc) == IF pc[2] = Skip THEN pc
                    ELSE <<pc[1], [cel |-> "Full", req |-> "GET",
                                   resp |-> [status |-> pc[2].resp.status, body |-> pc[2].resp]]>>
           Certified(o) == <<Place(o.path), CertificationOf(o.response)>>
<1>5. RouterCertified(tree) = {F(pc) : pc \in tree}
  BY DEF RouterCertified
<1>6. F(<<MetricsPlace, Skip>>) = <<MetricsPlace, Skip>>
  OBVIOUS
<1>7. ASSUME NEW x
      PROVE  F(Router!Entry(x)) = Certified(RouterOffer(x)) /\ Router!Entry(x)[1] = Certified(RouterOffer(x))[1]
  <2>1. Router!Entry(x)[1] = Place(x.path) /\ Router!Entry(x)[2] = Router!Certification(x.response)
    <3>1. Router!Place(x.path) = Place(x.path)
      BY DEF Place, Router!Place, Segments, Router!Segments, NotEmpty, Router!NotEmpty,
             EndsWithSlash, Router!EndsWithSlash, DirSeparator, Router!DirSeparator, Last, Router!Last
    <3> QED
      BY <3>1 DEF Router!Entry
  <2>2. Router!Certification(x.response) # Skip /\ Router!Certification(x.response).resp = x.response
    <3>1. DOMAIN Router!Certification(x.response) = {"req", "resp"}
      BY DEF Router!Certification
    <3>2. DOMAIN Skip = {"cel", "req", "resp"}
      BY DEF Skip
    <3>3. "cel" \notin {"req", "resp"}
      OBVIOUS
    <3>4. Router!Certification(x.response) # Skip
      BY <3>1, <3>2, <3>3
    <3> QED
      BY <3>4 DEF Router!Certification
  <2>3. CertificationOf(RouterOffer(x).response) =
          [cel |-> "Full", req |-> "GET", resp |-> [status |-> x.response.status, body |-> x.response]]
    <3> DEFINE r == RouterOffer(x).response
    <3>1. r = [status |-> x.response.status, cel |-> "Full", body |-> x.response]
      BY <1>1
    <3>2. r.status = x.response.status /\ r.cel = "Full" /\ r.body = x.response
      BY <3>1
    <3> HIDE DEF r
    <3> QED
      BY <3>2 DEF CertificationOf, r
  <2> QED
    BY <1>1, <2>1, <2>2, <2>3
<1>8. SiteTree(offers) = {<<MetricsPlace, Skip>>} \cup {Certified(RouterOffer(x)) : x \in items}
  BY DEF SiteTree, RouterOffers
<1> HIDE DEF F, Certified, offers
<1>9. RouterCertified(tree) = SiteTree(offers)
  BY <1>5, <1>6, <1>7, <1>8
<1>10. {pc[1] : pc \in tree} = {pc[1] : pc \in SiteTree(offers)}
  <2>1. {pc[1] : pc \in tree} = {<<MetricsPlace, Skip>>[1]} \cup {Router!Entry(x)[1] : x \in items}
    OBVIOUS
  <2>2. {pc[1] : pc \in SiteTree(offers)} = {<<MetricsPlace, Skip>>[1]} \cup {Certified(RouterOffer(x))[1] : x \in items}
    BY <1>8
  <2> QED
    BY <1>7, <2>1, <2>2
<1> QED
  BY <1>4, <1>9, <1>10 DEF offers

\* What is found in a table under a URL, for the encodings accepted.
Found(table, url, accept) == {e \in accept : Router!Key(url, e, None) \in DOMAIN table}

Pick(table, url, accept) ==
  LET es == Found(table, url, accept)
  IN  IF es # {} THEN table[Router!Key(url, Router!BestEncoding(es), None)] ELSE table[Router!Key(url, None, None)]

\* It is what the site offers there.
Picks(items, table, path, accept) ==
  LET x == Pick(table, path.url, accept)
  IN  /\ Router!Key(path.url, None, None) \in DOMAIN table
      /\ x \in items /\ x.path = path
      /\ RouterOffer(x) \in Offered(RouterOffers(items), path, accept)

LEMMA RouterPick ==
  ASSUME MarkersApart, NEW items, RouterItems(items), NEW table,
         NEW path, path = [exact |-> path.exact, url |-> path.url], IsTable(table, items, path.exact),
         NEW p \in items, p.path = path, NEW accept, None \notin accept
  PROVE  Picks(items, table, path, accept)
<1> DEFINE Has(e) == \E x \in items : x.path = path /\ x.response.encoding = e
           best == IF "br" \in accept /\ Has("br") THEN "br"
                   ELSE IF "gzip" \in accept /\ Has("gzip") THEN "gzip" ELSE None
           offers == RouterOffers(items)
           url == path.url
           es == Found(table, url, accept)
<1>1. \A e : Router!Key(url, e, None) \in DOMAIN table <=> Has(e)
  <2>1. \A u, e, r : Router!Key(u, e, r) \in DOMAIN table <=>
          r = None /\ \E x \in items : x.path = [exact |-> path.exact, url |-> u] /\ x.response.encoding = e
    BY DEF IsTable
  <2> QED
    BY <2>1
<1>2. \A e : Has(e) => e \in {None, "br", "gzip"}
  BY DEF RouterItems
<1>3. Has(None)
  <2>1. \A x \in items : \E y \in items : y.path = x.path /\ y.response.encoding = None
    BY DEF RouterItems
  <2> QED
    BY <2>1
<1>4. ASSUME NEW e
      PROVE  (\E o \in offers : o.path = path /\ o.encoding = e) <=> Has(e)
  <2>1. \A x : RouterOffer(x).path = x.path /\ RouterOffer(x).encoding = x.response.encoding
    BY DEF RouterOffer
  <2> QED
    BY <2>1 DEF RouterOffers
<1>5. Offered(offers, path, accept) = {o \in offers : o.path = path /\ o.encoding = best}
  BY <1>4 DEF Offered
<1>6. Has(best)
  BY <1>3
<1> HIDE DEF Has
<1>7. es \subseteq {"br", "gzip"} /\ ("br" \in es <=> "br" \in accept /\ Has("br"))
                                 /\ ("gzip" \in es <=> "gzip" \in accept /\ Has("gzip"))
  BY <1>1, <1>2 DEF Found
<1> HIDE DEF es
<1>8. es = {} => best = None
  BY <1>7
<1>9. es # {} => Router!BestEncoding(es) = best
  <2>1. Router!Quality("br") = 10 /\ Router!Quality("gzip") = 8
    BY DEF Router!Quality
  <2>2. CASE "br" \in es
    <3>1. \A e \in es : (\A d \in es : Router!Quality(d) <= Router!Quality(e)) <=> e = "br"
      BY <1>7, <2>1, <2>2
    <3>2. Router!BestEncoding(es) = "br"
      BY <2>2, <3>1 DEF Router!BestEncoding
    <3> QED
      BY <1>7, <2>2, <3>2
  <2>3. CASE es = {"gzip"}
    <3>1. \A e \in es : (\A d \in es : Router!Quality(d) <= Router!Quality(e)) <=> e = "gzip"
      BY <2>1, <2>3
    <3>2. Router!BestEncoding(es) = "gzip"
      BY <2>3, <3>1 DEF Router!BestEncoding
    <3> QED
      BY <1>7, <2>3, <3>2
  <2> QED
    BY <1>7, <2>2, <2>3
<1> HIDE DEF best
<1>10. PICK x \in items : x.path = path /\ x.response.encoding = best
  BY <1>6 DEF Has
<1>11. table[Router!Key(url, best, None)] = x
  <2>1. x.path.exact = path.exact /\ x.path.url = url
    BY <1>10
  <2> QED
    BY <1>10, <2>1 DEF IsTable
<1>12. RouterOffer(x) \in Offered(offers, path, accept)
  <2>1. RouterOffer(x).path = x.path /\ RouterOffer(x).encoding = x.response.encoding /\ RouterOffer(x) \in offers
    BY DEF RouterOffer, RouterOffers
  <2> QED
    BY <1>5, <1>10, <2>1
<1>13. Pick(table, url, accept) = x
  BY <1>8, <1>9, <1>11 DEF Pick, es
<1> QED
  BY <1>1, <1>3, <1>10, <1>12, <1>13 DEF Picks

\* "/" is a scope of whatever begins with a slash.
LEMMA RootIsScope ==
  ASSUME NEW url \in Seq(Str), url # <<>>, url[1] = DirSeparator
  PROVE  /\ Len(Router!Scopes(url)) = 2 * (Len(url) - 1)
         /\ Len(url) > 1 => \E i \in 1 .. Len(Router!Scopes(url)) : Router!Scopes(url)[i] = RootUrl
<1> DEFINE n == Len(url)
           i == 2 * (n - 1) - 1
<1>1. n \in Nat /\ n > 0
  BY EmptySeq, LenProperties
<1>2. Router!Scopes(url) = [j \in 1 .. 2 * (n - 1) |->
                              LET directory == SubSeq(url, 1, n - (j + 1) \div 2)
                              IN  IF j % 2 = 1 THEN Append(directory, DirSeparator) ELSE directory]
  BY DEF Router!Scopes, Router!DirSeparator, DirSeparator
<1> HIDE DEF n
<1>3. Len(Router!Scopes(url)) = 2 * (n - 1)
  BY <1>1, <1>2
<1>4. ASSUME n > 1
      PROVE  i \in 1 .. 2 * (n - 1) /\ Router!Scopes(url)[i] = RootUrl
  <2>1. i \in 1 .. 2 * (n - 1) /\ n - (i + 1) \div 2 = 1 /\ i % 2 = 1
    BY <1>1, <1>4
  <2> HIDE DEF i
  <2>2. Router!Scopes(url)[i] = IF i % 2 = 1 THEN Append(SubSeq(url, 1, n - (i + 1) \div 2), DirSeparator)
                                ELSE SubSeq(url, 1, n - (i + 1) \div 2)
    BY <1>2, <2>1, Zenon
  <2>3. Router!Scopes(url)[i] = Append(SubSeq(url, 1, 1), DirSeparator)
    BY <2>1, <2>2, Zenon
  <2>4. SubSeq(url, 1, 1) = <<DirSeparator>>
    <3> DEFINE d == SubSeq(url, 1, 1)
    <3>1. \A l \in 1 .. 1 : url[l] \in Str
      BY <1>1, LenProperties DEF n
    <3>2. d \in Seq(Str) /\ Len(d) = 1 /\ d[1] = url[1]
      BY <3>1, SubSeqProperties
    <3> HIDE DEF d
    <3>3. d = <<DirSeparator>>
      BY <3>2
    <3> QED
      BY <3>3 DEF d
  <2>5. Append(<<DirSeparator>>, DirSeparator) = RootUrl
    <3> DEFINE d == Append(<<DirSeparator>>, DirSeparator)
    <3>1. <<DirSeparator>> \in Seq(Str) /\ DirSeparator \in Str
      BY DEF Str
    <3>2. d \in Seq(Str) /\ Len(d) = 2 /\ d[1] = DirSeparator /\ d[2] = DirSeparator
      BY <3>1, AppendProperties
    <3> HIDE DEF d
    <3>3. d = <<DirSeparator, DirSeparator>>
      BY <3>2
    <3> QED
      BY <3>3 DEF d, RootUrl, DirSeparator
  <2> QED
    BY <2>1, <2>3, <2>4, <2>5 DEF i
<1> QED
  BY <1>3, <1>4 DEF n

\* The wildcard for "/" covers all that has segments.
LEMMA RootCovers ==
  ASSUME NEW url \in Seq(Str), url # <<>>, url[1] = DirSeparator
  PROVE  /\ Covers(Segments(RootUrl), Segments(url)) <=> Len(url) > 1
         /\ Len(url) > 1 => Len(Segments(url)) \in Nat /\ Len(Segments(url)) >= 1
<1> DEFINE s == Segments(url)
<1>1. s \in Tidy(Str) /\ s \in Seq(Str) /\ Len(s) \in Nat
  BY SegmentsLemma, LenProperties DEF Tidy, Str
<1>2. s = <<>> <=> url = <<DirSeparator>>
  BY EmptyUrl, RootLemma DEF Str, DirSeparator
<1>3. Len(url) > 1 <=> url # <<DirSeparator>>
  <2> DEFINE c == <<DirSeparator>>
             n == Len(url)
  <2>1. n \in Nat /\ n # 0
    BY LenProperties, EmptySeq
  <2>2. n = 1 => url = c
    OBVIOUS
  <2>3. Len(c) = 1
    OBVIOUS
  <2> HIDE DEF c
  <2>4. url = c => n = 1
    BY <2>3
  <2> HIDE DEF n
  <2>5. n > 1 <=> url # c
    BY <2>1, <2>2, <2>4
  <2> QED
    BY <2>5 DEF c, n
<1>4. Segments(RootUrl) = <<DirSeparator>> /\ <<DirSeparator>> \in Tidy(Str)
  BY RootAndOldUrl, SegmentsLemma DEF Str
<1>5. IsDirectory(<<DirSeparator>>) /\ Len(Names(<<DirSeparator>>)) = 0
  <2> DEFINE c == <<DirSeparator>>
  <2>1. c \in Seq({DirSeparator}) /\ c # <<>> /\ Len(c) = 1 /\ c[1] = DirSeparator
    OBVIOUS
  <2> HIDE DEF c
  <2>2. Last(c) = c[Len(c)] /\ Len(Front(c)) = Len(c) - 1
    BY ONLY <2>1, FrontLemma
  <2>3. IsDirectory(c) /\ Len(Names(c)) = 0
    BY <2>1, <2>2 DEF IsDirectory, EndsWith, Names
  <2> QED
    BY <2>3 DEF c
<1> HIDE DEF s
<1>6. Covers(<<DirSeparator>>, s) <=> Len(Names(s)) > 0 \/ IsDirectory(s)
  <2>1. Len(Names(s)) \in Nat
    BY <1>1, NamesLemma
  <2> QED
    BY <1>1, <1>4, <1>5, <2>1, CoversLemma
<1>7. Len(Names(s)) > 0 \/ IsDirectory(s) <=> s # <<>>
  <2>1. Len(Names(s)) \in Nat /\ Len(s) = Len(Names(s)) + (IF IsDirectory(s) THEN 1 ELSE 0)
    BY <1>1, NamesLemma
  <2>2. Len(s) > 0 <=> s # <<>>
    BY <1>1, EmptySeq
  <2> QED
    BY <2>1, <2>2
<1>8. Len(url) > 1 => Len(s) >= 1
  BY <1>1, <1>2, <1>3, EmptySeq
<1> QED
  BY <1>1, <1>2, <1>3, <1>4, <1>6, <1>7, <1>8 DEF s

\* The exact table first.
LEMMA RouterExact ==
  ASSUME MarkersApart, NEW items, RouterItems(items), IsTable(memory.responses, items, TRUE), NEW q \in Requests
  PROVE  IF \E x \in items : x.path = ExactPath(q.url)
         THEN \E x \in items : /\ x.path = ExactPath(q.url) /\ Router!ServeAsset(q) = x
                               /\ RouterOffer(x) \in Offered(RouterOffers(items), ExactPath(q.url), q.accept)
         ELSE Router!GetAssetForRequest(q) = Router!FallbackFor(q)
<1> DEFINE table == memory.responses
           es == Found(table, q.url, q.accept)
           path == ExactPath(q.url)
<1>1. q.range = None /\ None \notin q.accept
  <2>1. q = [method |-> q.method, url |-> q.url, accept |-> q.accept, range |-> None]
    BY RequestAssumption, Zenon
  <2>2. None \notin q.accept
    BY RequestAssumption, Zenon
  <2> QED
    BY <2>1, <2>2
<1>2. Router!GetEncodedAsset(q) =
        IF es = {} THEN None
        ELSE Router!WholeOrFirstChunk(table[Router!Key(q.url, Router!BestEncoding(es), None)], q.url, Router!BestEncoding(es))
  BY <1>1 DEF Found, Router!GetEncodedAsset, Router!Encodings, Router!Has
<1>3. Router!GetPlainAsset(q) =
        IF Router!Key(q.url, None, None) \notin DOMAIN table THEN None
        ELSE Router!WholeOrFirstChunk(table[Router!Key(q.url, None, None)], q.url, None)
  BY <1>1 DEF Router!GetPlainAsset, Router!Has
<1>4. \A x \in items : \A url, e : Router!WholeOrFirstChunk(x, url, e) = x
  BY DEF Router!WholeOrFirstChunk, Router!BodyIsLarge, Router!IsLarge, OneChunk
<1>5. \A x \in items : x # None
  <2>1. \A x \in items : x = [path |-> x.path, response |-> x.response]
    BY DEF RouterItems
  <2> QED
    BY <2>1 DEF MarkersApart
<1>6. path = [exact |-> TRUE, url |-> q.url] /\ path.exact = TRUE /\ path.url = q.url
  BY DEF ExactPath
<1>7. Router!ServeAsset(q) = LET item == Router!GetAssetForRequest(q)
                             IN  IF item = None \/ Router!WitnessRefused(item, q.url) THEN None ELSE item
  BY <1>1 DEF Router!ServeAsset, Router!MaybeGetRangeBegin
<1>8. Router!GetAssetForRequest(q) =
        IF Router!GetEncodedAsset(q) # None THEN Router!GetEncodedAsset(q)
        ELSE IF Router!GetPlainAsset(q) # None THEN Router!GetPlainAsset(q) ELSE Router!FallbackFor(q)
  BY DEF Router!GetAssetForRequest
<1> HIDE DEF table, path
<1>9. CASE \E x \in items : x.path = path
  <2> DEFINE x == Pick(table, q.url, q.accept)
  <2>1. PICK p \in items : p.path = path
    BY <1>9
  <2>2. /\ Router!Key(q.url, None, None) \in DOMAIN table
        /\ x \in items /\ x.path = path /\ RouterOffer(x) \in Offered(RouterOffers(items), path, q.accept)
    <3>1. IsTable(table, items, path.exact) /\ path = [exact |-> path.exact, url |-> path.url]
      BY <1>6 DEF table
    <3>2. Picks(items, table, path, q.accept)
      BY ONLY <1>1, <2>1, <3>1, MarkersApart, RouterItems(items), RouterPick
    <3> QED
      BY <1>6, <3>2 DEF Picks
  <2>6. /\ es # {} => x = table[Router!Key(q.url, Router!BestEncoding(es), None)]
        /\ es = {} => x = table[Router!Key(q.url, None, None)]
    BY DEF Pick
  <2> HIDE DEF x, es
  <2>3. Router!GetAssetForRequest(q) = x
    <3>1. CASE es # {}
      <4>1. Router!GetEncodedAsset(q) = x
        BY <1>2, <1>4, <2>2, <2>6, <3>1
      <4> QED
        BY <1>5, <1>8, <2>2, <4>1
    <3>2. CASE es = {}
      <4>1. Router!GetEncodedAsset(q) = None
        BY <1>2, <3>2
      <4>2. Router!GetPlainAsset(q) = x
        BY <1>3, <1>4, <2>2, <2>6, <3>2
      <4> QED
        BY <1>5, <1>8, <2>2, <4>1, <4>2
    <3> QED
      BY <3>1, <3>2
  <2>4. ~Router!WitnessRefused(x, q.url)
    BY <1>6, <2>2 DEF Router!WitnessRefused
  <2>5. Router!ServeAsset(q) = x
    BY <1>5, <1>7, <2>3, <2>4
  <2> QED
    BY <1>9, <2>2, <2>5 DEF path
<1>10. CASE ~ \E x \in items : x.path = path
  <2>1. \A e : Router!Key(q.url, e, None) \notin DOMAIN table
    BY <1>6, <1>10 DEF IsTable, table
  <2>2. Router!GetEncodedAsset(q) = None /\ Router!GetPlainAsset(q) = None
    BY <1>2, <1>3, <2>1 DEF Found
  <2> QED
    BY <1>8, <1>10, <2>2 DEF path
<1> QED
  BY <1>9, <1>10

\* The wildcard for "/" after that, which is the only one.
LEMMA RouterFallback ==
  ASSUME MarkersApart, NEW items, RouterItems(items), IsTable(memory.fallback_responses, items, FALSE), NEW q \in Requests
  PROVE  IF (\E x \in items : x.path = WildPath(RootUrl)) /\ Len(q.url) > 1
         THEN \E x \in items : /\ x.path = WildPath(RootUrl) /\ Router!FallbackFor(q) = x
                               /\ RouterOffer(x) \in Offered(RouterOffers(items), WildPath(RootUrl), q.accept)
         ELSE Router!FallbackFor(q) = None
<1> DEFINE table == memory.fallback_responses
           es(scope) == Found(table, scope, q.accept)
           G(scope) == Router!GetFallback(scope, q)
           wild == WildPath(RootUrl)
           scopes == Router!Scopes(q.url)
           I == {i \in 1 .. Len(scopes) : G(scopes[i]) # None}
<1>1. None \notin q.accept
  BY RequestAssumption, Zenon
<1>2. \A scope : G(scope) =
        IF es(scope) # {} THEN table[Router!Key(scope, Router!BestEncoding(es(scope)), None)]
        ELSE IF Router!Key(scope, None, None) \in DOMAIN table THEN table[Router!Key(scope, None, None)] ELSE None
  BY DEF Found, Router!GetFallback, Router!Encodings, Router!Get, Router!Has
<1>3. wild = [exact |-> FALSE, url |-> RootUrl] /\ wild.exact = FALSE /\ wild.url = RootUrl
  BY DEF WildPath
<1>4. \A x \in items : x # None
  <2>1. \A x \in items : x = [path |-> x.path, response |-> x.response]
    BY DEF RouterItems
  <2> QED
    BY <2>1 DEF MarkersApart
<1> HIDE DEF table, wild, G
<1>5. ASSUME NEW scope, scope # RootUrl \/ ~ \E x \in items : x.path = wild
      PROVE  G(scope) = None
  <2>1. \A e : Router!Key(scope, e, None) \notin DOMAIN table
    <3> SUFFICES ASSUME NEW e, NEW x \in items, x.path = [exact |-> FALSE, url |-> scope]
                 PROVE  FALSE
      BY DEF IsTable, table
    <3>1. x.path.exact = FALSE /\ x.path.url = scope
      OBVIOUS
    <3>2. x.path.url = RootUrl
      BY <3>1 DEF RouterItems
    <3> QED
      BY <1>3, <1>5, <3>1, <3>2
  <2> QED
    BY <1>2, <2>1 DEF Found
<1>6. ASSUME \E x \in items : x.path = wild
      PROVE  \E x \in items : /\ x.path = wild /\ G(RootUrl) = x
                              /\ RouterOffer(x) \in Offered(RouterOffers(items), wild, q.accept)
  <2> DEFINE x == Pick(table, RootUrl, q.accept)
  <2>1. PICK p \in items : p.path = wild
    BY <1>6
  <2>2. /\ Router!Key(RootUrl, None, None) \in DOMAIN table
        /\ x \in items /\ x.path = wild /\ RouterOffer(x) \in Offered(RouterOffers(items), wild, q.accept)
    <3>1. IsTable(table, items, wild.exact) /\ wild = [exact |-> wild.exact, url |-> wild.url]
      BY <1>3 DEF table
    <3>2. Picks(items, table, wild, q.accept)
      BY ONLY <1>1, <2>1, <3>1, MarkersApart, RouterItems(items), RouterPick
    <3> QED
      BY <1>3, <3>2 DEF Picks
  <2>3. G(RootUrl) = x
    BY <1>2, <2>2 DEF Pick
  <2> QED
    BY <2>2, <2>3
<1>7. Router!FallbackFor(q) = LET i == IF I # {} THEN CHOOSE x \in I : \A y \in I : x =< y ELSE 0
                              IN  IF i = 0 THEN None ELSE G(scopes[i])
  BY DEF Router!FallbackFor, Router!SelectInSeq, Router!Min, G
<1>8. q.url \in Seq(Str) /\ q.url # <<>> /\ q.url[1] = DirSeparator
  BY AskedLemma
<1>9. /\ Len(scopes) = 2 * (Len(q.url) - 1)
      /\ Len(q.url) > 1 => \E i \in 1 .. Len(scopes) : scopes[i] = RootUrl
  BY <1>8, RootIsScope
<1>10. Len(q.url) \in Nat
  BY <1>8, LenProperties
<1> HIDE DEF scopes
<1>11. CASE (\E x \in items : x.path = wild) /\ Len(q.url) > 1
  <2>1. I # {}
    BY <1>4, <1>6, <1>9, <1>11
  <2>2. I \in SUBSET Nat
    BY <1>9, <1>10
  <2>3. \A i \in I : i # 0 /\ scopes[i] = RootUrl
    BY <1>5
  <2> HIDE DEF I
  <2>4. \E x \in I : \A y \in I : x =< y
    BY <2>1, <2>2, SmallestExists
  <2> DEFINE i == CHOOSE x \in I : \A y \in I : x =< y
  <2>5. i \in I
    BY <2>4
  <2> HIDE DEF i
  <2>6. Router!FallbackFor(q) = G(RootUrl)
    <3>1. i # 0 /\ scopes[i] = RootUrl
      BY <2>3, <2>5
    <3> QED
      BY <1>7, <2>1, <3>1 DEF i
  <2> QED
    BY <1>6, <1>11, <2>6 DEF wild
<1>12. CASE ~((\E x \in items : x.path = wild) /\ Len(q.url) > 1)
  <2>1. I = {}
    <3>1. CASE ~ \E x \in items : x.path = wild
      BY <1>5, <3>1
    <3>2. CASE ~(Len(q.url) > 1)
      <4>1. 1 .. Len(scopes) = {}
        BY <1>9, <1>10, <3>2
      <4> QED
        BY <4>1
    <3> QED
      BY <1>12, <3>1, <3>2
  <2> QED
    BY <1>7, <1>12, <2>1 DEF wild
<1> QED
  BY <1>11, <1>12 DEF wild

LEMMA ServeAssetLemma ==
  ASSUME NEW q \in Requests
  PROVE  Router!ServeAsset(q) = LET item == Router!GetAssetForRequest(q)
                                IN  IF item = None \/ Router!WitnessRefused(item, q.url) THEN None ELSE item
<1>1. q = [method |-> q.method, url |-> q.url, accept |-> q.accept, range |-> None]
  BY RequestAssumption, Zenon
<1>2. q.range = None
  BY <1>1
<1> QED
  BY <1>2 DEF Router!ServeAsset, Router!MaybeGetRangeBegin

\* assets serves its site.
LEMMA RouterServes ==
  ASSUME MarkersApart, NEW items, RouterItems(items), IsTable(memory.responses, items, TRUE),
         IsTable(memory.fallback_responses, items, FALSE), NEW q \in Requests
  PROVE  Serves(RouterOffers(items), RootUrl, q, RouterHandler(q))
<1> DEFINE offers == RouterOffers(items)
           answer == RouterHandler(q)
           IsFrom(p) == \E o \in Offered(offers, p, q.accept) : answer = [response |-> o.response, place |-> Place(p)]
<1>1. \A p : (\E o \in offers : o.path = p) <=> \E x \in items : x.path = p
  <2>1. \A x : RouterOffer(x).path = x.path
    BY DEF RouterOffer
  <2> QED
    BY <2>1 DEF RouterOffers
<1>2. CASE q.url = MetricsPath
  <2>1. answer = [response |-> ServeMetrics, place |-> MetricsPlace]
    BY <1>2 DEF RouterHandler
  <2>2. ServeMetrics = [status |-> "200", cel |-> "Skip", body |-> ServeMetrics.body]
    BY DEF ServeMetrics
  <2> QED
    BY <1>2, <2>1, <2>2 DEF Serves
<1>3. \A x \in items : x # None
  <2>1. \A x \in items : x = [path |-> x.path, response |-> x.response]
    BY DEF RouterItems
  <2> QED
    BY <2>1 DEF MarkersApart
<1>4. ASSUME q.url # MetricsPath, NEW x \in items, Router!ServeAsset(q) = x,
             RouterOffer(x) \in Offered(offers, x.path, q.accept)
      PROVE  IsFrom(x.path)
  <2>1. answer = [response |-> [status |-> x.response.status, cel |-> "Full", body |-> x.response],
                  place |-> Place(x.path)]
    BY <1>3, <1>4 DEF RouterHandler
  <2>2. RouterOffer(x).response = [status |-> x.response.status, cel |-> "Full", body |-> x.response]
    BY DEF RouterOffer
  <2> QED
    BY <1>4, <2>1, <2>2
<1> HIDE DEF offers, answer
<1>5. ASSUME q.url # MetricsPath, \E o \in offers : o.path = ExactPath(q.url)
      PROVE  IsFrom(ExactPath(q.url))
  <2>1. \E x \in items : x.path = ExactPath(q.url)
    BY <1>1, <1>5
  <2>2. PICK x \in items : /\ x.path = ExactPath(q.url) /\ Router!ServeAsset(q) = x
                           /\ RouterOffer(x) \in Offered(offers, ExactPath(q.url), q.accept)
    BY <2>1, RouterExact DEF offers
  <2> QED
    BY <1>4, <1>5, <2>2
<1>6. ASSUME q.url # MetricsPath, ~ \E o \in offers : o.path = ExactPath(q.url)
      PROVE  IF (\E o \in offers : o.path = WildPath(RootUrl)) /\ Covers(Segments(RootUrl), Segments(q.url))
             THEN IsFrom(WildPath(RootUrl)) ELSE answer = None
  <2>1. ~ \E x \in items : x.path = ExactPath(q.url)
    BY <1>1, <1>6
  <2>2. Router!GetAssetForRequest(q) = Router!FallbackFor(q)
    BY <2>1, RouterExact
  <2>3. /\ Covers(Segments(RootUrl), Segments(q.url)) <=> Len(q.url) > 1
        /\ Len(q.url) > 1 => Len(Segments(q.url)) \in Nat /\ Len(Segments(q.url)) >= 1
    BY AskedLemma, RootCovers
  <2>4. CASE (\E x \in items : x.path = WildPath(RootUrl)) /\ Len(q.url) > 1
    <3>1. PICK x \in items : /\ x.path = WildPath(RootUrl) /\ Router!FallbackFor(q) = x
                             /\ RouterOffer(x) \in Offered(offers, WildPath(RootUrl), q.accept)
      BY <2>4, RouterFallback DEF offers
    <3>2. ~Router!WitnessRefused(x, q.url)
      <4>1. \A url : Router!Segments(url) = Segments(url)
        BY DEF Segments, Router!Segments, NotEmpty, Router!NotEmpty, EndsWithSlash, Router!EndsWithSlash,
               DirSeparator, Router!DirSeparator, Last, Router!Last
      <4>2. x.path.url = RootUrl
        BY <3>1 DEF WildPath
      <4>3. Len(Segments(RootUrl)) = 1
        BY RootAndOldUrl
      <4>4. ~(Len(Segments(RootUrl)) > Len(Segments(q.url)))
        BY <2>3, <2>4, <4>3
      <4> QED
        BY <4>1, <4>2, <4>4 DEF Router!WitnessRefused
    <3>3. Router!ServeAsset(q) = x
      BY <1>3, <2>2, <3>1, <3>2, ServeAssetLemma
    <3>4. IsFrom(WildPath(RootUrl))
      BY <1>4, <1>6, <3>1, <3>3
    <3> QED
      BY <1>1, <2>3, <2>4, <3>4
  <2>5. CASE ~((\E x \in items : x.path = WildPath(RootUrl)) /\ Len(q.url) > 1)
    <3>1. Router!FallbackFor(q) = None
      BY <2>5, RouterFallback
    <3>2. Router!ServeAsset(q) = None
      BY <2>2, <3>1, ServeAssetLemma
    <3>3. answer = None
      BY <1>6, <3>2 DEF RouterHandler, answer
    <3> QED
      BY <1>1, <2>3, <2>5, <3>3
  <2> QED
    BY <2>4, <2>5
<1>7. Serves(offers, RootUrl, q, answer)
  BY <1>2, <1>5, <1>6 DEF Serves, offers, answer
<1> QED
  BY <1>7 DEF offers, answer

-----------------------------------------------------------------------------
(***************************************************************************)
(* What is recorded of a round goes together, in each example.             *)
(***************************************************************************)
LEMMA SiteGoesTogether ==
  ASSUME MarkersApart, NEW offers, NEW W \in Seq(Str), NEW cel \in {"Full", "ResponseOnly"}, IsSite(offers, W, cel),
         cel = "Full" <=> example = "assets",
         NEW r, IsTreeOf(r.tree, offers), r.data = r.tree, r.tree \notin {None, Garbled},
         \A p \in Requests : Serves(offers, W, p, r.answers[p])
  PROVE  GoTogether(r)
<1>1. ASSUME NEW q \in Requests PROVE Verified(r, q)
  BY SiteVerifies
<1>2. ASSUME NEW q \in Requests, NEW pc \in CertifiedIn(r.tree) PROVE Answered(r, q, pc)
  <2>1. pc \in SiteTree(offers)
    BY DEF IsTreeOf
  <2> QED
    BY <2>1, SiteAnswers
<1> QED
  BY <1>1, <1>2 DEF GoTogether

\* A tree with anything certified in it is no marker.
LEMMA TreeIsTree ==
  ASSUME MarkersApart, NEW S, NEW place, NEW certification
  PROVE  {<<place, certification>>} \cup S \notin {None, Garbled}
<1>1. {<<place, certification>>} \cup S = S \cup {<<place, certification>>}
  OBVIOUS
<1> QED
  BY <1>1 DEF MarkersApart

LEMMA CustomGoesTogether ==
  ASSUME MarkersApart, example = "custom-assets", NEW build \in Builds(example), example \in Examples,
         memory \in Memories(example, build), certified_data = memory.tree
  PROVE  GoTogether(Snapshot)
<1> DEFINE r == Snapshot
           offers == CustomOffers(build)
<1>1. PICK f \in build : f.path = IndexFile
  BY DEF Memories
<1>2. memory = CustomMemory(build)
  BY <1>1 DEF Memories
<1>3. IsSite(offers, IndexReqPath, "ResponseOnly") /\ memory.tree = SiteTree(offers)
  BY <1>2, CustomSite
<1>4. r.tree = memory.tree /\ r.data = r.tree /\ \A q \in Requests : r.answers[q] = AssetHandler(q)
  BY DEF Snapshot, Handler
<1>5. \A q \in Requests : Serves(offers, IndexReqPath, q, AssetHandler(q))
  BY <1>1, <1>2, CustomServes
<1>6. IndexReqPath \in Seq(Str)
  BY EmptyUrl DEF IndexReqPath
<1>7. r.tree \notin {None, Garbled}
  BY <1>3, <1>4, TreeIsTree DEF SiteTree
<1> HIDE DEF r, offers
<1>8. IsTreeOf(r.tree, offers)
  BY <1>3, <1>4 DEF IsTreeOf, CertifiedIn
<1>9. \A q \in Requests : Serves(offers, IndexReqPath, q, r.answers[q])
  BY <1>4, <1>5
<1>10. "ResponseOnly" \in {"Full", "ResponseOnly"} /\ ("ResponseOnly" = "Full" <=> example = "assets")
  OBVIOUS
<1>11. GoTogether(r)
  BY <1>3, <1>4, <1>6, <1>7, <1>8, <1>9, <1>10, SiteGoesTogether
<1> QED
  BY <1>11 DEF r

LEMMA RouterGoesTogether ==
  ASSUME MarkersApart, example = "assets", NEW build \in Builds(example), example \in Examples,
         memory \in Memories(example, build), certified_data = memory.tree
  PROVE  GoTogether(Snapshot)
<1> DEFINE r == Snapshot
<1>1. memory \in RouterMemories(build)
  BY DEF Memories
<1>2. PICK items : /\ RouterItems(items)
                   /\ IsTable(memory.responses, items, TRUE) /\ IsTable(memory.fallback_responses, items, FALSE)
                   /\ memory.tree = {<<MetricsPlace, Skip>>} \cup {Router!Entry(x) : x \in items}
  BY <1>1, RouterMemory
<1> DEFINE offers == RouterOffers(items)
<1>3. /\ IsSite(offers, RootUrl, "Full") /\ RouterCertified(memory.tree) = SiteTree(offers)
      /\ {pc[1] : pc \in memory.tree} = {pc[1] : pc \in SiteTree(offers)}
  BY <1>2, RouterSite
<1>4. r.tree = memory.tree /\ r.data = r.tree /\ \A q \in Requests : r.answers[q] = RouterHandler(q)
  BY DEF Snapshot, Handler
<1>5. \A q \in Requests : Serves(offers, RootUrl, q, RouterHandler(q))
  BY <1>2, RouterServes
<1>6. RootUrl \in Seq(Str)
  BY RootAndOldUrl
<1>7. r.tree \notin {None, Garbled}
  BY <1>2, <1>4, TreeIsTree
<1> HIDE DEF r, offers
<1>8. IsTreeOf(r.tree, offers)
  BY <1>3, <1>4 DEF IsTreeOf, CertifiedIn
<1>9. \A q \in Requests : Serves(offers, RootUrl, q, r.answers[q])
  BY <1>4, <1>5
<1>10. "Full" \in {"Full", "ResponseOnly"} /\ ("Full" = "Full" <=> example = "assets")
  OBVIOUS
<1>11. GoTogether(r)
  BY <1>3, <1>4, <1>6, <1>7, <1>8, <1>9, <1>10, SiteGoesTogether
<1> QED
  BY <1>11 DEF r

\* skip-certification has one place, for all.
LEMMA SkipGoesTogether ==
  ASSUME MarkersApart, example = "skip-certification", NEW build,
         memory \in Memories(example, build), certified_data = memory.tree
  PROVE  GoTogether(Snapshot)
<1> DEFINE r == Snapshot
           tree == {<<SkipPlace, Skip>>}
<1>1. memory = SkipMemory
  BY DEF Memories
<1>2. r.tree = tree /\ r.data = tree /\ \A q \in Requests : r.answers[q] = SkipHandler
  BY <1>1 DEF Snapshot, Handler, SkipMemory
<1>3. SkipPlace = [segments |-> <<>>, exact |-> FALSE]
  BY EmptyUrl DEF SkipPlace, Place
<1>4. Shaped(SkipHandler) /\ SkipHandler.place = SkipPlace /\ \A q : Recomputed(q, SkipHandler.response) = Skip
  <2>1. /\ SkipHandler.place = SkipPlace
        /\ SkipHandler.response = [status |-> "200", cel |-> "Skip", body |-> "balance"]
        /\ SkipHandler = [response |-> SkipHandler.response, place |-> SkipHandler.place]
    BY DEF SkipHandler
  <2>2. SkipHandler.response.cel = "Skip"
    BY <2>1
  <2>3. \A q : Recomputed(q, SkipHandler.response) = Skip
    BY <2>2 DEF Recomputed, Skip
  <2>4. Shaped(SkipHandler)
    <3>1. SkipHandler.response.status = "200" /\ SkipHandler.response.body = "balance"
      BY <2>1
    <3>2. SkipHandler.place.segments = <<>> /\ SkipHandler.place.exact = FALSE
      BY <1>3, <2>1
    <3> QED
      BY <1>3, <2>1, <2>2, <3>1, <3>2 DEF Shaped
  <2> QED
    BY <2>1, <2>3, <2>4
<1>5. r.tree \notin {None, Garbled}
  <2>1. {<<SkipPlace, Skip>>} \cup {} \notin {None, Garbled}
    BY TreeIsTree
  <2> QED
    BY <1>2, <2>1
<1>6. CertifiedIn(r.tree) = tree
  BY <1>2 DEF CertifiedIn
<1>7. \A pc \in tree : pc[1] = SkipPlace /\ pc[2] = Skip
  OBVIOUS
<1>8. {pc[1] : pc \in tree} = {SkipPlace}
  OBVIOUS
<1> HIDE DEF r
<1>9. ASSUME NEW q \in Requests PROVE Verified(r, q)
  <2>1. Best(tree, SkipPlace, q.url)
    <3>1. Covers(<<>>, Segments(q.url))
      BY AskedLemma, EmptyUrl
    <3>2. ~MoreSpecific(<<>>, <<>>)
      <4>1. Len(Names(<<>>)) = 0
        BY DEF Names, IsDirectory, EndsWith
      <4> QED
        BY <4>1 DEF MoreSpecific
    <3>3. Answers(SkipPlace, q.url)
      BY <1>3, <3>1 DEF Answers
    <3>4. ~Outdone({SkipPlace}, SkipPlace, q.url)
      BY <1>3, <3>2 DEF Outdone
    <3> QED
      BY <1>8, <3>3, <3>4 DEF Best
  <2>2. Passes(q, SkipHandler, tree)
    BY <1>4, <2>1 DEF Passes
  <2>3. ~Misspelt(q, r.tree) /\ ~NotAGet(q)
    <3>1. ~NotAGet(q)
      BY DEF NotAGet
    <3>2. SkipPlace.exact = FALSE
      BY <1>3
    <3>3. \A pc \in r.tree : ~pc[1].exact
      BY <1>2, <1>7, <3>2
    <3>4. ~Misspelt(q, r.tree)
      BY <3>3 DEF Misspelt
    <3> QED
      BY <3>1, <3>4
  <2> QED
    BY <1>2, <1>4, <1>6, <2>2, <2>3 DEF Verified
<1>10. ASSUME NEW q \in Requests, NEW pc \in CertifiedIn(r.tree) PROVE Answered(r, q, pc)
  BY <1>6, <1>7, <1>10 DEF Answered
<1>11. GoTogether(r)
  BY <1>2, <1>5, <1>9, <1>10 DEF GoTogether
<1> QED
  BY <1>11 DEF r

-----------------------------------------------------------------------------
(***************************************************************************)
(* The invariant is inductive.                                             *)
(***************************************************************************)
LEMMA SequenceOfItself ==
  ASSUME NEW S, NEW s \in Seq(S)
  PROVE  s \in Seq({s[i] : i \in DOMAIN s})
<1> DEFINE T == {s[i] : i \in DOMAIN s}
<1>1. Len(s) \in Nat /\ s \in [1 .. Len(s) -> S] /\ DOMAIN s = 1 .. Len(s)
  BY LenProperties
<1>2. \A i \in 1 .. Len(s) : s[i] \in T
  BY <1>1
<1>3. s \in [1 .. Len(s) -> T]
  BY <1>1, <1>2
<1> HIDE DEF T
<1>4. s \in Seq(T)
  BY <1>1, <1>3
<1> QED
  BY <1>4 DEF T

LEMMA InitInvariant == Init => IInv
<1> SUFFICES ASSUME Init PROVE IInv
  OBVIOUS
<1>1. Rounds = {} /\ history = <<>> /\ Len(history) = 0
  BY DEF Init, Rounds
<1>2. 0 <= MaxRounds
  BY BoundsAssumption, WidthAssumption
<1> QED
  BY <1>1, <1>2 DEF Init, IInv

\* A record that goes together still does when the example is the same.
LEMMA RecordsAreKept ==
  ASSUME example' = example, NEW r, GoTogether(r)
  PROVE  GoTogether(r)'
<1>1. \A tree : CertifiedIn(tree)' = CertifiedIn(tree)
  BY DEF CertifiedIn
<1>2. \A q : NotAGet(q)' <=> NotAGet(q)
  BY DEF NotAGet
<1>3. ASSUME NEW q \in Requests
      PROVE  Verified(r, q)'
  <2>1. Verified(r, q)
    BY DEF GoTogether
  <2> QED
    BY <1>1, <1>2, <2>1 DEF Verified
<1>4. ASSUME NEW q \in Requests, NEW pc \in CertifiedIn(r.tree)
      PROVE  Answered(r, q, pc)'
  <2>1. Answered(r, q, pc)
    BY DEF GoTogether
  <2> QED
    BY <1>1, <2>1 DEF Answered
<1> QED
  BY <1>1, <1>3, <1>4 DEF GoTogether

LEMMA NextInvariant ==
  ASSUME MarkersApart
  PROVE  IInv /\ [Next]_vars => IInv'
<1> SUFFICES ASSUME IInv, [Next]_vars PROVE IInv'
  OBVIOUS
<1>1. example' = example
  BY DEF Next, Round, Upgrade, vars
<1>2. ASSUME NEW r \in Rounds PROVE GoTogether(r)'
  BY <1>1, RecordsAreKept DEF IInv
<1>3. CASE Round
  <2>1. PICK r : r = Snapshot
    OBVIOUS
  <2>2. GoTogether(Snapshot)
    BY ExamplesAssumption, CustomGoesTogether, RouterGoesTogether, SkipGoesTogether DEF IInv
  <2>3. GoTogether(r)'
    BY <1>1, <2>1, <2>2, RecordsAreKept
  <2>4. history' = Append(history, r) /\ UNCHANGED <<memory, certified_data>> /\ Len(history) < MaxRounds
    BY <1>3, <2>1 DEF Round
  <2>5. history \in Seq(Rounds \cup {r}) /\ r \in Rounds \cup {r} /\ Len(history) \in Nat
    BY LenProperties, SeqMonotonic DEF IInv
  <2>6. history' \in Seq(Rounds \cup {r}) /\ Len(history') = Len(history) + 1
    BY <2>4, <2>5, AppendProperties
  <2>7. \A s \in Rounds' : s \in Rounds \cup {r}
    <3>1. \A i \in DOMAIN history' : history'[i] \in Rounds \cup {r}
      BY <2>6
    <3> QED
      BY <3>1 DEF Rounds
  <2>8. history' \in Seq(Rounds')
    BY <2>6, SequenceOfItself DEF Rounds
  <2>9. Len(history') <= MaxRounds
    BY <2>4, <2>5, <2>6, BoundsAssumption, WidthAssumption
  <2>10. \A s \in Rounds' : GoTogether(s)'
    BY <1>2, <2>3, <2>7
  <2> QED
    BY <1>1, <2>4, <2>8, <2>9, <2>10 DEF IInv
<1>4. ASSUME NEW build \in Builds(example), Upgrade(build) PROVE IInv'
  <2>1. Rounds' = Rounds
    BY <1>4 DEF Upgrade, Rounds
  <2> QED
    BY <1>1, <1>2, <1>4, <2>1 DEF IInv, Upgrade
<1>5. CASE UNCHANGED vars
  <2>1. Rounds' = Rounds
    BY <1>5 DEF vars, Rounds
  <2> QED
    BY <1>1, <1>2, <1>5, <2>1 DEF IInv, vars
<1> QED
  BY <1>3, <1>4, <1>5 DEF Next

-----------------------------------------------------------------------------
\* Whatever a canister answers passes the gateway as long as the certificate is fresh,
\* but for what is misspelt and, where the router certifies, what is not a GET.
THEOREM AnswersAreAccepted ==
  ASSUME MarkersApart
  PROVE  Spec => []AnswersVerify
<1>1. IInv => AnswersVerify
  BY InvariantVerifies
<1> QED
  BY <1>1, InitInvariant, NextInvariant, PTL DEF Spec

\* Whatever passes the gateway, of whichever round, a canister with the certificate it
\* came with answers in a round that is fresh.
THEOREM AcceptedAnswersAreCurrent ==
  ASSUME MarkersApart
  PROVE  Spec => []AcceptedIsCurrent
<1>1. IInv => AcceptedIsCurrent
  BY InvariantAccepts
<1> QED
  BY <1>1, InitInvariant, NextInvariant, PTL DEF Spec
=============================================================================
