------------------------- MODULE TodoServiceProofs --------------------------
(***************************************************************************)
(* The to-do canister for any titles, requests, rounds and subnets: its    *)
(* memory and its certified data agree at all times, only subnets in       *)
(* charge can answer for it, and what the gateway accepts was served.      *)
(***************************************************************************)
EXTENDS TodoService, UrlPathsProofs

-----------------------------------------------------------------------------
(***************************************************************************)
(* The memory of the canister.                                             *)
(***************************************************************************)
\* The certifications that belong to a table of responses.
HoldsFor(table) ==
  {<<TodosPlace, FullCertification(m, table[m])>> : m \in DOMAIN table}
    \cup {<<NotFoundPlace, ResponseOnly(NotFound)>>}

WellFormed(table) ==
  /\ DOMAIN table = NotAllowedMethods \cup {"GET"}
  /\ \A m \in DOMAIN table : table[m] = Response(table[m].status, table[m].body, "Full")

Agree(h) == /\ h.time \in Nat
            /\ WellFormed(h.responses)
            /\ h.tree = HoldsFor(h.responses)
            /\ h.data = h.tree

\* The inductive invariant: the canister agrees with itself, and so did every
\* memory that has been certified.
IInv == /\ InStep
        /\ clock \in Nat
        /\ WellFormed(responses)
        /\ \A h \in history : Agree(h)

\* Certifying a response replaces the one certification the table had for its method.
LEMMA CertifyLemma ==
  ASSUME WellFormed(responses), tree = HoldsFor(responses),
         NEW items, CertifyResponse("GET", ListTodos(items))
  PROVE  /\ WellFormed(responses')
         /\ responses'["GET"] = ListTodos(items)
         /\ tree' = HoldsFor(responses')
         /\ certified_data' = tree'
<1>1. /\ DOMAIN responses' = DOMAIN responses
      /\ responses'["GET"] = ListTodos(items)
      /\ \A m \in DOMAIN responses \ {"GET"} : responses'[m] = responses[m]
  BY DEF CertifyResponse, Put, WellFormed
<1>2. WellFormed(responses')
  BY <1>1 DEF WellFormed, ListTodos, Response
<1>3. Existing("GET") = {<<TodosPlace, FullCertification("GET", responses["GET"])>>}
  BY DEF Existing, WellFormed
<1>4. \A m \in DOMAIN responses \ {"GET"} :
        FullCertification(m, responses[m]) # FullCertification("GET", responses["GET"])
  BY DEF FullCertification
<1>5. ResponseOnly(NotFound) # FullCertification("GET", responses["GET"])
  BY DEF FullCertification, ResponseOnly
<1>6. tree \ Existing("GET") =
        {<<TodosPlace, FullCertification(m, responses'[m])>> : m \in DOMAIN responses \ {"GET"}}
          \cup {<<NotFoundPlace, ResponseOnly(NotFound)>>}
  BY <1>1, <1>3, <1>4, <1>5 DEF HoldsFor
<1>7. tree' = (tree \ Existing("GET"))
                \cup {<<TodosPlace, FullCertification("GET", responses'["GET"])>>}
  BY <1>1 DEF CertifyResponse
<1>8. tree' = HoldsFor(responses')
  BY <1>1, <1>6, <1>7 DEF HoldsFor, WellFormed
<1> QED
  BY <1>1, <1>2, <1>8 DEF CertifyResponse

\* What init certifies is such a table and its certifications.
LEMMA InitialLemma ==
  /\ WellFormed(InitialResponses)
  /\ InitialResponses["GET"] = ListTodos(<<>>)
  /\ InitialTree = HoldsFor(InitialResponses)
BY DEF WellFormed, InitialResponses, InitialTree, HoldsFor, ListTodos, NotAllowed, Response, NotAllowedMethods

\* A canister that is installed agrees with itself.
LEMMA InitInvariant == Init => IInv
BY InitialLemma DEF Init, CanisterInit, IInv, InStep, HoldsFor

\* Every message certifies the list it leaves behind, or runs init.
LEMMA MessageInvariant == IInv /\ Message => IInv'
<1> SUFFICES ASSUME IInv, Message PROVE IInv'
  OBVIOUS
<1> USE DEF IInv
<1>0. clock' = clock /\ history' = history
  BY DEF Message, serviceVars
<1>1. tree = HoldsFor(responses)
  BY DEF InStep, HoldsFor
<1>2. CASE CertifyListTodosResponse
  <2>1. /\ WellFormed(responses')
        /\ responses'["GET"] = ListTodos(todo_items')
        /\ tree' = HoldsFor(responses')
        /\ certified_data' = tree'
    BY <1>1, <1>2, CertifyLemma DEF CertifyListTodosResponse
  <2> QED
    BY <1>0, <2>1 DEF InStep, HoldsFor
<1>3. CASE Upgrade
  BY <1>0, <1>3, InitialLemma DEF Upgrade, InStep, HoldsFor
<1> QED
  BY <1>2, <1>3 DEF Message, CanisterNext, CreateTodoItem, UpdateTodoItem, DeleteTodoItem

\* A round records a memory that agrees with itself.
LEMMA RoundInvariant == IInv /\ Round => IInv'
<1> SUFFICES ASSUME IInv, Round PROVE IInv'
  OBVIOUS
<1> USE DEF IInv
<1>1. InStep' /\ WellFormed(responses)' /\ clock' \in Nat
  BY DEF Round, canisterVars, InStep
<1>2. Agree(Snapshot)
  BY <1>1 DEF Agree, Snapshot, InStep, HoldsFor
<1> QED
  BY <1>1, <1>2 DEF Round

\* A canister that moves takes its memory along.
LEMMA NextInvariant == IInv /\ [Next]_vars => IInv'
<1> SUFFICES ASSUME IInv, [Next]_vars PROVE IInv'
  OBVIOUS
<1>1. CASE Message
  BY <1>1, MessageInvariant
<1>2. CASE Round
  BY <1>2, RoundInvariant
<1>3. CASE UNCHANGED canisterVars /\ UNCHANGED <<clock, history>>
  BY <1>3 DEF IInv, InStep, canisterVars
<1> QED
  BY <1>1, <1>2, <1>3 DEF Next, Move, vars, serviceVars

\* Whatever is created, changed, deleted and upgraded in whatever order, what the
\* canister has certified is what it keeps and serves, and nothing from before.
THEOREM MemoryIsInStep == Spec => []InStep
<1>1. IInv => InStep
  BY DEF IInv
<1> QED
  BY <1>1, InitInvariant, NextInvariant, PTL DEF Spec

\* Identifiers stay within their width, and what is recorded of a round is of its time.
THEOREM TypeCorrect == Spec => []TypeOK
<1>1. Init => TypeOK
  BY IdAssumption, BoundsAssumption DEF Init, CanisterInit, TypeOK
<1>2. TypeOK /\ [Next]_vars => TypeOK'
  <2> SUFFICES ASSUME TypeOK, [Next]_vars PROVE TypeOK'
    OBVIOUS
  <2> USE DEF TypeOK
  <2>1. ASSUME Message PROVE TypeOK'
    <3>1. /\ next_todo_id' \in 0 .. IdLimit - 1
          /\ DOMAIN todo_items' \subseteq 0 .. IdLimit - 1
      <4>1. ASSUME NEW title \in Titles, CreateTodoItem(title)
            PROVE  /\ next_todo_id' \in 0 .. IdLimit - 1
                   /\ DOMAIN todo_items' \subseteq 0 .. IdLimit - 1
        BY <4>1, IdAssumption DEF CreateTodoItem, Put
      <4>2. ASSUME NEW id, NEW title, NEW completed, UpdateTodoItem(id, title, completed)
            PROVE  /\ next_todo_id' \in 0 .. IdLimit - 1
                   /\ DOMAIN todo_items' \subseteq 0 .. IdLimit - 1
        BY <4>2 DEF UpdateTodoItem
      <4>3. ASSUME NEW id, DeleteTodoItem(id)
            PROVE  /\ next_todo_id' \in 0 .. IdLimit - 1
                   /\ DOMAIN todo_items' \subseteq 0 .. IdLimit - 1
        BY <4>3 DEF DeleteTodoItem
      <4>4. CASE Upgrade
        BY <4>4, IdAssumption DEF Upgrade
      <4> QED
        BY <2>1, <4>1, <4>2, <4>3, <4>4 DEF Message, CanisterNext
    <3> QED
      BY <2>1, <3>1 DEF Message, serviceVars
  <2>2. CASE Round
    BY <2>2, BoundsAssumption DEF Round, Snapshot, canisterVars
  <2>3. ASSUME NEW subnet \in Delegates \cup {Root}, Move(subnet) PROVE TypeOK'
    BY <2>3 DEF Move, canisterVars
  <2>4. CASE UNCHANGED vars
    BY <2>4 DEF vars, canisterVars, serviceVars
  <2> QED
    BY <2>1, <2>2, <2>3, <2>4 DEF Next
<1> QED
  BY <1>1, <1>2, PTL DEF Spec

-----------------------------------------------------------------------------
(***************************************************************************)
(* What a certificate that verifies says.                                  *)
(***************************************************************************)
\* What a subnet's state says at each path a verifier looks for.
LEMMA ContentsLemma ==
  ASSUME NEW h, NEW s, NEW p \in DOMAIN Contents(h, s)
  PROVE  /\ p = TimePath => Contents(h, s)[p] = h.time
         /\ p = CertifiedDataPath(Canister) => Contents(h, s)[p] = h.data /\ h.home = s
         /\ \A t : p = CanisterRangesPath(t) => Contents(h, s)[p] = Ranges(h, t)
         /\ \A t : p = PublicKeyPath(t) => Contents(h, s)[p] = t
<1>1. Contents(h, s)[p] = CASE p[1] = "time"     -> h.time
                            [] p[1] = "canister" -> h.data
                            [] IsRange(p)        -> Ranges(h, p[2])
                            [] IsKey(p)          -> p[2]
  BY DEF Contents
<1>2. ASSUME p = TimePath PROVE Contents(h, s)[p] = h.time
  <2>1. p[1] = "time"
    BY <1>2 DEF TimePath, Path
  <2> QED
    BY <1>1, <2>1 DEF IsRange, IsKey
<1>3. ASSUME p = CertifiedDataPath(Canister) PROVE Contents(h, s)[p] = h.data
  <2>1. p[1] = "canister"
    BY <1>3 DEF CertifiedDataPath, Path
  <2> QED
    BY <1>1, <2>1 DEF IsRange, IsKey
<1>4. ASSUME p = CertifiedDataPath(Canister) PROVE h.home = s
  <2>1. p[1] = "canister"
    BY <1>4 DEF CertifiedDataPath, Path
  <2>2. TimePath[1] # "canister"
    BY DEF TimePath, Path
  <2>3. \A t : \A r \in RightsOf(t) : r[1] # "canister"
    BY DEF RightsOf, CanisterRangesPath, PublicKeyPath, Path
  <2> QED
    BY <2>1, <2>2, <2>3 DEF Contents
<1>5. ASSUME NEW t, p = CanisterRangesPath(t) PROVE Contents(h, s)[p] = Ranges(h, t)
  <2>1. p[1] = "subnet" /\ p[2] = t /\ p[3] = "canister_ranges"
    BY <1>5 DEF CanisterRangesPath, Path
  <2> QED
    BY <1>1, <2>1 DEF IsRange, IsKey
<1>6. ASSUME NEW t, p = PublicKeyPath(t) PROVE Contents(h, s)[p] = t
  <2>1. p[1] = "subnet" /\ p[2] = t /\ p[3] = "public_key"
    BY <1>6 DEF PublicKeyPath, Path
  <2> QED
    BY <1>1, <2>1 DEF IsRange, IsKey
<1> QED
  BY <1>2, <1>3, <1>4, <1>5, <1>6

\* What the gateway finds in a certificate of an honest subnet is from the round.
LEMMA LookupLemma ==
  ASSUME NEW h, NEW s, NEW shown, NEW d, NEW p,
         LookupPath(Signed(s, Contents(h, s), shown, d).tree, p) # None
  PROVE  /\ p \in DOMAIN Contents(h, s)
         /\ LookupPath(Signed(s, Contents(h, s), shown, d).tree, p) = Contents(h, s)[p]
BY DEF LookupPath, Signed

\* The bounds, computed with saturation, are those of unbounded numbers.
LEMMA WindowLemma ==
  ASSUME NEW h, h.time \in Nat, NEW s, NEW shown, NEW d, NEW now \in Nat, NEW offset \in Nat,
         VerifyCertificateTime(Signed(s, Contents(h, s), shown, d), now, offset) = "Ok"
  PROVE  WithinOffset(h.time, now, offset)
<1> DEFINE c == Signed(s, Contents(h, s), shown, d)
           time == LookupPath(c.tree, TimePath)
<1>1. /\ time # None
      /\ ~(time > SaturatingAdd(now, offset))
      /\ ~(time < SaturatingSub(now, offset))
  BY DEF VerifyCertificateTime
<1>2. TimePath \in DOMAIN Contents(h, s) /\ time = Contents(h, s)[TimePath]
  BY <1>1, LookupLemma
<1>3. time = h.time
  BY <1>2, ContentsLemma
<1>4. SaturatingAdd(now, offset) \in Nat /\ SaturatingAdd(now, offset) <= now + offset
  BY WidthAssumption DEF SaturatingAdd
<1>5. SaturatingSub(now, offset) \in Nat /\ SaturatingSub(now, offset) >= now - offset
  BY DEF SaturatingSub
<1> HIDE DEF time
<1> QED
  BY <1>1, <1>3, <1>4, <1>5 DEF WithinOffset

\* A certificate that verifies is of a time within the window, with a delegation that
\* verifies if it has one, and signed with the key these lead to.
LEMMA VerifyLemma ==
  ASSUME NEW s, NEW contents, NEW shown, NEW d, NEW now, NEW offset,
         Verify(Signed(s, contents, shown, d), Canister, Root, now, offset) = "Ok"
  PROVE  /\ VerifyCertificateTime(Signed(s, contents, shown, d), now, offset) = "Ok"
         /\ d # None => VerifyDelegation(d, Canister, Root) = "Ok"
         /\ s = SigningKey(Signed(s, contents, shown, d), Root)
<1> DEFINE c == Signed(s, contents, shown, d)
<1>1. c.delegation = d /\ c.signature = [by |-> s, of |-> contents] /\ Digest(c.tree) = contents
  BY DEF Signed, Digest
<1>2. VerifyCertificateSignature(c, SigningKey(c, Root)) = "Ok"
  BY DEF Verify
<1>3. c.signature = [by |-> SigningKey(c, Root), of |-> Digest(c.tree)]
  BY <1>2 DEF VerifyCertificateSignature
<1>4. s = SigningKey(c, Root)
  BY <1>1, <1>3
<1> QED
  BY <1>1, <1>4 DEF Verify

\* A delegation that verifies is the root's, to the subnet that hosted the canister
\* at some round.
LEMMA DelegationLemma ==
  ASSUME NEW d \in Delegations, d # None, VerifyDelegation(d, Canister, Root) = "Ok"
  PROVE  \E h \in history : LookupPath(d.certificate.tree, PublicKeyPath(d.subnet_id)) = h.home
<1> DEFINE cert == d.certificate
<1>1. /\ VerifyCertificateSignature(cert, Root) = "Ok"
      /\ LookupPath(cert.tree, CanisterRangesPath(d.subnet_id)) # None
      /\ PrincipalIsWithinRanges(Canister, LookupPath(cert.tree, CanisterRangesPath(d.subnet_id)))
      /\ LookupPath(cert.tree, PublicKeyPath(d.subnet_id)) # None
  BY DEF VerifyDelegation
<1>2. cert.signature.by = Root
  BY <1>1 DEF VerifyCertificateSignature
<1>3. d \notin FalseDelegations
  BY <1>2, SubnetAssumption DEF FalseDelegations, Delegation, Signed
<1>4. Certified(Root) = {Contents(h, Root) : h \in history}
  BY SubnetAssumption DEF Certified
<1>5. PICK t \in Delegates : \E h \in history, shown \in AllBut(RightsOf(t)) :
        d = Delegation(t, Signed(Root, Contents(h, Root), shown, None))
  BY <1>3, <1>4 DEF Delegations, RootDelegations
<1>6. PICK h \in history, shown \in AllBut(RightsOf(t)) :
        d = Delegation(t, Signed(Root, Contents(h, Root), shown, None))
  BY <1>5
<1>7. d.subnet_id = t /\ cert = Signed(Root, Contents(h, Root), shown, None)
  BY <1>6 DEF Delegation
<1>8. LookupPath(cert.tree, CanisterRangesPath(t)) = Ranges(h, t)
  <2>1. /\ CanisterRangesPath(t) \in DOMAIN Contents(h, Root)
        /\ LookupPath(cert.tree, CanisterRangesPath(t)) = Contents(h, Root)[CanisterRangesPath(t)]
    BY <1>1, <1>7, LookupLemma
  <2> QED
    BY <2>1, ContentsLemma
<1>9. LookupPath(cert.tree, PublicKeyPath(t)) = t
  <2>1. /\ PublicKeyPath(t) \in DOMAIN Contents(h, Root)
        /\ LookupPath(cert.tree, PublicKeyPath(t)) = Contents(h, Root)[PublicKeyPath(t)]
    BY <1>1, <1>7, LookupLemma
  <2> QED
    BY <2>1, ContentsLemma
<1>10. h.home = t
  BY <1>1, <1>7, <1>8, BoundsAssumption DEF Ranges, PrincipalIsWithinRanges
<1> QED
  BY <1>7, <1>9, <1>10

\* Whatever the faulty subnets certify and pass on, no certificate verifies but one of
\* the root or of a subnet that hosted the canister.
THEOREM OthersCannotAnswer == Spec => []OnlySubnetsInCharge
<1>1. OnlySubnetsInCharge
  <2> SUFFICES ASSUME NEW d \in Delegations, NEW s \in Delegates \cup {Root}, NEW contents \in Certified(s),
                      NEW shown, NEW now, NEW offset,
                      Verify(Signed(s, contents, shown, d), Canister, Root, now, offset) = "Ok"
               PROVE  \E h \in history : s \in {Root, h.home}
    BY DEF OnlySubnetsInCharge
  <2>1. CASE d = None
    <3>1. s = Root
      BY <2>1, VerifyLemma DEF SigningKey, Signed
    <3> QED
      BY <3>1, SubnetAssumption DEF Certified
  <2>2. CASE d # None
    <3>1. s = LookupPath(d.certificate.tree, PublicKeyPath(d.subnet_id))
      BY <2>2, VerifyLemma DEF SigningKey, Signed
    <3> QED
      BY <2>2, <3>1, VerifyLemma, DelegationLemma
  <2> QED
    BY <2>1, <2>2
<1> QED
  BY <1>1, PTL

-----------------------------------------------------------------------------
(***************************************************************************)
(* What the gateway accepts.                                               *)
(***************************************************************************)
\* The places there can be over a set of segments.
PlacesOver(Segment) == [segments : Seq(Segment), exact : BOOLEAN]

\* Two wildcards that cover one request, neither of them more specific, are the same.
LEMMA WildcardsLemma ==
  ASSUME NEW Segment, DirSeparator \in Segment,
         NEW v \in Seq(Segment), NEW w \in Seq(Segment), NEW request,
         Covers(v, request), Covers(w, request), ~MoreSpecific(v, w), ~MoreSpecific(w, v)
  PROVE  v = w
<1>1. ASSUME NEW u \in Seq(Segment)
      PROVE  /\ Names(u) \in Seq(Segment)
             /\ IsDirectory(u) => u = Append(Names(u), DirSeparator)
             /\ ~IsDirectory(u) => u = Names(u)
  <2>1. CASE ~IsDirectory(u)
    BY <2>1 DEF Names
  <2>2. CASE IsDirectory(u)
    <3>1. PICK n \in Nat : Len(u) = n + 1 /\ Names(u) = SubSeq(u, 1, n) /\ u[n + 1] = DirSeparator
      <4>1. Len(u) \in Nat /\ Len(u) # 0 /\ u[Len(u)] = DirSeparator
        BY <2>2 DEF IsDirectory, EndsWith, Last
      <4>2. Names(u) = SubSeq(u, 1, Len(u) - 1)
        BY <2>2 DEF Names, Front
      <4>3. Len(u) - 1 \in Nat /\ Len(u) = (Len(u) - 1) + 1
        BY <4>1
      <4> QED
        BY <4>1, <4>2, <4>3
    <3>2. \A i \in 1 .. n : u[i] \in Segment
      BY <3>1, LenProperties
    <3>3. /\ SubSeq(u, 1, n) \in Seq(Segment)
          /\ Len(SubSeq(u, 1, n)) = n
          /\ \A i \in 1 .. n : SubSeq(u, 1, n)[i] = u[i]
      <4>1. /\ SubSeq(u, 1, n) \in Seq(Segment)
            /\ Len(SubSeq(u, 1, n)) = IF 1 <= n THEN n - 1 + 1 ELSE 0
            /\ \A i \in 1 .. n - 1 + 1 : SubSeq(u, 1, n)[i] = u[1 + i - 1]
        <5>1. 1 \in Int /\ n \in Int
          OBVIOUS
        <5> QED
          BY <3>2, <5>1, SubSeqProperties
      <4>2. n - 1 + 1 = n /\ \A i \in 1 .. n : 1 + i - 1 = i
        OBVIOUS
      <4> QED
        BY <4>1, <4>2
    <3>4. Names(u) \in Seq(Segment) /\ Len(Names(u)) = n /\ \A i \in 1 .. n : Names(u)[i] = u[i]
      BY <3>1, <3>3
    <3> DEFINE joined == Append(Names(u), DirSeparator)
    <3>5. /\ joined \in Seq(Segment) /\ Len(joined) = n + 1
          /\ \A i \in 1 .. n : joined[i] = u[i]
          /\ joined[n + 1] = u[n + 1]
      BY <3>1, <3>4, AppendProperties
    <3>6. u = joined
      <4>1. \A i \in 1 .. n + 1 : joined[i] = u[i]
        BY <3>5
      <4> HIDE DEF joined
      <4> QED
        BY <3>1, <3>5, <4>1, SeqEqual
    <3> QED
      BY <2>2, <3>4, <3>6
  <2> QED
    BY <2>1, <2>2
<1>2. Len(Names(v)) = Len(Names(w))
  BY <1>1 DEF MoreSpecific
<1>3. Names(v) = Names(w)
  <2>1. \A i \in 1 .. Len(Names(v)) : Names(v)[i] = Names(request)[i]
    BY <1>1 DEF Covers, IsPrefix
  <2>2. \A i \in 1 .. Len(Names(w)) : Names(w)[i] = Names(request)[i]
    BY <1>1 DEF Covers, IsPrefix
  <2> QED
    BY <1>1, <1>2, <2>1, <2>2
<1>4. IsDirectory(v) <=> IsDirectory(w)
  BY <1>3 DEF MoreSpecific
<1> QED
  BY <1>1, <1>3, <1>4

\* Of all that a tree certifies the verifier accepts for a request what is certified at
\* one place only, whatever response and certificate it is given: an exact path outdoes
\* every wildcard, and of any two wildcards one outdoes the other.
THEOREM OnePlaceVerifies ==
  ASSUME NEW Segment, DirSeparator \in Segment,
         NEW certified, \A pc \in certified : pc[1] \in PlacesOver(Segment),
         NEW url, NEW sent, NEW canister, NEW rootKey, NEW now, NEW offset,
         NEW p, NEW c, NEW r, NEW q, NEW d, NEW s,
         V2Verification(url, r, c, sent, certified, p, canister, rootKey, now, offset) = "Ok",
         V2Verification(url, s, d, sent, certified, q, canister, rootKey, now, offset) = "Ok"
  PROVE  p = q
<1> DEFINE places == {pc[1] : pc \in certified}
<1>1. p \in places /\ Answers(p, url) /\ ~Outdone(places, p, url)
  BY DEF V2Verification
<1>2. q \in places /\ Answers(q, url) /\ ~Outdone(places, q, url)
  BY DEF V2Verification
<1>3. p \in PlacesOver(Segment) /\ q \in PlacesOver(Segment)
  BY <1>1, <1>2
<1>4. p.exact = q.exact
  BY <1>1, <1>2, <1>3 DEF Answers, Outdone, PlacesOver
<1>5. p.segments = q.segments
  <2>1. CASE p.exact
    BY <1>1, <1>2, <1>4, <2>1 DEF Answers
  <2>2. CASE ~p.exact
    <3>1. Covers(p.segments, Segments(url)) /\ Covers(q.segments, Segments(url))
      BY <1>1, <1>2, <1>4, <2>2 DEF Answers
    <3>2. ~MoreSpecific(p.segments, q.segments) /\ ~MoreSpecific(q.segments, p.segments)
      BY <1>1, <1>2, <1>4, <2>2, <3>1 DEF Outdone
    <3> QED
      BY <1>3, <3>1, <3>2, WildcardsLemma DEF PlacesOver
  <2> QED
    BY <2>1, <2>2
<1> QED
  BY <1>3, <1>4, <1>5 DEF PlacesOver

\* The fields of a header, or of one without its version, are found by their names.
LEMMA HeaderLemma ==
  ASSUME NEW c, NEW w, NEW place, NEW fields \in CutShort(CertificateHeader(c, w, place))
  PROVE  /\ FirstField(fields, "certificate") = c
         /\ FirstField(fields, "tree") = w
         /\ FirstField(fields, "expr_path") = place
<1> DEFINE whole == CertificateHeader(c, w, place)
<1>1. /\ 1 .. 3 \subseteq DOMAIN fields
      /\ DOMAIN fields \subseteq 1 .. 4
      /\ \A i \in DOMAIN fields : fields[i] = whole[i]
  BY DEF CutShort, Front, CertificateHeader
<1>2. /\ whole[1] = [name |-> "certificate", value |-> c]
      /\ whole[2] = [name |-> "tree", value |-> w]
      /\ whole[3] = [name |-> "expr_path", value |-> place]
      /\ whole[4].name = "version"
  BY DEF CertificateHeader
<1>3. /\ {i \in DOMAIN fields : fields[i].name = "certificate"} = {1}
      /\ {i \in DOMAIN fields : fields[i].name = "tree"} = {2}
      /\ {i \in DOMAIN fields : fields[i].name = "expr_path"} = {3}
  BY <1>1, <1>2
<1> HIDE DEF whole
<1> QED
  BY <1>1, <1>2, <1>3 DEF FirstField

\* What a response passes that passes the gateway: version 1 lets none pass.
LEMMA PairLemma ==
  ASSUME NEW c, NEW w, NEW a, NEW q, NEW now, NEW offset,
         NEW fields \in CutShort(CertificateHeader(c, w, a.place)),
         NEW r, r = [status |-> a.response.status, body |-> a.response.body,
                     cel |-> a.response.cel, fields |-> fields],
         VerifyRequestResponsePair(q, r, Canister, Root, now, offset, 1) = "Ok"
  PROVE  /\ ValidateTree(Canister, c, w) = "Ok"
         /\ Answers(a.place, q.url)
         /\ ~Outdone({pc[1] : pc \in w}, a.place, q.url)
         /\ <<a.place, Recomputed(q, r)>> \in w
<1>1. r.fields = fields
  OBVIOUS
<1>2. V1Verification("InvalidResponseBody", c, w, Canister, Root, now, offset) # "Ok"
  BY DEF V1Verification
<1>3. V2Verification(q.url, Recomputed(q, r), c, w, w, a.place, Canister, Root, now, offset) = "Ok"
  BY <1>1, <1>2, HeaderLemma DEF VerifyRequestResponsePair, VerifyVersion
<1> QED
  BY <1>3 DEF V2Verification

\* What a memory that agrees with itself answers is well formed: a response that is
\* kept for /todos, or the fallback.
LEMMA ServedLemma ==
  ASSUME NEW h, Agree(h), NEW q
  PROVE  LET a == QueryHandler(h, q)
         IN  \/ /\ a.place = TodosPlace
                /\ a.response = Response(a.response.status, a.response.body, "Full")
             \/ a = [response |-> NotFound, place |-> NotFoundPlace]
BY DEF QueryHandler, Agree, WellFormed

\* What such a memory certifies for a request it is also what it answers.
LEMMA CertifiedIsAnswered ==
  ASSUME NEW h, Agree(h), NEW g, Agree(g), NEW p, NEW a, a = QueryHandler(g, p),
         NEW q \in Requests, NEW r, r.cel = a.response.cel, r.status = a.response.status,
         r.body = a.response.body,
         Answers(a.place, q.url),
         ~Outdone({pc[1] : pc \in h.tree}, a.place, q.url),
         <<a.place, Recomputed(q, r)>> \in h.tree
  PROVE  QueryHandler(h, q) = a
<1>1. h.tree = HoldsFor(h.responses) /\ WellFormed(h.responses)
  BY DEF Agree
<1>2. TodosPlace = [segments |-> Segments(TodosPath), exact |-> TRUE]
  BY DEF TodosPlace, Place
<1>3. NotFoundPlace = [segments |-> Segments(NotFoundPath), exact |-> FALSE]
  BY DEF NotFoundPlace, Place
<1>4. CASE /\ a.place = TodosPlace
           /\ a.response = Response(a.response.status, a.response.body, "Full")
  <2>1. q.url = TodosPath
    BY <1>2, <1>4, RequestAssumption DEF Answers
  <2>2. a.response.cel = "Full"
    BY <1>4 DEF Response
  <2>3. Recomputed(q, r) = [cel |-> "Full", req |-> q.method,
                            resp |-> [status |-> a.response.status, body |-> a.response.body]]
    BY <2>2 DEF Recomputed
  <2>4. <<TodosPlace, Recomputed(q, r)>> # <<NotFoundPlace, ResponseOnly(NotFound)>>
    BY <2>3 DEF ResponseOnly
  <2>5. PICK m \in DOMAIN h.responses : Recomputed(q, r) = FullCertification(m, h.responses[m])
    BY <1>1, <1>4, <2>4 DEF HoldsFor
  <2>6. /\ m = q.method
        /\ h.responses[m].status = a.response.status
        /\ h.responses[m].body = a.response.body
    BY <2>3, <2>5 DEF FullCertification
  <2>7. h.responses[m] = a.response
    BY <1>1, <1>4, <2>6 DEF WellFormed
  <2>8. a = [response |-> a.response, place |-> a.place]
    BY DEF QueryHandler
  <2> QED
    BY <1>4, <2>1, <2>6, <2>7, <2>8 DEF QueryHandler
<1>5. CASE a = [response |-> NotFound, place |-> NotFoundPlace]
  <2>1. TodosPlace \in {pc[1] : pc \in h.tree}
    <3>1. <<TodosPlace, FullCertification("GET", h.responses["GET"])>> \in h.tree
      BY <1>1 DEF HoldsFor, WellFormed
    <3> QED
      BY <3>1
  <2>2. q.url # TodosPath
    BY <1>2, <1>3, <1>5, <2>1 DEF Outdone
  <2> QED
    BY <1>5, <2>2 DEF QueryHandler
<1> QED
  BY <1>4, <1>5, ServedLemma

\* Whatever header, tree, certificate, delegation and body of any rounds an answer is
\* put together from: if the gateway accepts it for a request, the canister would have
\* given that answer to that request at a time within the offset.
THEOREM AcceptedAnswersWereServed == Spec => []AcceptedWasServed
<1>1. IInv => AcceptedWasServed
  <2> SUFFICES ASSUME IInv,
                      NEW d \in Delegations, NEW s \in (Delegates \cup {Root}) \ Faulty,
                      NEW contents \in Certified(s),
                      NEW shown \in AllBut({TimePath, CertifiedDataPath(Canister)}),
                      NEW now \in Nows, NEW offset \in Offsets,
                      Verify(Signed(s, contents, shown, d), Canister, Root, now, offset) = "Ok",
                      NEW g \in history, NEW a \in Served, NEW q \in Requests,
                      NEW fields \in CutShort(CertificateHeader(Signed(s, contents, shown, d), g.tree, a.place)),
                      VerifyRequestResponsePair(q,
                        [status |-> a.response.status, body |-> a.response.body,
                         cel |-> a.response.cel, fields |-> fields], Canister, Root, now, offset, 1) = "Ok"
               PROVE  \E h \in history : WithinOffset(h.time, now, offset) /\ QueryHandler(h, q) = a
    BY DEF AcceptedWasServed
  <2> DEFINE c == Signed(s, contents, shown, d)
             r == [status |-> a.response.status, body |-> a.response.body,
                   cel |-> a.response.cel, fields |-> fields]
  <2>1. PICK h \in history : contents = Contents(h, s)
    BY DEF Certified
  <2>2. Agree(h) /\ h.time \in Nat
    BY DEF IInv, Agree
  <2>3. WithinOffset(h.time, now, offset)
    <3>1. now \in Nat /\ offset \in Nat
      BY WidthAssumption, BoundsAssumption DEF Nows
    <3>2. VerifyCertificateTime(Signed(s, Contents(h, s), shown, d), now, offset) = "Ok"
      BY <2>1, VerifyLemma
    <3> QED
      BY <2>2, <3>1, <3>2, WindowLemma
  <2>4. /\ ValidateTree(Canister, c, g.tree) = "Ok"
        /\ Answers(a.place, q.url)
        /\ ~Outdone({pc[1] : pc \in g.tree}, a.place, q.url)
        /\ <<a.place, Recomputed(q, r)>> \in g.tree
    BY PairLemma
  <2>5. h.tree = g.tree
    <3>1. /\ LookupPath(c.tree, CertifiedDataPath(Canister)) # None
          /\ LookupPath(c.tree, CertifiedDataPath(Canister)) = g.tree
      BY <2>4 DEF ValidateTree
    <3>2. /\ CertifiedDataPath(Canister) \in DOMAIN Contents(h, s)
          /\ LookupPath(c.tree, CertifiedDataPath(Canister)) = Contents(h, s)[CertifiedDataPath(Canister)]
      BY <2>1, <3>1, LookupLemma
    <3>3. g.tree = h.data
      BY <3>1, <3>2, ContentsLemma
    <3> QED
      BY <2>2, <3>3 DEF Agree
  <2>6. PICK f \in history, p \in Requests : a = QueryHandler(f, p)
    BY DEF Served
  <2>7. Agree(f)
    BY DEF IInv
  <2>8. r.cel = a.response.cel /\ r.status = a.response.status /\ r.body = a.response.body
    OBVIOUS
  <2>9. QueryHandler(h, q) = a
    BY <2>2, <2>4, <2>5, <2>6, <2>7, <2>8, CertifiedIsAnswered
  <2> QED
    BY <2>3, <2>9
<1> QED
  BY <1>1, InitInvariant, NextInvariant, PTL DEF Spec

-----------------------------------------------------------------------------
(***************************************************************************)
(* What the canister answers verifies.                                     *)
(***************************************************************************)
\* None and Garbled are no values that are sent: not numbers, kinds of
\* expressions, records of one of the kinds there are or sets of ranges or certifications.
MarkersApart ==
  \A marker \in {None, Garbled} :
    /\ marker \notin Nat \cup {"Full", "ResponseOnly"}
    /\ \A a, b, c : marker # [tree |-> a, signature |-> b, delegation |-> c]
    /\ \A a, b : marker # [subnet_id |-> a, certificate |-> b]
    /\ \A a, b : marker # [segments |-> a, exact |-> b]
    /\ \A a, b, c, d : marker # <<a, b, c, d>>
    /\ \A a, b, S : marker # S \cup {<<a, b>>}

\* A header as the canister makes it has all fields of version 2.
LEMMA WholeHeaderLemma ==
  ASSUME MarkersApart, NEW c, NEW w, NEW place,
         \A marker \in {None, Garbled} : c # marker /\ w # marker /\ place # marker
  PROVE  LET fields == CertificateHeader(c, w, place)
         IN  /\ FirstField(fields, "certificate") = c
             /\ FirstField(fields, "tree") = w
             /\ FirstField(fields, "expr_path") = place
             /\ fields # None /\ CertificateHeaderFrom(fields) = "Ok" /\ Version(fields) = 2
<1> DEFINE fields == CertificateHeader(c, w, place)
<1>1. /\ FirstField(fields, "certificate") = c
      /\ FirstField(fields, "tree") = w
      /\ FirstField(fields, "expr_path") = place
  BY HeaderLemma DEF CutShort
<1>2. FirstField(fields, "version") = 2
  <2>1. /\ DOMAIN fields = 1 .. 4
        /\ fields[1].name = "certificate" /\ fields[2].name = "tree" /\ fields[3].name = "expr_path"
        /\ fields[4] = [name |-> "version", value |-> 2]
    BY DEF CertificateHeader
  <2> HIDE DEF fields
  <2>2. {i \in DOMAIN fields : fields[i].name = "version"} = {4}
    BY <2>1
  <2> QED
    BY <2>1, <2>2 DEF FirstField
<1>3. fields # None
  BY DEF MarkersApart, CertificateHeader
<1> HIDE DEF fields
<1>4. 2 # None /\ 2 # Garbled
  BY DEF MarkersApart
<1>5. CertificateHeaderFrom(fields) = "Ok"
  BY <1>1, <1>2, <1>4 DEF CertificateHeaderFrom, FieldNames
<1>6. Version(fields) = 2
  BY <1>2, <1>4 DEF Version
<1> QED
  BY <1>1, <1>3, <1>5, <1>6 DEF fields

\* The pair verifies iff version 2 accepts it.
LEMMA WholePairLemma ==
  ASSUME MarkersApart, NEW c, NEW h, NEW q, NEW now, NEW offset, Agree(h),
         \A marker \in {None, Garbled} : c # marker,
         NEW r, r = HttpRequest(h, c, q)
  PROVE  VerifyRequestResponsePair(q, r, Canister, Root, now, offset, 2) =
           V2Verification(q.url, Recomputed(q, r), c, h.tree, h.tree, QueryHandler(h, q).place,
                          Canister, Root, now, offset)
<1> DEFINE a == QueryHandler(h, q)
           fields == CertificateHeader(c, h.tree, a.place)
<1>1. r = [status |-> a.response.status, body |-> a.response.body, cel |-> a.response.cel, fields |-> fields]
  BY DEF HttpRequest
<1>2. r.fields = fields /\ r.cel = a.response.cel
  BY <1>1
<1>3. a.response.cel = "Full" \/ a.response.cel = "ResponseOnly"
  <2>1. CASE a.response = Response(a.response.status, a.response.body, "Full")
    <3> HIDE DEF a
    <3> QED
      BY <2>1 DEF Response
  <2>2. CASE a.response = NotFound
    <3>1. \A status, body, cel : Response(status, body, cel).cel = cel
      BY DEF Response
    <3>2. NotFound.cel = "ResponseOnly"
      BY <3>1, Zenon DEF NotFound
    <3> HIDE DEF a
    <3> QED
      BY <2>2, <3>2
  <2> QED
    BY <2>1, <2>2, ServedLemma
<1>4. r.cel # None /\ r.cel # Garbled
  <2>1. None \notin {"Full", "ResponseOnly"} /\ Garbled \notin {"Full", "ResponseOnly"}
    BY DEF MarkersApart
  <2> HIDE DEF a
  <2> QED
    BY <1>2, <1>3, <2>1
<1>5. \A marker \in {None, Garbled} : h.tree # marker
  <2>1. h.tree = HoldsFor(h.responses)
    BY DEF Agree
  <2> QED
    BY <2>1 DEF HoldsFor, MarkersApart
<1>6. \A marker \in {None, Garbled} : a.place # marker
  <2>1. a.place \in {TodosPlace, NotFoundPlace}
    BY DEF QueryHandler
  <2>2. \A marker \in {None, Garbled} : TodosPlace # marker /\ NotFoundPlace # marker
    BY DEF TodosPlace, NotFoundPlace, Place, MarkersApart
  <2> HIDE DEF a
  <2> QED
    BY <2>1, <2>2
<1>7. /\ FirstField(fields, "certificate") = c
      /\ FirstField(fields, "tree") = h.tree
      /\ FirstField(fields, "expr_path") = a.place
      /\ fields # None /\ CertificateHeaderFrom(fields) = "Ok" /\ Version(fields) = 2
  <2> HIDE DEF a
  <2> QED
    BY <1>5, <1>6, WholeHeaderLemma DEF fields
<1> HIDE DEF fields
<1>8. a.place # None
  BY <1>6
<1> QED
  BY <1>2, <1>4, <1>7, <1>8 DEF VerifyRequestResponsePair, VerifyVersion

\* What the gateway finds in the certificate of a round.
LEMMA FoundLemma ==
  ASSUME NEW h, NEW d, NEW c, c = Signed(h.home, Contents(h, h.home), {TimePath, CertifiedDataPath(Canister)}, d)
  PROVE  /\ LookupPath(c.tree, TimePath) = h.time
         /\ LookupPath(c.tree, CertifiedDataPath(Canister)) = h.data
<1> DEFINE contents == Contents(h, h.home)
           paths    == {TimePath, CertifiedDataPath(Canister)}
<1>1. paths \subseteq DOMAIN contents
  BY DEF Contents
<1>2. contents[TimePath] = h.time /\ contents[CertifiedDataPath(Canister)] = h.data
  BY <1>1, ContentsLemma
<1>3. c.tree = [contents |-> contents, shown |-> paths \cap DOMAIN contents]
  BY DEF Signed
<1> HIDE DEF contents
<1> QED
  BY <1>1, <1>2, <1>3 DEF LookupPath

\* The delegation of a round verifies, and leads to the key of the canister's subnet.
LEMMA RoundDelegationLemma ==
  ASSUME MarkersApart, NEW h, h.home \in Delegates, NEW d,
         d = Delegation(h.home, Signed(Root, Contents(h, Root), RightsOf(h.home), None))
  PROVE  /\ d # None
         /\ VerifyDelegation(d, Canister, Root) = "Ok"
         /\ LookupPath(d.certificate.tree, PublicKeyPath(d.subnet_id)) = h.home
<1> DEFINE contents == Contents(h, Root)
           cert     == d.certificate
<1>1. d.subnet_id = h.home /\ cert = Signed(Root, contents, RightsOf(h.home), None)
  BY DEF Delegation
<1>2. RightsOf(h.home) \subseteq DOMAIN contents
  BY DEF Contents
<1>3. RightsOf(h.home) = {CanisterRangesPath(h.home), PublicKeyPath(h.home)}
  BY DEF RightsOf
<1>4. /\ contents[CanisterRangesPath(h.home)] = Ranges(h, h.home)
      /\ contents[PublicKeyPath(h.home)] = h.home
  BY <1>2, <1>3, ContentsLemma
<1>5. /\ cert.tree = [contents |-> contents, shown |-> RightsOf(h.home) \cap DOMAIN contents]
      /\ cert.signature = [by |-> Root, of |-> contents]
      /\ cert.delegation = None
  BY <1>1 DEF Signed
<1>6. cert # Garbled /\ d # None
  <2>1. cert # Garbled
    BY <1>1 DEF Signed, MarkersApart
  <2>2. d # None
    BY DEF Delegation, MarkersApart
  <2> QED
    BY <2>1, <2>2
<1> HIDE DEF cert, contents
<1>7. /\ LookupPath(cert.tree, CanisterRangesPath(h.home)) = Ranges(h, h.home)
      /\ LookupPath(cert.tree, PublicKeyPath(h.home)) = h.home
  BY <1>2, <1>3, <1>4, <1>5 DEF LookupPath
<1>8. Ranges(h, h.home) = {<<Canister, Canister>>}
  BY DEF Ranges
<1>9. Ranges(h, h.home) # None /\ Ranges(h, h.home) # Garbled
  <2>1. {<<Canister, Canister>>} = {} \cup {<<Canister, Canister>>}
    OBVIOUS
  <2> QED
    BY <1>8, <2>1 DEF MarkersApart
<1>10. PrincipalIsWithinRanges(Canister, Ranges(h, h.home))
  BY <1>8, BoundsAssumption DEF PrincipalIsWithinRanges
<1>11. VerifyCertificateSignature(cert, Root) = "Ok"
  BY <1>5, SubnetAssumption DEF VerifyCertificateSignature, Digest
<1>12. h.home # None
  BY SubnetAssumption
<1>13. VerifyDelegation(d, Canister, Root) = "Ok"
  BY <1>1, <1>5, <1>6, <1>7, <1>9, <1>10, <1>11, <1>12 DEF VerifyDelegation, cert
<1> QED
  BY <1>1, <1>6, <1>7, <1>13 DEF cert

\* The certificate of a round verifies exactly within the offset of its time.
LEMMA CertificateLemma ==
  ASSUME MarkersApart, NEW h, h.time \in 0 .. MaxU128, h.home \in Delegates \cup {Root},
         NEW now \in Nat, NEW offset \in Nat
  PROVE  /\ \A marker \in {None, Garbled} : DataCertificate(h) # marker
         /\ Verify(DataCertificate(h), Canister, Root, now, offset) = "Ok" <=> WithinOffset(h.time, now, offset)
<1> DEFINE c == DataCertificate(h)
           d == IF h.home = Root THEN None
                ELSE Delegation(h.home, Signed(Root, Contents(h, Root), RightsOf(h.home), None))
           contents == Contents(h, h.home)
           shown    == {TimePath, CertifiedDataPath(Canister)}
<1>1. c = Signed(h.home, contents, shown, d)
  BY DEF DataCertificate
<1>2. \A marker \in {None, Garbled} : c # marker
  BY <1>1 DEF Signed, MarkersApart
<1>3. c.delegation = d /\ c.signature = [by |-> h.home, of |-> contents] /\ Digest(c.tree) = contents
  BY <1>1 DEF Signed, Digest
<1>4. LookupPath(c.tree, TimePath) = h.time
  BY <1>1, FoundLemma
<1>5. h.time # None /\ h.time # Garbled /\ h.time \in Nat /\ h.time <= MaxU128
  BY WidthAssumption DEF MarkersApart
<1>6. VerifyCertificateTime(c, now, offset) = "Ok" <=> WithinOffset(h.time, now, offset)
  <2> HIDE DEF c
  <2>1. h.time > SaturatingAdd(now, offset) <=> h.time > now + offset
    BY <1>5, WidthAssumption DEF SaturatingAdd
  <2>2. h.time < SaturatingSub(now, offset) <=> h.time < now - offset
    BY <1>5 DEF SaturatingSub
  <2>3. WithinOffset(h.time, now, offset) <=> ~(h.time > now + offset) /\ ~(h.time < now - offset)
    BY <1>5 DEF WithinOffset
  <2> QED
    BY <1>4, <1>5, <2>1, <2>2, <2>3 DEF VerifyCertificateTime
<1>7. (c.delegation # None => VerifyDelegation(c.delegation, Canister, Root) = "Ok") /\ SigningKey(c, Root) = h.home
  <2>1. CASE h.home = Root
    BY <1>3, <2>1 DEF SigningKey
  <2>2. CASE h.home # Root
    <3>1. /\ h.home \in Delegates
          /\ d = Delegation(h.home, Signed(Root, Contents(h, Root), RightsOf(h.home), None))
      BY <2>2
    <3> HIDE DEF c, d
    <3> QED
      BY <1>3, <3>1, RoundDelegationLemma DEF SigningKey
  <2> QED
    BY <2>1, <2>2
<1> HIDE DEF c, d, contents
<1>8. VerifyCertificateSignature(c, h.home) = "Ok"
  BY <1>3, SubnetAssumption DEF VerifyCertificateSignature
<1>9. Verify(c, Canister, Root, now, offset) = "Ok" <=> VerifyCertificateTime(c, now, offset) = "Ok"
  BY <1>7, <1>8 DEF Verify
<1> QED
  BY <1>2, <1>6, <1>9 DEF c

\* The wildcard of the empty path covers every request.
LEMMA FallbackLemma ==
  ASSUME NEW q \in Requests
  PROVE  Segments(NotFoundPath) = <<>> /\ Covers(<<>>, Segments(q.url))
<1> DEFINE S == STRING \cup {DirSeparator}
<1>1. Segments(q.url) \in Tidy(S)
  BY RequestAssumption, SegmentsLemma
<1>2. <<>> \in Tidy(S) /\ Len(<<>>) = 0
  BY DEF Tidy
<1>3. Covers(<<>>, Segments(q.url))
  <2>1. ~IsDirectory(<<>>) /\ Len(Names(<<>>)) = 0
    BY <1>2 DEF IsDirectory, EndsWith, Names
  <2>2. Len(Names(Segments(q.url))) \in Nat
    BY <1>1, NamesLemma
  <2> QED
    BY <1>1, <1>2, <2>1, <2>2, CoversLemma
<1>4. NotFoundPath = <<DirSeparator>>
  BY Zenon DEF NotFoundPath, DirSeparator
<1>5. /\ NotFoundPath \in Seq({DirSeparator}) /\ Len(NotFoundPath) = 1 /\ ~EndsWithSlash(NotFoundPath)
  BY <1>4 DEF EndsWithSlash
<1>6. NotEmpty(NotFoundPath)[Len(NotFoundPath)] = <<>>
  <2>1. NotEmpty(NotFoundPath)[Len(NotFoundPath)] \in Seq({DirSeparator} \ {DirSeparator})
    BY <1>5, NotEmptyLemma
  <2> DEFINE kept == NotEmpty(NotFoundPath)[Len(NotFoundPath)]
  <2>2. kept \in Seq({})
    BY <2>1
  <2> HIDE DEF kept
  <2>3. Len(kept) = 0
    <3>1. Len(kept) \in Nat /\ \A i \in 1 .. Len(kept) : kept[i] \in {}
      BY <2>2, LenProperties
    <3>2. SUFFICES ASSUME Len(kept) # 0 PROVE FALSE
      OBVIOUS
    <3>3. 1 \in 1 .. Len(kept)
      BY <3>1, <3>2
    <3> QED
      BY <3>1, <3>3
  <2> QED
    BY <2>2, <2>3, EmptySeq DEF kept
<1>7. Segments(NotFoundPath) = <<>> \o <<>>
  BY <1>5, <1>6 DEF Segments
<1>8. <<>> \o <<>> = <<>>
  OBVIOUS
<1> QED
  BY <1>3, <1>7, <1>8

\* A memory that agrees with itself has certified its answer to a query, and nothing
\* that outdoes it.
LEMMA AnswerLemma ==
  ASSUME NEW h, Agree(h), NEW c, NEW q \in Requests, Route(q) = "query"
  PROVE  LET a == QueryHandler(h, q)
         IN  /\ a.place \in {pc[1] : pc \in h.tree}
             /\ Answers(a.place, q.url)
             /\ ~Outdone({pc[1] : pc \in h.tree}, a.place, q.url)
             /\ <<a.place, Recomputed(q, HttpRequest(h, c, q))>> \in h.tree
<1> DEFINE a == QueryHandler(h, q)
           r == HttpRequest(h, c, q)
<1>1. h.tree = HoldsFor(h.responses) /\ WellFormed(h.responses)
  BY DEF Agree
<1>2. TodosPlace = [segments |-> Segments(TodosPath), exact |-> TRUE]
  BY DEF TodosPlace, Place
<1>3. NotFoundPlace = [segments |-> Segments(NotFoundPath), exact |-> FALSE]
  BY DEF NotFoundPlace, Place
<1>4. r.status = a.response.status /\ r.body = a.response.body /\ r.cel = a.response.cel
  BY DEF HttpRequest
<1>5. q.method \in NotAllowedMethods \cup {"GET"}
  BY DEF Route, NotAllowedMethods
<1>6. <<a.place, Recomputed(q, r)>> \in h.tree => a.place \in {pc[1] : pc \in h.tree}
  OBVIOUS
<1>7. CASE q.url = TodosPath
  <2>1. q.method \in DOMAIN h.responses
    BY <1>1, <1>5 DEF WellFormed
  <2>2. a = [response |-> h.responses[q.method], place |-> TodosPlace]
    BY <1>7, <2>1 DEF QueryHandler
  <2>3. a.place = TodosPlace /\ a.response = h.responses[q.method]
    BY <2>2
  <2> HIDE DEF a, r
  <2>4. Recomputed(q, r) = FullCertification(q.method, h.responses[q.method])
    <3>1. h.responses[q.method].cel = "Full"
      <4>1. PICK status, body : h.responses[q.method] = Response(status, body, "Full")
        BY <1>1, <2>1 DEF WellFormed
      <4> QED
        BY <4>1 DEF Response
    <3> QED
      BY <1>4, <2>3, <3>1 DEF Recomputed, FullCertification
  <2>5. <<a.place, Recomputed(q, r)>> \in h.tree
    BY <1>1, <2>1, <2>3, <2>4 DEF HoldsFor
  <2>6. Answers(a.place, q.url) /\ ~Outdone({pc[1] : pc \in h.tree}, a.place, q.url)
    BY <1>2, <1>7, <2>3 DEF Answers, Outdone
  <2> QED
    BY <1>6, <2>5, <2>6 DEF a, r
<1>8. CASE q.url # TodosPath
  <2>1. a = [response |-> NotFound, place |-> NotFoundPlace]
    BY <1>8 DEF QueryHandler
  <2>2. a.place = NotFoundPlace /\ a.response = NotFound
    BY <2>1
  <2> HIDE DEF a, r
  <2>3. NotFound.cel = "ResponseOnly"
    <3>1. \A status, body, cel : Response(status, body, cel).cel = cel
      BY DEF Response
    <3> QED
      BY <3>1, Zenon DEF NotFound
  <2>4. Recomputed(q, r) = ResponseOnly(NotFound)
    BY <1>4, <2>2, <2>3 DEF Recomputed, ResponseOnly
  <2>5. <<a.place, Recomputed(q, r)>> \in h.tree
    BY <1>1, <2>2, <2>4 DEF HoldsFor
  <2>6. NotFoundPlace = [segments |-> <<>>, exact |-> FALSE] /\ Covers(<<>>, Segments(q.url))
    BY <1>3, FallbackLemma
  <2>7. Answers(a.place, q.url)
    BY <2>2, <2>6 DEF Answers
  <2>8. ASSUME NEW d \in {pc[1] : pc \in h.tree}
        PROVE  d = TodosPlace \/ d = NotFoundPlace
    BY <1>1 DEF HoldsFor
  <2>9. Segments(q.url) # Segments(TodosPath)
    BY <1>8, RequestAssumption
  <2>10. ~MoreSpecific(<<>>, <<>>)
    <3>1. ~IsDirectory(<<>>) /\ Names(<<>>) = <<>> /\ Len(<<>>) = 0
      BY DEF IsDirectory, EndsWith, Names
    <3> QED
      BY <3>1 DEF MoreSpecific
  <2>11. ~Outdone({pc[1] : pc \in h.tree}, a.place, q.url)
    <3> DEFINE places == {pc[1] : pc \in h.tree}
    <3>1. TodosPlace.exact = TRUE /\ TodosPlace.segments = Segments(TodosPath)
      BY <1>2
    <3>2. NotFoundPlace.exact = FALSE /\ NotFoundPlace.segments = <<>>
      BY <2>6
    <3>3. \A d \in places : d = TodosPlace \/ d = NotFoundPlace
      BY <2>8
    <3> HIDE DEF places
    <3> QED
      BY <2>2, <2>9, <2>10, <3>1, <3>2, <3>3 DEF Outdone, places
  <2> QED
    BY <1>6, <2>5, <2>7, <2>11 DEF a, r
<1> QED
  BY <1>7, <1>8

\* However far a replica is behind, and whatever was changed, upgraded or moved meanwhile,
\* its answer to a query passes the gateway exactly as long as the certificate is of a
\* time that the gateway's clock lets through.
THEOREM CurrentAnswersVerify ==
  ASSUME MarkersApart
  PROVE  Spec => []ServedVerifies
<1>1. IInv /\ TypeOK => ServedVerifies
  <2> SUFFICES ASSUME IInv, TypeOK,
                      NEW h \in history, NEW q \in Requests, NEW now \in Nows, NEW offset \in Offsets,
                      Route(q) = "query"
               PROVE  LET r == HttpRequest(h, DataCertificate(h), q)
                      IN  VerifyRequestResponsePair(q, r, Canister, Root, now, offset, 2) = "Ok"
                            <=> WithinOffset(h.time, now, offset)
    BY DEF ServedVerifies
  <2> DEFINE c == DataCertificate(h)
             r == HttpRequest(h, c, q)
             place == QueryHandler(h, q).place
  <2>1. Agree(h)
    BY DEF IInv
  <2>2. h.time \in 0 .. MaxU128 /\ h.home \in Delegates \cup {Root}
    BY BoundsAssumption, WidthAssumption DEF TypeOK
  <2>3. now \in Nat /\ offset \in Nat
    BY WidthAssumption, BoundsAssumption DEF Nows
  <2>4. /\ \A marker \in {None, Garbled} : c # marker
        /\ Verify(c, Canister, Root, now, offset) = "Ok" <=> WithinOffset(h.time, now, offset)
    BY <2>2, <2>3, CertificateLemma
  <2>5. ValidateTree(Canister, c, h.tree) = "Ok"
    <3>1. LookupPath(c.tree, CertifiedDataPath(Canister)) = h.data
      BY FoundLemma DEF DataCertificate
    <3>2. h.data = h.tree
      BY <2>1 DEF Agree
    <3>3. h.tree # None
      BY <2>1 DEF Agree, HoldsFor, MarkersApart
    <3> HIDE DEF c
    <3> QED
      BY <3>1, <3>2, <3>3 DEF ValidateTree
  <2>6. VerifyRequestResponsePair(q, r, Canister, Root, now, offset, 2) =
          V2Verification(q.url, Recomputed(q, r), c, h.tree, h.tree, place, Canister, Root, now, offset)
    BY <2>1, <2>4, WholePairLemma
  <2>7. /\ place \in {pc[1] : pc \in h.tree}
        /\ Answers(place, q.url)
        /\ ~Outdone({pc[1] : pc \in h.tree}, place, q.url)
        /\ <<place, Recomputed(q, r)>> \in h.tree
    BY <2>1, AnswerLemma
  <2> HIDE DEF c, r, place
  <2>8. V2Verification(q.url, Recomputed(q, r), c, h.tree, h.tree, place, Canister, Root, now, offset) = "Ok"
          <=> Verify(c, Canister, Root, now, offset) = "Ok"
    BY <2>5, <2>7 DEF V2Verification
  <2> QED
    BY <2>4, <2>6, <2>8 DEF c, r
<1> QED
  BY <1>1, TypeCorrect, InitInvariant, NextInvariant, PTL DEF Spec
=============================================================================
