----------------------- MODULE CertifiedCounterProofs -----------------------
(***************************************************************************)
(* Proofs about CertifiedCounter, for any number of overlapping runs of    *)
(* the handler, of rounds and of counts, any clocks and any offset.        *)
(***************************************************************************)
EXTENDS CertifiedCounter, SequenceTheorems, TLAPS

CertifiedCounts == {<<c>> : c \in Counts}

\* The canister: what is certified is the tree, unless the tree is empty.
CanisterInv ==
  /\ counter \in Counts
  /\ tree \in CertifiedCounts \cup {<<>>}
  /\ certified_data \in CertifiedCounts \cup {None}
  /\ tree # <<>> => tree = <<counter>> /\ certified_data = tree

RoundsInv == rounds \in Seq(CertifiedCounts \cup {None})

\* A certificate that the Internet Computer made in some round.
Genuine(certificate) ==
  \E r \in DOMAIN rounds :
    /\ certificate.time \in {Time(r), None}
    /\ certificate.data \in {rounds[r], None}

\* Whatever a run of the handler has been given has a genuine certificate.
HandlersInv ==
  /\ handler = [h \in Clicks |-> handler[h]]
  /\ \A h \in Clicks :
       At(h, "answered") \/ At(h, "verifying") => Genuine(handler[h].answer.certificate)

IInv == CanisterInv /\ RoundsInv /\ HandlersInv /\ ShownWasCertified

-----------------------------------------------------------------------------
LEMMA CountLemma == \A c \in Counts : (c + 1) % CountLimit \in Counts /\ c \in Nat
  BY CounterAssumption DEF Counts

LEMMA NoneLemma == None # <<>> /\ \A s \in CertifiedCounts : s # None /\ s # <<>> /\ Len(s) = 1
<1>1. None # <<>> /\ \A s \in Seq(Nat) : s # None
  <2>1. <<>> \in Seq(Nat)
    OBVIOUS
  <2> QED
    BY <2>1, CounterAssumption
<1>2. ASSUME NEW c \in Counts PROVE <<c>> \in Seq(Nat) /\ <<c>> # <<>> /\ Len(<<c>>) = 1
  <2>1. c \in Nat
    BY CountLemma
  <2> QED
    BY <2>1
<1> QED
  BY <1>1, <1>2 DEF CertifiedCounts

\* Rounds are appended and never change: what was genuine or near stays so.
LEMMA AppendLemma ==
  ASSUME RoundsInv, NEW d \in CertifiedCounts \cup {None}, rounds' = Append(rounds, d)
  PROVE  /\ RoundsInv'
         /\ DOMAIN rounds \subseteq DOMAIN rounds'
         /\ \A r \in DOMAIN rounds : rounds'[r] = rounds[r]
<1> DEFINE R == CertifiedCounts \cup {None}
<1>1. rounds \in Seq(R) /\ d \in R
  BY DEF RoundsInv
<1> HIDE DEF R
<1>2. rounds' \in Seq(R)
  BY <1>1, AppendProperties
<1>3. \A r \in DOMAIN rounds : r \in DOMAIN rounds' /\ rounds'[r] = rounds[r]
  BY <1>1
<1> QED
  BY <1>2, <1>3 DEF RoundsInv, R

\* An answer that verifies carries a certified count of a round near enough.
LEMMA VerifiedLemma ==
  ASSUME IInv, NEW answer, NEW nowMs, Genuine(answer.certificate),
         VerifyCertification(answer, nowMs), CountMatches(answer)
  PROVE  \E r \in DOMAIN rounds : rounds[r] = <<answer.count>> /\ Near(r, nowMs)
<1>1. PICK r \in DOMAIN rounds :
        /\ answer.certificate.time \in {Time(r), None}
        /\ answer.certificate.data \in {rounds[r], None}
  BY DEF Genuine
<1>2. answer.certificate.time = Time(r)
  BY <1>1 DEF VerifyCertification, ValidateCertificateTime
<1>3. rounds[r] # None /\ rounds[r] = answer.witness
  BY <1>1 DEF VerifyCertification, ValidateTree
<1>4. answer.witness \in CertifiedCounts
  <2>1. rounds[r] \in CertifiedCounts \cup {None}
    BY DEF IInv, RoundsInv
  <2> QED
    BY <1>3, <2>1
<1>5. answer.witness = <<answer.count>>
  BY <1>4 DEF CountMatches, CertifiedCounts
<1>6. Near(r, nowMs)
  <2>1. (Time(r) \div NsPerMs) - OffsetMs <= nowMs /\ (Time(r) \div NsPerMs) + OffsetMs >= nowMs
    BY <1>2 DEF VerifyCertification, ValidateCertificateTime
  <2> DEFINE ms == Time(r) \div NsPerMs
  <2>2. ms \in Int
    <3>1. r \in Int
      BY DEF IInv, RoundsInv
    <3> QED
      BY <3>1, CounterAssumption DEF Time
  <2> QED
    BY <2>1 DEF Near
<1> QED
  BY <1>3, <1>5, <1>6

-----------------------------------------------------------------------------
LEMMA InitInv == Init => IInv
<1> SUFFICES ASSUME Init PROVE IInv
  OBVIOUS
<1>1. CanisterInv
  BY CounterAssumption DEF Init, CanisterInv, Counts
<1>2. RoundsInv
  BY DEF Init, RoundsInv
<1>3. HandlersInv
  BY DEF Init, HandlersInv, At, Idle
<1>4. ShownWasCertified
  BY DEF Init, ShownWasCertified
<1> QED
  BY <1>1, <1>2, <1>3, <1>4 DEF IInv

LEMMA CanisterStep == IInv /\ [Next]_vars => CanisterInv'
<1> SUFFICES ASSUME IInv, [Next]_vars PROVE CanisterInv'
  OBVIOUS
<1> USE DEF IInv, CanisterInv
<1>1. CASE IncCount
  <2>1. counter' \in Counts
    BY <1>1, CountLemma DEF IncCount
  <2> QED
    BY <1>1, <2>1 DEF IncCount, CertifiedCounts
<1>2. CASE Upgrade
  BY <1>2, CounterAssumption DEF Upgrade, Counts
<1>3. CASE UNCHANGED canister
  BY <1>3 DEF canister
<1>4. IncCount \/ Upgrade \/ UNCHANGED canister
  BY DEF Next, vars, canister, Round, OtherIncrement, Tick, Click, Handle, Reject, Increment, GetCount,
         StartVerification, FinishVerification
<1> QED
  BY <1>1, <1>2, <1>3, <1>4

LEMMA RoundsStep ==
  IInv /\ [Next]_vars =>
    /\ RoundsInv'
    /\ DOMAIN rounds \subseteq DOMAIN rounds'
    /\ \A r \in DOMAIN rounds : rounds'[r] = rounds[r]
<1> SUFFICES ASSUME IInv, [Next]_vars
             PROVE  /\ RoundsInv'
                    /\ DOMAIN rounds \subseteq DOMAIN rounds'
                    /\ \A r \in DOMAIN rounds : rounds'[r] = rounds[r]
  OBVIOUS
<1>1. CASE Round
  BY <1>1, AppendLemma DEF Round, IInv, CanisterInv
<1>2. CASE UNCHANGED rounds
  BY <1>2 DEF IInv, RoundsInv
<1>3. Round \/ UNCHANGED rounds
  BY DEF Next, vars, canister, page, Upgrade, OtherIncrement, Tick, Click, Handle, Reject, Increment, GetCount,
         StartVerification, FinishVerification
<1> QED
  BY <1>1, <1>2, <1>3

LEMMA HandlersStep == IInv /\ [Next]_vars => HandlersInv'
<1> SUFFICES ASSUME IInv, [Next]_vars PROVE HandlersInv'
  OBVIOUS
<1>1. \A certificate : Genuine(certificate) => Genuine(certificate)'
  BY RoundsStep DEF Genuine
<1>2. CASE UNCHANGED handler
  BY <1>1, <1>2 DEF IInv, HandlersInv, At
<1>3. ASSUME NEW h \in Clicks, NEW state, Goto(h, state),
             state.at \in {"answered", "verifying"} => Genuine(state.answer.certificate)
      PROVE  HandlersInv'
  BY <1>1, <1>3 DEF IInv, HandlersInv, Goto, At
<1>4. ASSUME NEW h \in Clicks, Click(h) \/ Increment(h) \/ Reject(h) \/ FinishVerification(h)
      PROVE  HandlersInv'
  <2>1. Goto(h, [at |-> "incrementing"]) \/ Goto(h, [at |-> "asking"]) \/ Goto(h, Idle)
    BY <1>4 DEF Click, Increment, Reject, FinishVerification
  <2> QED
    BY <1>3, <2>1 DEF Idle
<1>5. ASSUME NEW h \in Clicks, GetCount(h) PROVE HandlersInv'
  <2>1. PICK count \in Counts, certificate \in Certificates, witness \in Trees :
          Goto(h, [at |-> "answered",
                   answer |-> [count |-> count, certificate |-> certificate, witness |-> witness]])
    BY <1>5 DEF GetCount
  <2>2. Genuine(certificate)
    BY DEF Genuine, Certificates
  <2> QED
    BY <1>3, <2>1, <2>2
<1>6. ASSUME NEW h \in Clicks, StartVerification(h) PROVE HandlersInv'
  <2>1. Genuine(handler[h].answer.certificate)
    BY <1>6 DEF StartVerification, IInv, HandlersInv
  <2>2. \/ Goto(h, [at |-> "verifying", answer |-> handler[h].answer, nowMs |-> clock])
        \/ Goto(h, Idle)
    BY <1>6 DEF StartVerification
  <2> QED
    BY <1>3, <2>1, <2>2 DEF Idle
<1> QED
  BY <1>2, <1>4, <1>5, <1>6 DEF Next, Handle, vars, page, Upgrade, Round, OtherIncrement, Tick

LEMMA ShownStep == IInv /\ [Next]_vars => ShownWasCertified'
<1> SUFFICES ASSUME IInv, [Next]_vars PROVE ShownWasCertified'
  OBVIOUS
<1>1. \A c, n : (\E r \in DOMAIN rounds : rounds[r] = <<c>> /\ Near(r, n))
                => \E r \in DOMAIN rounds' : rounds'[r] = <<c>> /\ Near(r, n)
  BY RoundsStep
<1>2. CASE UNCHANGED shown
  <2>1. shown # None => \E r \in DOMAIN rounds' : rounds'[r] = <<shown.count>> /\ Near(r, shown.nowMs)
    BY <1>1, Zenon DEF IInv, ShownWasCertified
  <2> QED
    BY <1>2, <2>1, Zenon DEF ShownWasCertified, Near, Time
<1>3. ASSUME NEW h \in Clicks, FinishVerification(h) PROVE ShownWasCertified'
  <2> DEFINE answer == handler[h].answer
             nowMs  == handler[h].nowMs
  <2>1. Genuine(answer.certificate)
    BY <1>3 DEF FinishVerification, IInv, HandlersInv
  <2>2. CASE VerifyCertification(answer, nowMs) /\ CountMatches(answer)
    <3>1. \E r \in DOMAIN rounds : rounds[r] = <<answer.count>> /\ Near(r, nowMs)
      BY <2>1, <2>2, VerifiedLemma
    <3>2. shown' = [count |-> answer.count, nowMs |-> nowMs]
      BY <1>3, <2>2 DEF FinishVerification
    <3>3. \E r \in DOMAIN rounds' : rounds'[r] = <<answer.count>> /\ Near(r, nowMs)
      BY <1>1, <3>1, Zenon
    <3>4. shown'.count = answer.count /\ shown'.nowMs = nowMs
      BY <3>2
    <3> QED
      BY <3>3, <3>4, Zenon DEF ShownWasCertified, Near, Time
  <2>3. CASE ~(VerifyCertification(answer, nowMs) /\ CountMatches(answer))
    <3>1. UNCHANGED shown
      BY <1>3, <2>3 DEF FinishVerification
    <3> QED
      BY <1>2, <3>1
  <2> QED
    BY <2>2, <2>3
<1> QED
  BY <1>2, <1>3 DEF Next, Handle, vars, page, Upgrade, Round, OtherIncrement, Tick, Click, Reject, Increment,
                    GetCount, StartVerification

\* The invariant that shows the rest: what the canister certifies, what the runs of the
\* handler hold and what is on the page.
THEOREM Invariance == Spec => []IInv
<1>1. IInv /\ [Next]_vars => IInv'
  BY CanisterStep, RoundsStep, HandlersStep, ShownStep DEF IInv
<1> QED
  BY <1>1, InitInv, PTL DEF Spec

\* A count on the page was certified in a round within the offset of the clock when
\* its verification began, whatever rounds the parts of the answer were of.
THEOREM ShownCountWasCertified == Spec => []ShownWasCertified
<1>1. IInv => ShownWasCertified
  BY DEF IInv
<1> QED
  BY <1>1, Invariance, PTL

\* Between increment and upgrade, and only then, what the canister answers matches
\* what it certifies.
THEOREM AnswerInStep == Spec => []InStep
<1>1. IInv => InStep
  <2> SUFFICES ASSUME IInv PROVE InStep
    OBVIOUS
  <2>1. CASE tree = <<>>
    BY <2>1, NoneLemma DEF IInv, CanisterInv, InStep, ValidateTree
  <2>2. CASE tree # <<>>
    BY <2>2, NoneLemma DEF IInv, CanisterInv, InStep, ValidateTree, CountMatches
  <2> QED
    BY <2>1, <2>2
<1> QED
  BY <1>1, Invariance, PTL
=============================================================================
