----------------------- MODULE WildcardSearchProofs -------------------------
(***************************************************************************)
(* The search for more specific wildcards, for paths over any labels and   *)
(* of any length: what it lists, and that it lists what the function does, *)
(* which the canister and the verifier call.                               *)
(***************************************************************************)
EXTENDS WildcardSearch, UrlPathsProofs

-----------------------------------------------------------------------------
(***************************************************************************)
(* The wildcards that cover a request, from the most specific to that of   *)
(* the root: each turn goes from one to the next.                          *)
(***************************************************************************)
Candidates(url) == {w \in AnyPath : Ordinary(w) /\ Covers(w, url)}

LEMMA AnyPathLemma ==
  \A w : w \in AnyPath <=> w \in Seq(Labels) /\ Len(w) <= MaxSegments
<1>1. ASSUME NEW w \in AnyPath
      PROVE  w \in Seq(Labels) /\ Len(w) <= MaxSegments
  <2>1. PICK n \in 0 .. MaxSegments : w \in [1 .. n -> Labels]
    BY DEF AnyPath
  <2>2. n \in Nat /\ n <= MaxSegments
    BY LabelsAssumption
  <2>3. w \in Seq(Labels)
    BY <2>1, <2>2, SeqDef
  <2>4. Len(w) = n
    BY <2>1, <2>2, <2>3, LenProperties
  <2> QED
    BY <2>2, <2>3, <2>4
<1>2. ASSUME NEW w \in Seq(Labels), Len(w) <= MaxSegments
      PROVE  w \in AnyPath
  <2>1. Len(w) \in Nat /\ w \in [1 .. Len(w) -> Labels]
    BY LenProperties
  <2>2. Len(w) \in 0 .. MaxSegments
    BY <1>2, <2>1, LabelsAssumption
  <2> QED
    BY <2>1, <2>2 DEF AnyPath
<1> QED
  BY <1>1, <1>2

LEMMA TidyLemma ==
  ASSUME NEW w \in AnyPath, Ordinary(w)
  PROVE  w \in Tidy(Labels) /\ w \in Seq(Labels) /\ Len(w) <= MaxSegments
<1>1. w \in Seq(Labels) /\ Len(w) <= MaxSegments
  BY AnyPathLemma
<1>2. \A i \in 1 .. Len(w) : w[i] = DirSeparator => i = Len(w)
  BY <1>1, LenProperties DEF Ordinary, DirSeparator
<1> QED
  BY <1>1, <1>2 DEF Tidy

LEMMA CandidatesLemma ==
  ASSUME NEW p \in AnyPath, Ordinary(p)
  PROVE  Candidates(p) \subseteq Covering(Labels, p)
BY TidyLemma DEF Candidates, Covering

LEMMA NextCandidate ==
  ASSUME NEW p \in AnyPath, Ordinary(p), NEW c \in Candidates(p), Rank(c) > 0
  PROVE  NextPotential(c) \in Candidates(p) /\ Rank(NextPotential(c)) = Rank(c) - 1
<1> DEFINE n == NextPotential(c)
<1>1. /\ p \in Tidy(Labels) /\ c \in Covering(Labels, p)
      /\ c \in Seq(Labels) /\ Len(c) <= MaxSegments
  BY TidyLemma, CandidatesLemma DEF Candidates
<1>2. /\ n \in Covering(Labels, p) /\ Rank(n) = Rank(c) - 1 /\ Len(n) <= Len(c)
      /\ \A i \in 1 .. Len(n) : n[i] \in {c[i], DirSeparator}
  BY <1>1, NextRank, LabelsAssumption
<1> HIDE DEF n
<1>3. n \in Seq(Labels) /\ Covers(n, p) /\ \A i \in 1 .. Len(n) : n[i] = DirSeparator => i = Len(n)
  BY <1>2 DEF Covering, Tidy
<1>4. Len(n) \in Nat /\ Len(c) \in Nat /\ DOMAIN n = 1 .. Len(n) /\ DOMAIN c = 1 .. Len(c)
  BY <1>1, <1>3, LenProperties
<1>5. n \in AnyPath
  <2>1. Len(n) <= MaxSegments
    BY <1>1, <1>2, <1>4, LabelsAssumption
  <2> QED
    BY <1>3, <2>1, AnyPathLemma
<1>6. Ordinary(n)
  <2> DEFINE reserved == {PathPrefix, ExactTerminator, WildcardTerminator}
  <2>1. DirSeparator \notin reserved /\ DirSeparator = ""
    BY DEF DirSeparator, PathPrefix, ExactTerminator, WildcardTerminator
  <2>2. \A i \in 1 .. Len(c) : c[i] \notin reserved
    BY <1>4 DEF Candidates, Ordinary
  <2>3. \A i \in 1 .. Len(n) : i \in 1 .. Len(c)
    BY <1>2, <1>4
  <2> HIDE DEF reserved
  <2>4. \A i \in 1 .. Len(n) : n[i] \notin reserved
    BY <1>2, <2>1, <2>2, <2>3
  <2> QED
    BY <1>3, <1>4, <2>1, <2>4 DEF Ordinary, reserved
<1> QED
  BY <1>2, <1>3, <1>5, <1>6 DEF Candidates, n

-----------------------------------------------------------------------------
(***************************************************************************)
(* What the loop starts with.                                              *)
(***************************************************************************)
Segment == Labels \cup {DirSeparator, PathPrefix, ExactTerminator, WildcardTerminator}

LEMMA StripLemma ==
  ASSUME NEW p \in AnyPath, Ordinary(p), NEW t \in {ExactTerminator, WildcardTerminator}
  PROVE  StripPathAffixes(Append(p, t)) = p
<1>1. p \in Seq(Segment) /\ t \in Segment
  <2>1. p \in Seq(Labels) /\ Labels \subseteq Segment
    BY AnyPathLemma DEF Segment
  <2> QED
    BY <2>1, SeqMonotonic DEF Segment
<1>2. \A i \in 1 .. Len(p) : p[i] # PathPrefix /\ (i # Len(p) => p[i] # DirSeparator)
  BY <1>1, LenProperties DEF Ordinary, DirSeparator
<1> DEFINE a == Append(p, t)
<1>3. /\ a # <<>> /\ a \in Seq(Segment) /\ Head(a) = IF p = <<>> THEN t ELSE Head(p)
      /\ Len(p) \in Nat
  BY <1>1, AppendProperties, HeadTailAppend, LenProperties
<1>4. p # <<>> => Len(p) > 0 /\ Head(p) = p[1]
  BY <1>1, EmptySeq
<1>5. Head(a) # PathPrefix
  BY <1>2, <1>3, <1>4 DEF PathPrefix, ExactTerminator, WildcardTerminator
<1>6. EndsWith(a, ExactTerminator) \/ EndsWith(a, WildcardTerminator)
  BY <1>1, <1>3, FrontAppend DEF EndsWith
<1>7. Front(a) = p
  BY <1>1, FrontAppend
<1>8. ~ (Len(p) > 1 /\ Head(p) = DirSeparator)
  <2>1. SUFFICES ASSUME Len(p) > 1
                 PROVE  p[1] # DirSeparator /\ p # <<>>
    BY <1>4
  <2> QED
    BY <1>1, <1>2, <1>3, <2>1, EmptySeq
<1> HIDE DEF a
<1>9. StripPathAffixes(a) = p
  BY <1>3, <1>5, <1>6, <1>7, <1>8 DEF StripPathAffixes
<1> QED
  BY <1>9 DEF a

\* A wildcard that covers the request passes the check at the start.
LEMMA ValidLemma ==
  ASSUME NEW p \in AnyPath, Ordinary(p), NEW r \in Candidates(p)
  PROVE  IsWildcardPathValidForRequestPath(r, p)
<1>1. /\ r \in AnyPath /\ Ordinary(r) /\ Covers(r, p)
      /\ p \in Seq(Labels) /\ r \in Seq(Labels)
  BY AnyPathLemma DEF Candidates
<1>2. /\ Len(Names(p)) <= Len(p) /\ Len(p) \in Nat /\ Len(Names(p)) \in Nat
  BY <1>1, NamesLemma, TidyLemma, LenProperties
<1>3. /\ Len(Names(r)) \in Nat /\ Len(Names(r)) <= Len(p)
      /\ Names(r) \in Seq(Labels)
      /\ \A i \in 1 .. Len(Names(r)) : Names(r)[i] = p[i]
  BY <1>1, <1>2, CoversLemma, TidyLemma, NamesLemma
<1>4. IsPrefix(Names(r), p)
  BY <1>1, <1>3, PrefixLemma
<1> QED
  BY <1>4 DEF Names, IsDirectory, IsWildcardPathValidForRequestPath

\* The loop does not pass the wildcard that answered.
LEMMA DoneLemma ==
  ASSUME NEW p \in AnyPath, Ordinary(p), NEW c \in Candidates(p), NEW r \in Candidates(p),
         Rank(c) >= Rank(r)
  PROVE  LoopEnds(c, r) <=> c = r
<1>1. c \in AnyPath /\ Ordinary(c) /\ r \in AnyPath /\ Ordinary(r)
  BY DEF Candidates
<1> DEFINE k == Len(Names(c))
           m == Len(Names(r))
<1>2. /\ k \in Nat /\ c \in Seq(Labels)
      /\ Len(c) = k + (IF IsDirectory(c) THEN 1 ELSE 0)
      /\ IsDirectory(c) <=> Len(c) > 0 /\ c[Len(c)] = DirSeparator
  BY <1>1, NamesLemma, TidyLemma
<1>3. /\ m \in Nat /\ r \in Seq(Labels)
      /\ Len(r) = m + (IF IsDirectory(r) THEN 1 ELSE 0)
      /\ IsDirectory(r) <=> Len(r) > 0 /\ r[Len(r)] = DirSeparator
  BY <1>1, NamesLemma, TidyLemma
<1>4. c # <<>> <=> Len(c) > 0
  BY <1>2, EmptySeq
<1>5. Rank(c) = 2 * k + (IF IsDirectory(c) THEN 1 ELSE 0)
      /\ Rank(r) = 2 * m + (IF IsDirectory(r) THEN 1 ELSE 0)
  BY DEF Rank
<1> HIDE DEF k, m
<1>6. ASSUME LoopEnds(c, r)
      PROVE  c = r
  <2>1. Len(c) <= Len(r) /\ (Len(c) > 0 => c[Len(c)] = r[Len(r)])
    BY <1>4, <1>6 DEF LoopEnds, Last
  <2>2. CASE IsDirectory(c)
    BY <1>1, <1>2, <1>3, <1>5, <2>1, <2>2, RankLemma, TidyLemma, CandidatesLemma
  <2>3. CASE ~IsDirectory(c) /\ IsDirectory(r)
    <3>1. Len(c) = k /\ Len(r) = m + 1 /\ Len(r) > 0 /\ r[Len(r)] = DirSeparator
      BY <1>2, <1>3, <2>3
    <3>2. Rank(c) = 2 * k /\ Rank(r) = 2 * m + 1
      BY <1>2, <1>3, <1>5, <2>3
    <3>3. k = m + 1
      BY <1>2, <1>3, <2>1, <3>1, <3>2
    <3>4. Len(c) > 0 /\ c[Len(c)] = DirSeparator
      BY <1>2, <1>3, <2>1, <3>1, <3>3
    <3> QED
      BY <1>2, <2>3, <3>4
  <2>4. CASE ~IsDirectory(c) /\ ~IsDirectory(r)
    BY <1>1, <1>2, <1>3, <1>5, <2>1, <2>4, RankLemma, TidyLemma, CandidatesLemma
  <2> QED
    BY <2>2, <2>3, <2>4
<1> QED
  BY <1>2, <1>6 DEF LoopEnds

\* The most specific wildcard that covers a request is spelt like it.
LEMMA TopLemma ==
  ASSUME NEW p \in AnyPath, Ordinary(p)
  PROVE  /\ p \in Candidates(p)
         /\ \A w \in Candidates(p) : Rank(w) <= Rank(p) /\ Rank(w) \in Nat
<1> DEFINE n == Len(Names(p))
<1>1. n \in Nat
  BY NamesLemma, TidyLemma
<1>2. p \in Candidates(p)
  BY <1>1, CoversLemma, TidyLemma DEF Candidates
<1>3. ASSUME NEW w \in Candidates(p)
      PROVE  Rank(w) <= Rank(p) /\ Rank(w) \in Nat
  <2>1. w \in AnyPath /\ Ordinary(w) /\ Covers(w, p)
    BY DEF Candidates
  <2>2. /\ Len(Names(w)) \in Nat /\ Len(Names(w)) <= n
        /\ IsDirectory(w) => n > Len(Names(w)) \/ IsDirectory(p)
    BY <1>1, <2>1, NamesLemma, TidyLemma, CoversLemma
  <2> QED
    BY <1>1, <2>2 DEF Rank
<1> QED
  BY <1>2, <1>3

\* A turn of the loop, whichever of the two.
LEMMA TurnLemma ==
  ASSUME Next
  PROVE  /\ ~LoopEnds(potential, start)
         /\ potential' = NextPotential(potential)
         /\ found' = Append(found, Append(potential, WildcardTerminator))
         /\ requested' = requested /\ responding' = responding /\ start' = start
BY DEF Next, DropSlash, DropName, Done, LoopEnds, NextPotential

-----------------------------------------------------------------------------
(***************************************************************************)
(* What is listed: at all times the candidates that the loop has been at.  *)
(***************************************************************************)
Listed == [i \in DOMAIN found |-> Front(found[i])]

Covered == Ordinary(requested) /\ Ordinary(responding) /\ Covers(responding, requested)

Narrowing ==
  /\ requested \in AnyPath /\ responding \in AnyPath
  /\ Covered =>
       /\ start = responding
       /\ potential \in Candidates(requested)
       /\ Rank(potential) >= Rank(responding)
       /\ found \in Seq(Seq(Segment))
       /\ ToSet(Listed) = {w \in Candidates(requested) : Rank(w) > Rank(potential)}
       /\ \A i, j \in DOMAIN found : i < j => Rank(Listed[i]) > Rank(Listed[j])

LEMMA NarrowingInit == Init => Narrowing
<1> SUFFICES ASSUME Init
             PROVE  Narrowing
  OBVIOUS
<1>1. /\ requested \in AnyPath /\ responding \in AnyPath /\ found = <<>>
      /\ potential = StripPathAffixes(Append(requested, ExactTerminator))
      /\ start = LET stripped == StripPathAffixes(Append(responding, WildcardTerminator))
                 IN  IF IsWildcardPathValidForRequestPath(stripped, potential)
                     THEN stripped ELSE <<>>
  BY DEF Init
<1>2. SUFFICES ASSUME Covered
               PROVE  /\ start = responding
                      /\ potential \in Candidates(requested)
                      /\ Rank(potential) >= Rank(responding)
                      /\ found \in Seq(Seq(Segment))
                      /\ ToSet(Listed) = {w \in Candidates(requested) : Rank(w) > Rank(potential)}
                      /\ \A i, j \in DOMAIN found : i < j => Rank(Listed[i]) > Rank(Listed[j])
  BY <1>1 DEF Narrowing
<1>3. potential = requested
  BY <1>1, <1>2, StripLemma DEF Covered
<1>4. responding \in Candidates(requested)
  BY <1>1, <1>2 DEF Covered, Candidates
<1>5. start = responding
  BY <1>1, <1>2, <1>3, <1>4, StripLemma, ValidLemma DEF Covered
<1>6. requested \in Candidates(requested)
      /\ \A w \in Candidates(requested) : Rank(w) <= Rank(requested) /\ Rank(w) \in Nat
  BY <1>1, <1>2, TopLemma DEF Covered
<1>7. DOMAIN found = {} /\ found \in Seq(Seq(Segment))
  BY <1>1, EmptySeq
<1>8. ToSet(Listed) = {}
  BY <1>7 DEF Listed, ToSet
<1>9. {w \in Candidates(requested) : Rank(w) > Rank(potential)} = {}
  BY <1>3, <1>6
<1> QED
  BY <1>3, <1>4, <1>5, <1>6, <1>7, <1>8, <1>9

LEMMA NarrowingStep ==
  ASSUME Narrowing, [Next]_vars
  PROVE  Narrowing'
<1>1. CASE UNCHANGED vars
  BY <1>1 DEF vars, Narrowing, Covered, Listed
<1>2. CASE Next
  <2>1. /\ ~LoopEnds(potential, start)
        /\ potential' = NextPotential(potential)
        /\ found' = Append(found, Append(potential, WildcardTerminator))
        /\ requested' = requested /\ responding' = responding /\ start' = start
    BY <1>2, TurnLemma
  <2>2. SUFFICES ASSUME Covered
                 PROVE  /\ potential' \in Candidates(requested)
                        /\ Rank(potential') >= Rank(responding)
                        /\ found' \in Seq(Seq(Segment))
                        /\ ToSet(Listed') =
                             {w \in Candidates(requested) : Rank(w) > Rank(potential')}
                        /\ \A i, j \in DOMAIN found' :
                             i < j => Rank(Listed'[i]) > Rank(Listed'[j])
    BY <2>1 DEF Narrowing, Covered
  <2>3. /\ requested \in AnyPath /\ Ordinary(requested)
        /\ responding \in Candidates(requested)
        /\ start = responding
        /\ potential \in Candidates(requested)
        /\ Rank(potential) >= Rank(responding)
        /\ found \in Seq(Seq(Segment))
        /\ ToSet(Listed) = {w \in Candidates(requested) : Rank(w) > Rank(potential)}
        /\ \A i, j \in DOMAIN found : i < j => Rank(Listed[i]) > Rank(Listed[j])
    BY <2>2 DEF Narrowing, Covered, Candidates
  <2>4. potential # responding
    BY <2>1, <2>3, DoneLemma
  <2>5. /\ Rank(potential) \in Nat /\ Rank(responding) \in Nat
        /\ Rank(potential) > Rank(responding)
    BY <2>3, <2>4, RankLemma, TidyLemma, CandidatesLemma
  <2>6. potential' \in Candidates(requested) /\ Rank(potential') = Rank(potential) - 1
    BY <2>1, <2>3, <2>5, NextCandidate
  <2>7. potential \in Seq(Segment) /\ WildcardTerminator \in Segment
    <3>1. potential \in Seq(Labels) /\ Labels \subseteq Segment
      BY <2>3, AnyPathLemma DEF Candidates, Segment
    <3> QED
      BY <3>1, SeqMonotonic DEF Segment
  <2> DEFINE a == Append(potential, WildcardTerminator)
  <2>8. a \in Seq(Segment) /\ Front(a) = potential
    BY <2>7, AppendProperties, FrontAppend
  <2> HIDE DEF a
  <2>9. /\ found' \in Seq(Seq(Segment)) /\ Len(found) \in Nat
        /\ DOMAIN found = 1 .. Len(found) /\ DOMAIN found' = 1 .. Len(found) + 1
        /\ \A i \in 1 .. Len(found) : found'[i] = found[i]
        /\ found'[Len(found) + 1] = a
    <3>1. found' = Append(found, a)
      BY <2>1 DEF a
    <3>2. /\ Append(found, a) \in Seq(Seq(Segment))
          /\ Len(Append(found, a)) = Len(found) + 1
          /\ \A i \in 1 .. Len(found) : Append(found, a)[i] = found[i]
          /\ Append(found, a)[Len(found) + 1] = a
      BY <2>3, <2>8, AppendProperties
    <3> QED
      BY <2>3, <3>1, <3>2, LenProperties
  <2>10. /\ DOMAIN Listed = 1 .. Len(found) /\ DOMAIN Listed' = 1 .. Len(found) + 1
         /\ \A i \in 1 .. Len(found) : Listed'[i] = Listed[i]
         /\ Listed'[Len(found) + 1] = potential
    BY <2>8, <2>9 DEF Listed
  <2>11. ToSet(Listed') = ToSet(Listed) \cup {potential}
    <3> DEFINE n == Len(found)
    <3>1. /\ ToSet(Listed) = {Listed[i] : i \in 1 .. n}
          /\ ToSet(Listed') = {Listed'[i] : i \in 1 .. n + 1}
      BY <2>10 DEF ToSet
    <3>2. 1 .. n + 1 = (1 .. n) \cup {n + 1}
      BY <2>9
    <3> HIDE DEF n
    <3>3. /\ \A i \in 1 .. n : Listed'[i] = Listed[i]
          /\ Listed'[n + 1] = potential
      BY <2>10 DEF n
    <3> QED
      BY <3>1, <3>2, <3>3
  <2>12. ToSet(Listed') = {w \in Candidates(requested) : Rank(w) > Rank(potential')}
    <3>1. \A w \in Candidates(requested) : Rank(w) \in Nat /\ (Rank(w) = Rank(potential) => w = potential)
      BY <2>3, RankLemma, TidyLemma, CandidatesLemma
    <3>2. \A w \in Candidates(requested) :
            Rank(w) > Rank(potential) - 1 <=> Rank(w) > Rank(potential) \/ w = potential
      BY <2>5, <3>1
    <3> QED
      BY <2>3, <2>6, <2>11, <3>2
  <2>13. ASSUME NEW i \in DOMAIN found', NEW j \in DOMAIN found', i < j
         PROVE  Rank(Listed'[i]) > Rank(Listed'[j])
    <3>1. CASE j \in 1 .. Len(found)
      <4>1. i \in DOMAIN found /\ j \in DOMAIN found
        BY <2>9, <2>13, <3>1
      <4> QED
        BY <2>3, <2>9, <2>10, <2>13, <4>1
    <3>2. CASE j = Len(found) + 1
      <4>1. i \in 1 .. Len(found)
        BY <2>9, <2>13, <3>2
      <4>2. Listed[i] \in ToSet(Listed)
        BY <2>10, <4>1 DEF ToSet
      <4>3. Rank(Listed[i]) > Rank(potential)
        BY <2>3, <4>2
      <4> QED
        BY <2>10, <3>2, <4>1, <4>3
    <3> QED
      BY <2>9, <3>1, <3>2
  <2>14. Rank(potential') >= Rank(responding)
    BY <2>5, <2>6
  <2> QED
    BY <2>6, <2>9, <2>12, <2>13, <2>14
<1> QED
  BY <1>1, <1>2

\* Where the responding wildcard covers the request, the loop lists exactly the wildcards
\* that cover it too and are more specific, the most specific first.
THEOREM ListedAreMoreSpecific == Spec => []ListsMoreSpecific
<1>1. ASSUME Narrowing
      PROVE  ListsMoreSpecific
  <2>1. SUFFICES ASSUME Done, Covered
                 PROVE  /\ ToSet(Listed) = {w \in AnyPath : /\ Ordinary(w) /\ Covers(w, requested)
                                                            /\ MoreSpecific(w, responding)}
                        /\ \A i, j \in DOMAIN Listed : i < j => MoreSpecific(Listed[i], Listed[j])
    BY DEF ListsMoreSpecific, Listed, Covered
  <2>2. /\ requested \in AnyPath /\ Ordinary(requested)
        /\ responding \in Candidates(requested)
        /\ start = responding
        /\ potential \in Candidates(requested)
        /\ Rank(potential) >= Rank(responding)
        /\ ToSet(Listed) = {w \in Candidates(requested) : Rank(w) > Rank(potential)}
        /\ \A i, j \in DOMAIN found : i < j => Rank(Listed[i]) > Rank(Listed[j])
    BY <1>1, <2>1 DEF Narrowing, Covered, Candidates
  <2>3. potential = responding
    BY <2>1, <2>2, DoneLemma DEF Done, LoopEnds
  <2>4. \A v, w \in Candidates(requested) : MoreSpecific(v, w) <=> Rank(v) > Rank(w)
    BY <2>2, RankLemma, TidyLemma, CandidatesLemma
  <2>5. ToSet(Listed) = {w \in Candidates(requested) : MoreSpecific(w, responding)}
    BY <2>2, <2>3, <2>4
  <2>6. \A i \in DOMAIN Listed : Listed[i] \in Candidates(requested)
    BY <2>5 DEF ToSet
  <2>7. DOMAIN Listed = DOMAIN found
    BY DEF Listed
  <2> QED
    BY <2>2, <2>4, <2>5, <2>6, <2>7 DEF Candidates
<1> QED
  BY <1>1, NarrowingInit, NarrowingStep, PTL DEF Spec

-----------------------------------------------------------------------------
(***************************************************************************)
(* The loop and the function.                                              *)
(***************************************************************************)
LEMMA StripType ==
  ASSUME NEW q \in Seq(Segment)
  PROVE  StripPathAffixes(q) \in Seq(Segment)
<1> DEFINE p == IF q # <<>> /\ Head(q) = PathPrefix THEN Tail(q) ELSE q
           r == IF EndsWith(p, ExactTerminator) \/ EndsWith(p, WildcardTerminator)
                THEN Front(p) ELSE p
<1>1. p \in Seq(Segment)
  BY HeadTailProperties
<1>2. r \in Seq(Segment)
  <2> HIDE DEF p
  <2> QED
    BY <1>1, FrontLemma DEF EndsWith
<1>3. StripPathAffixes(q) = IF Len(r) > 1 /\ Head(r) = DirSeparator THEN Tail(r) ELSE r
  BY DEF StripPathAffixes
<1> HIDE DEF r
<1>4. Len(r) > 1 => r # <<>>
  BY EmptySeq
<1> QED
  BY <1>2, <1>3, <1>4, HeadTailProperties

\* The path the loop starts with, and how many turns a path is at most away from the
\* root.
Asked == StripPathAffixes(Append(requested, ExactTerminator))

Height(path) == 2 * Len(path) - (IF EndsWith(path, DirSeparator) THEN 1 ELSE 0)

\* Where it stops: at the responding wildcard, if that is a prefix, and else below it.
Bounded ==
  /\ Asked \in Seq(Segment) /\ potential \in Seq(Segment) /\ start \in Seq(Segment)
  /\ found \in Seq(Seq(Segment))
  /\ IsWildcardPathValidForRequestPath(start, Asked)
  /\ start # <<>> /\ IsPrefix(start, Asked) => IsPrefix(start, potential)
  /\ Asked # <<>> /\ potential = <<>> => start = <<>>
  /\ Asked = <<>> =>
       \/ potential = <<>> /\ found = <<>>
       \/ potential = <<DirSeparator>> /\ start = potential /\ Len(found) = 1
  /\ Asked # <<>> => Len(found) + Height(potential) <= 2 * Len(Asked)

LEMMA HeightLemma ==
  ASSUME NEW c \in Seq(Segment)
  PROVE  /\ Height(c) \in Nat
         /\ Height(c) <= 2 * Len(c)
         /\ c # <<>> => Height(NextPotential(c)) < Height(c)
<1> DEFINE n == NextPotential(c)
<1>1. DirSeparator \in Segment /\ Len(c) \in Nat
  BY LenProperties DEF Segment
<1>2. /\ n \in Seq(Segment)
      /\ EndsWith(c, DirSeparator) => Len(n) = Len(c) - 1
      /\ c # <<>> /\ ~EndsWith(c, DirSeparator) => Len(n) = Len(c) /\ n[Len(c)] = DirSeparator
  BY <1>1, NextLemma
<1>3. Len(n) \in Nat
  BY <1>2, LenProperties
<1>4. c # <<>> <=> Len(c) > 0
  BY <1>1, EmptySeq
<1>5. EndsWith(c, DirSeparator) => Len(c) > 0
  BY <1>4 DEF EndsWith
<1>6. Height(c) \in Nat /\ Height(c) <= 2 * Len(c)
  BY <1>1, <1>5 DEF Height
<1>7. ASSUME c # <<>>
      PROVE  Height(n) < Height(c)
  <2>1. CASE EndsWith(c, DirSeparator)
    <3>1. Height(c) = 2 * Len(c) - 1 /\ Len(n) = Len(c) - 1
      BY <1>2, <2>1 DEF Height
    <3>2. Height(n) <= 2 * Len(n)
      BY <1>3 DEF Height
    <3>3. Height(n) \in Int
      BY <1>3 DEF Height
    <3> QED
      BY <1>1, <1>3, <3>1, <3>2, <3>3
  <2>2. CASE ~EndsWith(c, DirSeparator)
    <3>1. Len(n) = Len(c) /\ n[Len(n)] = DirSeparator
      BY <1>2, <1>7, <2>2
    <3>2. EndsWith(n, DirSeparator)
      <4>1. n # <<>>
        BY <1>2, <1>4, <1>7, <3>1, EmptySeq
      <4> QED
        BY <3>1, <4>1 DEF EndsWith, Last
    <3>3. Height(n) = 2 * Len(c) - 1 /\ Height(c) = 2 * Len(c) - 0
      BY <2>2, <3>1, <3>2 DEF Height
    <3> QED
      BY <1>1, <3>3
  <2> QED
    BY <2>1, <2>2
<1> QED
  BY <1>6, <1>7

LEMMA BoundedInit == Init => Bounded
<1> SUFFICES ASSUME Init
             PROVE  Bounded
  OBVIOUS
<1> DEFINE stripped == StripPathAffixes(Append(responding, WildcardTerminator))
<1>1. /\ requested \in AnyPath /\ responding \in AnyPath /\ found = <<>>
      /\ potential = Asked
      /\ start = IF IsWildcardPathValidForRequestPath(stripped, potential) THEN stripped ELSE <<>>
  BY DEF Init, Asked
<1>2. requested \in Seq(Segment) /\ responding \in Seq(Segment)
  <2>1. requested \in Seq(Labels) /\ responding \in Seq(Labels) /\ Labels \subseteq Segment
    BY <1>1, AnyPathLemma DEF Segment
  <2> QED
    BY <2>1, SeqMonotonic
<1>3. Asked \in Seq(Segment) /\ stripped \in Seq(Segment)
  <2>1. /\ Append(requested, ExactTerminator) \in Seq(Segment)
        /\ Append(responding, WildcardTerminator) \in Seq(Segment)
    BY <1>2, AppendProperties DEF Segment
  <2> QED
    BY <2>1, StripType DEF Asked
<1>4. /\ start \in Seq(Segment) /\ found \in Seq(Seq(Segment)) /\ Len(found) = 0
  BY <1>1, <1>3, EmptySeq
<1>5. IsWildcardPathValidForRequestPath(start, Asked)
  <2>1. IsPrefix(<<>>, Asked)
    <3>1. <<>> \in Seq(Segment) /\ Len(<<>>) = 0 /\ Len(Asked) \in Nat
      BY <1>3, EmptySeq, LenProperties
    <3>2. Len(<<>>) <= Len(Asked) /\ \A i \in 1 .. Len(<<>>) : <<>>[i] = Asked[i]
      BY <3>1
    <3> QED
      BY <1>3, <3>1, <3>2, PrefixLemma
  <2> QED
    BY <1>1, <2>1 DEF IsWildcardPathValidForRequestPath
<1>6. Height(Asked) <= 2 * Len(Asked) /\ Height(Asked) \in Nat
  BY <1>3, HeightLemma
<1>7. Len(found) + Height(potential) <= 2 * Len(Asked)
  BY <1>1, <1>4, <1>6
<1> QED
  BY <1>1, <1>3, <1>4, <1>5, <1>7 DEF Bounded

LEMMA BoundedStep ==
  ASSUME Bounded, [Next]_vars
  PROVE  Bounded'
<1>1. CASE UNCHANGED vars
  BY <1>1 DEF vars, Bounded, Asked
<1>2. CASE Next
  <2>1. /\ ~LoopEnds(potential, start)
        /\ potential' = NextPotential(potential)
        /\ found' = Append(found, Append(potential, WildcardTerminator))
        /\ requested' = requested /\ start' = start
    BY <1>2, TurnLemma
  <2>2. Asked' = Asked
    BY <2>1 DEF Asked
  <2>3. /\ Asked \in Seq(Segment) /\ potential \in Seq(Segment) /\ start \in Seq(Segment)
        /\ found \in Seq(Seq(Segment))
        /\ IsWildcardPathValidForRequestPath(start, Asked)
        /\ start # <<>> /\ IsPrefix(start, Asked) => IsPrefix(start, potential)
        /\ Asked # <<>> /\ potential = <<>> => start = <<>>
    BY DEF Bounded
  <2>4. DirSeparator \in Segment /\ WildcardTerminator \in Segment
    BY DEF Segment
  <2> DEFINE n == NextPotential(potential)
  <2>5. /\ n \in Seq(Segment)
        /\ EndsWith(potential, DirSeparator) =>
             Len(n) = Len(potential) - 1 /\ \A i \in 1 .. Len(potential) - 1 : n[i] = potential[i]
        /\ potential # <<>> /\ ~EndsWith(potential, DirSeparator) =>
             /\ Len(n) = Len(potential) /\ n[Len(potential)] = DirSeparator
             /\ \A i \in 1 .. Len(potential) - 1 : n[i] = potential[i]
        /\ potential = <<>> => Len(n) = 1 /\ n[1] = DirSeparator
    BY <2>3, <2>4, NextLemma
  <2> HIDE DEF n
  <2>6. /\ Len(potential) \in Nat /\ Len(start) \in Nat /\ Len(n) \in Nat /\ Len(found) \in Nat
        /\ potential # <<>> <=> Len(potential) > 0
        /\ start # <<>> <=> Len(start) > 0
        /\ n # <<>> <=> Len(n) > 0
    BY <2>3, <2>5, LenProperties, EmptySeq
  <2>7. /\ found' \in Seq(Seq(Segment)) /\ Len(found') = Len(found) + 1
    <3>1. Append(potential, WildcardTerminator) \in Seq(Segment)
      BY <2>3, <2>4, AppendProperties
    <3> QED
      BY <2>1, <2>3, <3>1, AppendProperties
  <2>8. ASSUME start # <<>>, IsPrefix(start, Asked)
        PROVE  IsPrefix(start, n)
    <3>1. Len(start) <= Len(potential) /\ \A i \in 1 .. Len(start) : start[i] = potential[i]
      BY <2>3, <2>8, PrefixLemma
    <3>2. Len(start) # Len(potential)
      <4>1. Len(start) = Len(potential) => start = potential
        BY <2>3, <3>1, SeqEqual
      <4> QED
        BY <2>1, <2>6, <4>1 DEF LoopEnds
    <3>3. Len(start) <= Len(potential) - 1 /\ Len(potential) > 0
      BY <2>6, <3>1, <3>2
    <3>4. Len(n) >= Len(potential) - 1 /\ \A i \in 1 .. Len(potential) - 1 : n[i] = potential[i]
      BY <2>5, <2>6, <3>3
    <3>5. Len(start) <= Len(n) /\ \A i \in 1 .. Len(start) : start[i] = n[i]
      BY <2>6, <3>1, <3>3, <3>4
    <3> QED
      BY <2>3, <2>5, <3>5, PrefixLemma
  <2>9. ASSUME n = <<>>
        PROVE  start = <<>>
    <3>1. Len(n) = 0
      BY <2>6, <2>9
    <3>2. Len(potential) = 1 /\ EndsWith(potential, DirSeparator)
      BY <2>5, <2>6, <3>1
    <3>3. SUFFICES ASSUME start # <<>>
                   PROVE  FALSE
      OBVIOUS
    <3>4. Last(start) # Last(potential)
      BY <2>1, <2>6, <3>2, <3>3 DEF LoopEnds, EndsWith
    <3>5. IsPrefix(start, Asked)
      BY <2>3, <3>2, <3>4 DEF EndsWith, IsWildcardPathValidForRequestPath
    <3>6. IsPrefix(start, n)
      BY <2>8, <3>3, <3>5
    <3>7. Len(start) <= Len(n)
      BY <2>3, <2>5, <3>6, PrefixLemma
    <3> QED
      BY <2>6, <3>1, <3>3, <3>7
  <2>10. ASSUME Asked = <<>>
         PROVE  n = <<DirSeparator>> /\ start = n /\ Len(found') = 1
    <3>1. potential = <<>> /\ found = <<>>
      BY <2>1, <2>10 DEF Bounded, LoopEnds
    <3>2. start # <<>>
      BY <2>1, <3>1 DEF LoopEnds
    <3>3. ~IsPrefix(start, Asked)
      <4>1. IsPrefix(start, Asked) => Len(start) <= Len(Asked)
        BY <2>3, PrefixLemma
      <4>2. Len(Asked) = 0
        BY <2>10, EmptySeq
      <4> QED
        BY <2>6, <3>2, <4>1, <4>2
    <3>4. EndsWith(start, DirSeparator) /\ IsPrefix(Front(start), Asked)
      BY <2>3, <3>3 DEF IsWildcardPathValidForRequestPath
    <3>5. /\ Front(start) \in Seq(Segment) /\ Len(Front(start)) = Len(start) - 1
          /\ start[Len(start)] = DirSeparator
      BY <2>3, <3>2, <3>4, FrontLemma DEF EndsWith
    <3>6. Len(Front(start)) <= 0
      BY <2>3, <2>10, <3>4, <3>5, PrefixLemma, EmptySeq
    <3>7. Len(start) = 1 /\ start[1] = DirSeparator
      BY <2>6, <3>2, <3>5, <3>6
    <3>8. Len(n) = 1 /\ n[1] = DirSeparator
      BY <2>5, <3>1
    <3>9. n = start
      BY <2>3, <2>5, <3>7, <3>8, SeqEqual
    <3>10. n = <<DirSeparator>>
      BY <2>5, <3>8, <2>4, SeqEqual
    <3> QED
      BY <2>7, <3>1, <3>9, <3>10, EmptySeq
  <2>11. ASSUME Asked # <<>>
         PROVE  Len(found') + Height(n) <= 2 * Len(Asked)
    <3>1. Len(found) + Height(potential) <= 2 * Len(Asked)
      BY <2>11 DEF Bounded
    <3>2. potential # <<>>
      BY <2>1, <2>3, <2>11 DEF LoopEnds
    <3>3. Height(n) < Height(potential) /\ Height(n) \in Nat /\ Height(potential) \in Nat
      BY <2>3, <2>5, <3>2, HeightLemma DEF n
    <3>4. Len(Asked) \in Nat
      BY <2>3, LenProperties
    <3> QED
      BY <2>6, <2>7, <3>1, <3>3, <3>4
  <2>12. potential' = n
    BY <2>1 DEF n
  <2> QED
    BY <2>1, <2>2, <2>3, <2>5, <2>7, <2>8, <2>9, <2>10, <2>11, <2>12 DEF Bounded
<1> QED
  BY <1>1, <1>2

\* The loop takes two turns for each segment of the request at most, and one for the root.
Turns == Len(found) <= 2 * Len(Asked) + 1

LEMMA BoundedTurns == Bounded => Turns /\ Len(found) \in Nat
<1> SUFFICES ASSUME Bounded
             PROVE  Turns /\ Len(found) \in Nat
  OBVIOUS
<1>1. Asked \in Seq(Segment) /\ potential \in Seq(Segment) /\ found \in Seq(Seq(Segment))
  BY DEF Bounded
<1>2. Len(Asked) \in Nat /\ Len(found) \in Nat /\ Height(potential) \in Nat
  BY <1>1, LenProperties, HeightLemma
<1>3. CASE Asked = <<>>
  <2>1. Len(found) = 0 \/ Len(found) = 1
    BY <1>3, EmptySeq DEF Bounded
  <2> DEFINE l == Len(found)
             a == Len(Asked)
  <2>2. a \in Nat /\ (l = 0 \/ l = 1)
    BY <1>2, <2>1
  <2> HIDE DEF l, a
  <2>3. l <= 2 * a + 1
    BY <2>2
  <2> QED
    BY <1>2, <2>3 DEF Turns, l, a
<1>4. CASE Asked # <<>>
  <2>1. Len(found) + Height(potential) <= 2 * Len(Asked)
    BY <1>4 DEF Bounded
  <2> QED
    BY <1>2, <2>1 DEF Turns
<1> QED
  BY <1>3, <1>4

\* After each turn: the paths so far are the function's, and none of them was the last.
Agreement ==
  /\ start = LET stripped == StripPathAffixes(Append(responding, WildcardTerminator))
             IN  IF IsWildcardPathValidForRequestPath(stripped, Asked) THEN stripped ELSE <<>>
  /\ potential = Potentials(Asked)[Len(found)]
  /\ \A i \in 1 .. Len(found) :
       /\ ~LoopEnds(Potentials(Asked)[i - 1], start)
       /\ found[i] = Append(Potentials(Asked)[i - 1], WildcardTerminator)

LEMMA AgreementStep ==
  ASSUME Bounded, Turns', Agreement, [Next]_vars
  PROVE  Agreement'
<1>1. CASE UNCHANGED vars
  BY <1>1 DEF vars, Agreement, Asked
<1>2. CASE Next
  <2>1. /\ ~LoopEnds(potential, start)
        /\ potential' = NextPotential(potential)
        /\ found' = Append(found, Append(potential, WildcardTerminator))
        /\ requested' = requested /\ responding' = responding /\ start' = start
    BY <1>2, TurnLemma
  <2>2. Asked' = Asked
    BY <2>1 DEF Asked
  <2>3. Asked \in Seq(Segment) /\ potential \in Seq(Segment) /\ found \in Seq(Seq(Segment))
    BY DEF Bounded
  <2> DEFINE at == Potentials(Asked)
             l  == Len(found)
  <2>4. /\ l \in Nat /\ Len(found') = l + 1
        /\ \A i \in 1 .. l : found'[i] = found[i]
        /\ found'[l + 1] = Append(potential, WildcardTerminator)
    <3>1. Append(potential, WildcardTerminator) \in Seq(Segment)
      BY <2>3, AppendProperties DEF Segment
    <3> QED
      BY <2>1, <2>3, <3>1, AppendProperties, LenProperties
  <2>5. l + 1 <= 2 * Len(Asked) + 1
    BY <2>2, <2>4 DEF Turns
  <2>6. l + 1 \in 1 .. 2 * Len(Asked) + 1
    BY <2>3, <2>4, <2>5, LenProperties
  <2>7. at[l + 1] = NextPotential(at[l])
    <3>1. \A m \in 1 .. 2 * Len(Asked) + 1 : at[m] = NextPotential(at[m - 1])
      BY <2>3, PotentialsLemma
    <3> DEFINE top == 2 * Len(Asked) + 1
    <3>2. top \in Nat /\ l \in Nat /\ l + 1 \in 1 .. top
      BY <2>3, <2>4, <2>6, LenProperties
    <3>3. \A m \in 1 .. top : at[m] = NextPotential(at[m - 1])
      BY <3>1
    <3> HIDE DEF at, l, top
    <3> QED
      BY <3>2, <3>3
  <2>8. potential = at[l]
    BY DEF Agreement
  <2>9. ASSUME NEW i \in 1 .. l + 1
        PROVE  /\ ~LoopEnds(at[i - 1], start)
               /\ found'[i] = Append(at[i - 1], WildcardTerminator)
    <3>1. CASE i \in 1 .. l
      BY <2>4, <3>1 DEF Agreement
    <3>2. CASE i = l + 1
      <4>1. i - 1 = l
        BY <2>4, <3>2
      <4> HIDE DEF at, l
      <4> QED
        BY <2>1, <2>4, <2>8, <3>2, <4>1
    <3> QED
      BY <2>4, <3>1, <3>2
  <2> HIDE DEF at, l
  <2>10. potential' = Potentials(Asked)[Len(found')]
    BY <2>1, <2>4, <2>7, <2>8 DEF at
  <2>11. \A i \in 1 .. Len(found') :
           /\ ~LoopEnds(Potentials(Asked)[i - 1], start)
           /\ found'[i] = Append(Potentials(Asked)[i - 1], WildcardTerminator)
    BY <2>4, <2>9 DEF at
  <2>12. start = LET stripped == StripPathAffixes(Append(responding, WildcardTerminator))
                 IN  IF IsWildcardPathValidForRequestPath(stripped, Asked) THEN stripped ELSE <<>>
    BY DEF Agreement
  <2> QED
    BY <2>1, <2>2, <2>10, <2>11, <2>12 DEF Agreement
<1> QED
  BY <1>1, <1>2

LEMMA AgreementInit == Init => Agreement
<1> SUFFICES ASSUME Init
             PROVE  Agreement
  OBVIOUS
<1>1. Bounded
  BY BoundedInit
<1>2. found = <<>> /\ potential = Asked /\ Len(found) = 0
  BY EmptySeq DEF Init, Asked
<1>3. Potentials(Asked)[0] = Asked
  BY <1>1, PotentialsLemma DEF Bounded
<1> QED
  BY <1>2, <1>3 DEF Init, Agreement, Asked

\* The loop ends within two turns for each segment of the request and one more, whatever
\* segments there are in the paths.
THEOREM LoopIsBounded == Spec => []Turns
<1>1. Bounded => Turns
  BY BoundedTurns
<1> QED
  BY <1>1, BoundedInit, BoundedStep, PTL DEF Spec

\* The loop, turn by turn, and the function that witnesses and their verification are
\* modelled with list the same wildcards, in the same order.
THEOREM LoopIsTheFunction == Spec => []AgreesWithDefinition
<1>1. ASSUME Bounded, Agreement
      PROVE  AgreesWithDefinition
  <2>1. SUFFICES ASSUME Done
                 PROVE  found = WildcardsDownTo(Asked, start)
    BY <1>1 DEF AgreesWithDefinition, MoreSpecificWildcardsFor, Agreement, Asked
  <2> DEFINE at  == Potentials(Asked)
             l   == Len(found)
             IsEnd(n) == LoopEnds(at[n], start) /\ \A m \in 0 .. n - 1 : ~LoopEnds(at[m], start)
  <2>2. /\ l \in Nat /\ l <= 2 * Len(Asked) + 1 /\ Len(Asked) \in Nat
        /\ found \in Seq(Seq(Segment)) /\ Asked \in Seq(Segment)
    BY <1>1, BoundedTurns, LenProperties DEF Turns, Bounded
  <2>3. DOMAIN at = 0 .. 2 * Len(Asked) + 1
    BY <2>2, PotentialsLemma
  <2>4. l \in DOMAIN at
    BY <2>2, <2>3
  <2>5. IsEnd(l)
    <3>1. LoopEnds(at[l], start)
      BY <1>1, <2>1 DEF Agreement, Done, LoopEnds
    <3>2. ASSUME NEW m \in 0 .. l - 1
          PROVE  ~LoopEnds(at[m], start)
      <4>1. m + 1 \in 1 .. l /\ m + 1 - 1 = m
        BY <2>2
      <4> QED
        BY <1>1, <4>1 DEF Agreement
    <3> QED
      BY <3>1, <3>2
  <2>6. ASSUME NEW n \in DOMAIN at, IsEnd(n)
        PROVE  n = l
    <3>1. n \in Nat
      BY <2>2, <2>3
    <3>2. ~ (n < l) /\ ~ (l < n)
      BY <2>2, <2>5, <2>6, <3>1
    <3> QED
      BY <2>2, <3>1, <3>2
  <2>7. (CHOOSE n \in DOMAIN at : IsEnd(n)) = l
    <3> HIDE DEF at, l, IsEnd
    <3> QED
      BY <2>4, <2>5, <2>6
  <2>8. WildcardsDownTo(Asked, start) = [n \in 1 .. l |-> Append(at[n - 1], WildcardTerminator)]
    BY <2>7 DEF WildcardsDownTo
  <2>9. found = [n \in 1 .. l |-> found[n]]
    BY <2>2, LenProperties
  <2>10. \A n \in 1 .. l : found[n] = Append(at[n - 1], WildcardTerminator)
    BY <1>1 DEF Agreement
  <2> HIDE DEF at, l
  <2> QED
    BY <2>8, <2>9, <2>10
<1>2. Bounded => Turns
  BY BoundedTurns
<1> QED
  BY <1>1, <1>2, BoundedInit, BoundedStep, AgreementInit, AgreementStep, PTL DEF Spec

-----------------------------------------------------------------------------
(***************************************************************************)
(* What the function lists, whether or not a loop gets there.              *)
(***************************************************************************)
\* The potential paths of a request are the wildcards that cover it, rank by rank.
LEMMA PotentialsDescend ==
  ASSUME NEW p \in AnyPath, Ordinary(p)
  PROVE  \A n \in 0 .. Rank(p) :
           Potentials(p)[n] \in Candidates(p) /\ Rank(Potentials(p)[n]) = Rank(p) - n
<1> DEFINE at == Potentials(p)
           Wrong == {n \in 0 .. Rank(p) : ~ (at[n] \in Candidates(p) /\ Rank(at[n]) = Rank(p) - n)}
<1>1. p \in Candidates(p) /\ Rank(p) \in Nat /\ p \in Seq(Labels)
  BY TopLemma, AnyPathLemma
<1>2. Rank(p) <= 2 * Len(p) /\ Len(p) \in Nat
  <2>1. /\ Len(Names(p)) \in Nat
        /\ Len(p) = Len(Names(p)) + (IF IsDirectory(p) THEN 1 ELSE 0)
    BY NamesLemma, TidyLemma
  <2> QED
    BY <2>1 DEF Rank
<1>3. at[0] = p /\ \A n \in 1 .. 2 * Len(p) + 1 : at[n] = NextPotential(at[n - 1])
  BY <1>1, PotentialsLemma
<1> HIDE DEF at
<1>4. SUFFICES ASSUME Wrong # {}
               PROVE  FALSE
  BY DEF at
<1>5. PICK n \in Wrong : \A m \in Wrong : n <= m
  <2>1. Wrong \in SUBSET Nat
    BY <1>1
  <2> HIDE DEF Wrong
  <2> QED
    BY <1>4, <2>1, SmallestExists
<1>6. n \in 1 .. Rank(p) /\ n - 1 \in 0 .. Rank(p) /\ n - 1 \notin Wrong
  BY <1>1, <1>3, <1>5
<1>7. at[n - 1] \in Candidates(p) /\ Rank(at[n - 1]) = Rank(p) - n + 1 /\ Rank(at[n - 1]) > 0
  BY <1>1, <1>6
<1>8. at[n] \in Candidates(p) /\ Rank(at[n]) = Rank(p) - n
  <2>1. at[n] = NextPotential(at[n - 1])
    BY <1>1, <1>2, <1>3, <1>6
  <2>2. NextPotential(at[n - 1]) \in Candidates(p) /\ Rank(NextPotential(at[n - 1])) = Rank(at[n - 1]) - 1
    BY <1>7, NextCandidate
  <2> QED
    BY <1>1, <1>6, <1>7, <2>1, <2>2
<1> QED
  BY <1>5, <1>8

\* For any request and any wildcard that covers it, more_specific_wildcards_for gives the
\* wildcards that cover it too and are more specific, all of them and no others, the most
\* specific first: those that outdo the wildcard if they are certified.
THEOREM FunctionListsMoreSpecific ==
  ASSUME NEW p \in AnyPath, Ordinary(p), NEW r \in Candidates(p)
  PROVE  LET listed == MoreSpecificWildcardsFor(Append(p, ExactTerminator), Append(r, WildcardTerminator))
         IN  /\ ToSet(listed) = {Append(w, WildcardTerminator) : w \in {v \in Candidates(p) : MoreSpecific(v, r)}}
             /\ \A i, j \in DOMAIN listed : i < j => MoreSpecific(Front(listed[i]), Front(listed[j]))
<1> DEFINE at == Potentials(p)
           l  == Rank(p) - Rank(r)
           IsEnd(n) == LoopEnds(at[n], r) /\ \A m \in 0 .. n - 1 : ~LoopEnds(at[m], r)
           listed == MoreSpecificWildcardsFor(Append(p, ExactTerminator), Append(r, WildcardTerminator))
           best == {v \in Candidates(p) : MoreSpecific(v, r)}
<1>1. /\ r \in AnyPath /\ Ordinary(r) /\ p \in Seq(Labels)
      /\ p \in Candidates(p) /\ Rank(p) \in Nat
      /\ \A w \in Candidates(p) : Rank(w) <= Rank(p) /\ Rank(w) \in Nat
  BY TopLemma, AnyPathLemma DEF Candidates
<1>2. /\ \A v, w \in Candidates(p) : MoreSpecific(v, w) <=> Rank(v) > Rank(w)
      /\ \A v, w \in Candidates(p) : Rank(v) = Rank(w) => v = w
  BY RankLemma, TidyLemma, CandidatesLemma
<1>3. \A n \in 0 .. Rank(p) : at[n] \in Candidates(p) /\ Rank(at[n]) = Rank(p) - n
  BY PotentialsDescend
<1>4. l \in 0 .. Rank(p) /\ l \in Nat
  BY <1>1
<1>5. DOMAIN at = 0 .. 2 * Len(p) + 1 /\ Len(p) \in Nat /\ Rank(p) <= 2 * Len(p)
  <2>1. /\ Len(Names(p)) \in Nat
        /\ Len(p) = Len(Names(p)) + (IF IsDirectory(p) THEN 1 ELSE 0)
    BY NamesLemma, TidyLemma
  <2>2. Rank(p) <= 2 * Len(p) /\ Len(p) \in Nat
    BY <2>1 DEF Rank
  <2>3. DOMAIN at = 0 .. 2 * Len(p) + 1
    BY <1>1, PotentialsLemma
  <2> QED
    BY <2>2, <2>3
<1>6. listed = WildcardsDownTo(p, r)
  BY <1>1, StripLemma, ValidLemma DEF MoreSpecificWildcardsFor
<1> HIDE DEF at, l
<1>7. at[l] = r
  BY <1>1, <1>2, <1>3, <1>4 DEF l
<1>8. IsEnd(l)
  <2>1. LoopEnds(at[l], r)
    BY <1>1, <1>7, DoneLemma
  <2>2. ASSUME NEW m \in 0 .. l - 1
        PROVE  ~LoopEnds(at[m], r)
    <3>1. /\ at[m] \in Candidates(p) /\ Rank(at[m]) = Rank(p) - m /\ m < l /\ m \in Nat
      BY <1>1, <1>3, <1>4
    <3>2. Rank(at[m]) > Rank(r) /\ Rank(r) \in Nat
      BY <1>1, <3>1 DEF l
    <3>3. LoopEnds(at[m], r) <=> at[m] = r
      BY <3>1, <3>2, <1>1, DoneLemma
    <3> QED
      BY <3>2, <3>3
  <2> QED
    BY <2>1, <2>2
<1>9. (CHOOSE n \in DOMAIN at : IsEnd(n)) = l
  <2>1. l \in DOMAIN at
    BY <1>1, <1>4, <1>5
  <2>2. ASSUME NEW n \in DOMAIN at, IsEnd(n)
        PROVE  n = l
    <3>1. n \in Nat
      BY <1>5
    <3>2. ~ (n < l) /\ ~ (l < n)
      BY <1>4, <1>8, <2>2, <3>1
    <3> QED
      BY <1>4, <3>1, <3>2
  <2> HIDE DEF IsEnd
  <2> QED
    BY <1>8, <2>1, <2>2
<1>10. listed = [n \in 1 .. l |-> Append(at[n - 1], WildcardTerminator)]
  BY <1>6, <1>9 DEF WildcardsDownTo, at
<1>11. \A n \in 1 .. l : /\ at[n - 1] \in Candidates(p) /\ Rank(at[n - 1]) = Rank(p) - n + 1
                         /\ at[n - 1] \in best
                         /\ Front(listed[n]) = at[n - 1]
  <2>1. ASSUME NEW n \in 1 .. l
        PROVE  /\ at[n - 1] \in Candidates(p) /\ Rank(at[n - 1]) = Rank(p) - n + 1
               /\ Rank(at[n - 1]) > Rank(r)
    <3>1. n - 1 \in 0 .. Rank(p) /\ n \in Nat /\ n <= l
      BY <1>1, <1>4
    <3>2. at[n - 1] \in Candidates(p) /\ Rank(at[n - 1]) = Rank(p) - (n - 1)
      BY <1>3, <3>1
    <3> QED
      BY <1>1, <3>1, <3>2 DEF l
  <2>2. ASSUME NEW n \in 1 .. l
        PROVE  Front(Append(at[n - 1], WildcardTerminator)) = at[n - 1]
    <3>1. at[n - 1] \in Seq(Labels)
      BY <2>1, AnyPathLemma DEF Candidates
    <3>2. at[n - 1] \in Seq(Labels \cup {WildcardTerminator}) /\ WildcardTerminator \in Labels \cup {WildcardTerminator}
      BY <3>1, SeqMonotonic
    <3> QED
      BY <3>2, FrontAppend
  <2> QED
    BY <1>2, <1>10, <2>1, <2>2
<1> HIDE DEF listed
<1>12. DOMAIN listed = 1 .. l /\ \A n \in 1 .. l : listed[n] = Append(at[n - 1], WildcardTerminator)
  BY <1>10
<1>13. ToSet(listed) = {Append(w, WildcardTerminator) : w \in best}
  <2>1. ASSUME NEW w \in best
        PROVE  Append(w, WildcardTerminator) \in ToSet(listed)
    <3> DEFINE n == Rank(p) - Rank(w) + 1
    <3>1. n \in 1 .. l
      BY <1>1, <1>2, <1>4 DEF l
    <3>2. at[n - 1] \in Candidates(p) /\ Rank(at[n - 1]) = Rank(w)
      BY <1>1, <1>11, <3>1
    <3>3. at[n - 1] = w
      BY <1>2, <3>2
    <3> QED
      BY <1>12, <3>1, <3>3 DEF ToSet
  <2> QED
    BY <1>11, <1>12, <2>1 DEF ToSet
<1>14. \A i, j \in DOMAIN listed : i < j => MoreSpecific(Front(listed[i]), Front(listed[j]))
  <2>1. ASSUME NEW i \in 1 .. l, NEW j \in 1 .. l, i < j
        PROVE  MoreSpecific(at[i - 1], at[j - 1])
    <3>1. Rank(at[i - 1]) = Rank(p) - i + 1 /\ Rank(at[j - 1]) = Rank(p) - j + 1
      BY <1>11
    <3>2. Rank(at[i - 1]) > Rank(at[j - 1])
      BY <1>1, <2>1, <3>1
    <3> QED
      BY <1>2, <1>11, <3>2
  <2> QED
    BY <1>11, <1>12, <2>1
<1> QED
  BY <1>13, <1>14 DEF listed

LEMMA OrdinaryStrip ==
  ASSUME NEW p \in AnyPath, Ordinary(p)
  PROVE  p \in Seq(Segment) /\ (p = <<>> \/ Head(p) # PathPrefix) /\ StripPathAffixes(p) = p
<1>1. p \in Seq(Segment)
  <2>1. p \in Seq(Labels) /\ Labels \subseteq Segment
    BY AnyPathLemma DEF Segment
  <2> QED
    BY <2>1, SeqMonotonic DEF Segment
<1>2. /\ \A i \in 1 .. Len(p) : /\ p[i] \notin {PathPrefix, ExactTerminator, WildcardTerminator}
                                /\ (i # Len(p) => p[i] # DirSeparator)
      /\ Len(p) \in Nat
  BY <1>1, LenProperties DEF Ordinary, DirSeparator
<1>3. p # <<>> => Len(p) > 0 /\ Head(p) = p[1] /\ Last(p) = p[Len(p)]
  BY <1>1, EmptySeq DEF Last
<1>4. p = <<>> \/ Head(p) # PathPrefix
  BY <1>2, <1>3
<1>5. ~EndsWith(p, ExactTerminator) /\ ~EndsWith(p, WildcardTerminator)
  BY <1>2, <1>3 DEF EndsWith
<1>6. ~ (Len(p) > 1 /\ Head(p) = DirSeparator)
  BY <1>1, <1>2, <1>3, EmptySeq
<1>7. StripPathAffixes(p) = p
  BY <1>4, <1>5, <1>6 DEF StripPathAffixes
<1> QED
  BY <1>1, <1>4, <1>7

LEMMA PrefixedStrip ==
  ASSUME NEW q \in Seq(Segment), q = <<>> \/ Head(q) # PathPrefix
  PROVE  StripPathAffixes(<<PathPrefix>> \o q) = StripPathAffixes(q)
<1> DEFINE one == <<PathPrefix>>
           a   == one \o q
<1>1. one \in Seq(Segment) /\ Len(one) = 1 /\ one[1] = PathPrefix /\ PathPrefix \in Segment
  BY DEF Segment
<1> HIDE DEF one
<1>2. /\ a \in Seq(Segment) /\ Len(a) = 1 + Len(q) /\ Len(q) \in Nat
      /\ a[1] = PathPrefix
      /\ \A i \in 1 .. Len(q) : a[i + 1] = q[i]
  <2>1. /\ a \in Seq(Segment) /\ Len(a) = Len(one) + Len(q) /\ Len(q) \in Nat
        /\ \A i \in 1 .. Len(one) + Len(q) : a[i] = IF i <= Len(one) THEN one[i] ELSE q[i - Len(one)]
    BY <1>1, ConcatProperties, LenProperties
  <2> HIDE DEF a
  <2> QED
    BY <1>1, <2>1
<1> HIDE DEF a
<1>3. a # <<>> /\ Head(a) = PathPrefix
  BY <1>2, EmptySeq
<1>4. Tail(a) = q
  <2>1. /\ Tail(a) \in Seq(Segment) /\ Len(Tail(a)) = Len(q)
        /\ \A i \in 1 .. Len(Tail(a)) : Tail(a)[i] = q[i]
    BY <1>2, <1>3, HeadTailProperties
  <2> QED
    BY <2>1, SeqEqual
<1>5. StripPathAffixes(a) = StripPathAffixes(q)
  BY <1>3, <1>4 DEF StripPathAffixes
<1> QED
  BY <1>5 DEF a, one

\* The canister asks with the paths as they are in the tree, the verifier with the prefix
\* and without the terminator of the request: what the verifier looks for in a witness is
\* what the canister put into it.
THEOREM BothListTheSame ==
  ASSUME NEW p \in AnyPath, Ordinary(p), NEW r \in AnyPath, Ordinary(r)
  PROVE  MoreSpecificWildcardsFor(<<PathPrefix>> \o p, <<PathPrefix>> \o Append(r, WildcardTerminator))
           = MoreSpecificWildcardsFor(Append(p, ExactTerminator), Append(r, WildcardTerminator))
<1> DEFINE q == Append(r, WildcardTerminator)
<1>1. r \in Seq(Segment) /\ (r = <<>> \/ Head(r) # PathPrefix) /\ WildcardTerminator \in Segment
  BY OrdinaryStrip DEF Segment
<1>2. q \in Seq(Segment) /\ Head(q) # PathPrefix
  <2>1. q \in Seq(Segment) /\ Head(q) = IF r = <<>> THEN WildcardTerminator ELSE Head(r)
    BY <1>1, AppendProperties, HeadTailAppend
  <2> QED
    BY <1>1, <2>1 DEF PathPrefix, WildcardTerminator
<1> HIDE DEF q
<1>3. StripPathAffixes(<<PathPrefix>> \o q) = StripPathAffixes(q)
  BY <1>2, PrefixedStrip
<1>4. StripPathAffixes(<<PathPrefix>> \o p) = StripPathAffixes(Append(p, ExactTerminator))
  BY OrdinaryStrip, PrefixedStrip, StripLemma
<1> QED
  BY <1>3, <1>4 DEF MoreSpecificWildcardsFor, q

\* A response under a wildcard is outdone by something in a tree if and only if the tree
\* has the exact path of the request or one of the wildcards that are listed.
THEOREM OutdoneIsListed ==
  ASSUME NEW url, Segments(url) \in AnyPath, Ordinary(Segments(url)), NEW r \in Candidates(Segments(url)),
         NEW places \in SUBSET [segments : {w \in AnyPath : Ordinary(w)}, exact : BOOLEAN]
  PROVE  LET request   == Append(Segments(url), ExactTerminator)
             listed    == MoreSpecificWildcardsFor(request, Append(r, WildcardTerminator))
             TreePath(d) == Append(d.segments, IF d.exact THEN ExactTerminator ELSE WildcardTerminator)
         IN  Outdone(places, [segments |-> r, exact |-> FALSE], url)
               <=> \E d \in places : TreePath(d) \in {request} \cup ToSet(listed)
<1> DEFINE p       == Segments(url)
           request == Append(p, ExactTerminator)
           listed  == MoreSpecificWildcardsFor(request, Append(r, WildcardTerminator))
           better  == {v \in Candidates(p) : MoreSpecific(v, r)}
           End(d)  == IF d.exact THEN ExactTerminator ELSE WildcardTerminator
           TreePath(d) == Append(d.segments, End(d))
<1>1. ToSet(listed) = {Append(w, WildcardTerminator) : w \in better}
  BY FunctionListsMoreSpecific
<1>2. ASSUME NEW v \in AnyPath, NEW w \in AnyPath,
             NEW s \in {ExactTerminator, WildcardTerminator}, NEW t \in {ExactTerminator, WildcardTerminator}
      PROVE  Append(v, s) = Append(w, t) <=> v = w /\ s = t
  <2>1. v \in Seq(Segment) /\ w \in Seq(Segment) /\ s \in Segment /\ t \in Segment
    <3>1. v \in Seq(Labels) /\ w \in Seq(Labels) /\ Labels \subseteq Segment
      BY AnyPathLemma DEF Segment
    <3> QED
      BY <3>1, SeqMonotonic DEF Segment
  <2>2. /\ Front(Append(v, s)) = v /\ Last(Append(v, s)) = s
        /\ Front(Append(w, t)) = w /\ Last(Append(w, t)) = t
    BY <2>1, FrontAppend
  <2> QED
    BY <2>2
<1>3. \A d \in places : d.segments \in AnyPath /\ Ordinary(d.segments) /\ d.exact \in BOOLEAN
  OBVIOUS
<1>4. ExactTerminator # WildcardTerminator
  BY DEF ExactTerminator, WildcardTerminator
<1> HIDE DEF listed, p
<1>5. p \in AnyPath
  BY DEF p
<1>6. ASSUME NEW d \in places
      PROVE  TreePath(d) \in {request} \cup ToSet(listed)
               <=> \/ d.exact /\ d.segments = p
                   \/ ~d.exact /\ d.segments \in better
  <2>1. TreePath(d) = request <=> d.segments = p /\ End(d) = ExactTerminator
    BY <1>2, <1>3, <1>5
  <2>2. TreePath(d) \in ToSet(listed) <=> \E w \in better : d.segments = w /\ End(d) = WildcardTerminator
    <3>1. \A w \in better : TreePath(d) = Append(w, WildcardTerminator) <=> d.segments = w /\ End(d) = WildcardTerminator
      BY <1>2, <1>3 DEF Candidates
    <3> QED
      BY <1>1, <3>1
  <2>3. (End(d) = ExactTerminator <=> d.exact) /\ (End(d) = WildcardTerminator <=> ~d.exact)
    BY <1>3, <1>4
  <2> QED
    BY <2>1, <2>2, <2>3
<1>7. Outdone(places, [segments |-> r, exact |-> FALSE], url)
        <=> \E d \in places : \/ d.exact /\ d.segments = p
                              \/ ~d.exact /\ d.segments \in better
  <2>1. Outdone(places, [segments |-> r, exact |-> FALSE], url)
          <=> \E d \in places : \/ d.exact /\ d.segments = p
                                \/ ~d.exact /\ Covers(d.segments, p) /\ MoreSpecific(d.segments, r)
    BY DEF Outdone, p
  <2>2. \A d \in places : d.segments \in better <=> Covers(d.segments, p) /\ MoreSpecific(d.segments, r)
    BY <1>3 DEF Candidates
  <2> QED
    BY <2>1, <2>2
<1> QED
  BY <1>6, <1>7 DEF listed, p
=============================================================================
