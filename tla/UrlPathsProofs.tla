--------------------------- MODULE UrlPathsProofs ---------------------------
(***************************************************************************)
(* Lemmas about paths that the proofs about several components share: what *)
(* the operators of UrlPaths return, place by place, and how wildcards are *)
(* ordered; and that of what answers a request one is the best.            *)
(***************************************************************************)
EXTENDS UrlPaths, SequenceTheorems, WellFoundedInduction, TLAPS

LEMMA SmallestExists ==
  ASSUME NEW T \in SUBSET Nat, T # {}
  PROVE  \E t \in T : \A u \in T : t <= u
<1>1. PICK t \in T : \A u \in T : ~ (<<u, t>> \in OpToRel(<, Nat))
  BY NatLessThanWellFounded, WFMin, Zenon
<1>2. \A u \in T : ~ (u < t)
  BY <1>1 DEF OpToRel
<1> QED
  BY <1>2

\* A set of numbers that is not empty and bounded has a greatest element.
LEMMA GreatestExists ==
  ASSUME NEW n \in Nat, NEW T \in SUBSET (0 .. n), T # {}
  PROVE  \E t \in T : \A u \in T : u <= t
<1> DEFINE Down == {n - t : t \in T}
<1>1. Down \in SUBSET Nat /\ Down # {}
  <2>1. \A t \in T : t \in Nat /\ t <= n
    OBVIOUS
  <2>2. \A t \in T : n - t \in Nat
    BY <2>1
  <2> QED
    BY <2>2
<1>2. PICK d \in Down : \A e \in Down : d <= e
  <2> HIDE DEF Down
  <2> QED
    BY <1>1, SmallestExists
<1>3. PICK t \in T : d = n - t
  OBVIOUS
<1>4. \A u \in T : u <= t
  BY <1>2, <1>3
<1> QED
  BY <1>4

-----------------------------------------------------------------------------
(***************************************************************************)
(* Paths, place by place.                                                  *)
(***************************************************************************)
LEMMA FrontLemma ==
  ASSUME NEW S, NEW c \in Seq(S), c # <<>>
  PROVE  /\ Len(c) \in Nat \ {0}
         /\ Front(c) \in Seq(S)
         /\ Len(Front(c)) = Len(c) - 1
         /\ \A i \in 1 .. Len(c) - 1 : Front(c)[i] = c[i]
         /\ Last(c) = c[Len(c)] /\ Last(c) \in S
<1>1. Len(c) \in Nat \ {0} /\ c \in [1 .. Len(c) -> S]
  BY EmptySeq, LenProperties
<1>2. \A i \in 1 .. Len(c) - 1 : c[i] \in S
  BY <1>1
<1>3. /\ SubSeq(c, 1, Len(c) - 1) \in Seq(S)
      /\ Len(SubSeq(c, 1, Len(c) - 1)) = IF 1 <= Len(c) - 1 THEN Len(c) - 1 - 1 + 1 ELSE 0
      /\ \A i \in 1 .. Len(c) - 1 - 1 + 1 : SubSeq(c, 1, Len(c) - 1)[i] = c[1 + i - 1]
  BY <1>1, <1>2, SubSeqProperties
<1> QED
  BY <1>1, <1>3 DEF Front, Last

LEMMA FrontAppend ==
  ASSUME NEW S, NEW c \in Seq(S), NEW s \in S
  PROVE  Front(Append(c, s)) = c /\ Last(Append(c, s)) = s
<1> DEFINE a == Append(c, s)
<1>1. /\ a \in Seq(S) /\ a # <<>> /\ Len(a) = Len(c) + 1 /\ Len(c) \in Nat
      /\ \A i \in 1 .. Len(c) : a[i] = c[i]
      /\ a[Len(c) + 1] = s
  BY AppendProperties, LenProperties
<1> HIDE DEF a
<1>2. /\ Front(a) \in Seq(S) /\ Len(Front(a)) = Len(a) - 1
      /\ \A i \in 1 .. Len(a) - 1 : Front(a)[i] = a[i]
      /\ Last(a) = a[Len(a)]
  BY <1>1, FrontLemma
<1>3. Len(Front(a)) = Len(c) /\ \A i \in 1 .. Len(Front(a)) : Front(a)[i] = c[i]
  BY <1>1, <1>2
<1>4. Front(a) = c
  BY <1>2, <1>3, SeqEqual
<1> QED
  BY <1>1, <1>2, <1>4 DEF a

LEMMA PrefixLemma ==
  ASSUME NEW S, NEW c \in Seq(S), NEW d \in Seq(S)
  PROVE  IsPrefix(c, d) <=> Len(c) <= Len(d) /\ \A i \in 1 .. Len(c) : c[i] = d[i]
<1>1. /\ Len(c) \in Nat /\ Len(d) \in Nat /\ c \in [1 .. Len(c) -> S] /\ d \in [1 .. Len(d) -> S]
  BY LenProperties
<1>2. SUFFICES ASSUME Len(c) <= Len(d)
               PROVE  SubSeq(c, 1, Len(c)) = SubSeq(d, 1, Len(c))
                        <=> \A i \in 1 .. Len(c) : c[i] = d[i]
  BY DEF IsPrefix
<1>3. SubSeq(c, 1, Len(c)) = c
  BY SubSeqFull
<1>4. \A i \in 1 .. Len(c) : d[i] \in S
  BY <1>1, <1>2
<1>5. /\ SubSeq(d, 1, Len(c)) \in Seq(S)
      /\ Len(SubSeq(d, 1, Len(c))) = IF 1 <= Len(c) THEN Len(c) - 1 + 1 ELSE 0
      /\ \A i \in 1 .. Len(c) - 1 + 1 : SubSeq(d, 1, Len(c))[i] = d[1 + i - 1]
  BY <1>1, <1>4, SubSeqProperties
<1> DEFINE e == SubSeq(d, 1, Len(c))
<1>6. e \in Seq(S) /\ Len(e) = Len(c) /\ \A i \in 1 .. Len(c) : e[i] = d[i]
  BY <1>1, <1>5
<1> HIDE DEF e
<1>7. c = e <=> \A i \in 1 .. Len(c) : c[i] = e[i]
  BY <1>1, <1>6, SeqEqual
<1> QED
  BY <1>3, <1>6, <1>7 DEF e

\* What a turn does to the path.
LEMMA NextLemma ==
  ASSUME NEW S, NEW c \in Seq(S), DirSeparator \in S
  PROVE  LET n == NextPotential(c)
         IN  /\ n \in Seq(S)
             /\ EndsWith(c, DirSeparator) =>
                  Len(n) = Len(c) - 1 /\ \A i \in 1 .. Len(c) - 1 : n[i] = c[i]
             /\ c # <<>> /\ ~EndsWith(c, DirSeparator) =>
                  /\ Len(n) = Len(c) /\ n[Len(c)] = DirSeparator
                  /\ \A i \in 1 .. Len(c) - 1 : n[i] = c[i]
             /\ c = <<>> => Len(n) = 1 /\ n[1] = DirSeparator
<1> DEFINE n == NextPotential(c)
<1>1. CASE EndsWith(c, DirSeparator)
  <2>1. c # <<>> /\ n = Front(c)
    BY <1>1 DEF NextPotential, EndsWith
  <2> QED
    BY <1>1, <2>1, FrontLemma
<1>2. CASE c # <<>> /\ ~EndsWith(c, DirSeparator)
  <2> DEFINE f == Front(c)
  <2>1. n = Append(f, DirSeparator)
    BY <1>2 DEF NextPotential, PopSegment
  <2>2. /\ f \in Seq(S) /\ Len(f) = Len(c) - 1 /\ Len(c) \in Nat \ {0}
        /\ \A i \in 1 .. Len(c) - 1 : f[i] = c[i]
    BY <1>2, FrontLemma
  <2> HIDE DEF f
  <2>3. /\ Append(f, DirSeparator) \in Seq(S)
        /\ Len(Append(f, DirSeparator)) = Len(f) + 1
        /\ \A i \in 1 .. Len(f) : Append(f, DirSeparator)[i] = f[i]
        /\ Append(f, DirSeparator)[Len(f) + 1] = DirSeparator
    BY <2>2, AppendProperties
  <2> QED
    BY <1>2, <2>1, <2>2, <2>3
<1>3. CASE c = <<>>
  <2>1. n = Append(<<>>, DirSeparator) /\ <<>> \in Seq(S) /\ Len(<<>>) = 0
    BY <1>3, EmptySeq DEF NextPotential, PopSegment, EndsWith
  <2>2. /\ Append(<<>>, DirSeparator) \in Seq(S)
        /\ Len(Append(<<>>, DirSeparator)) = Len(<<>>) + 1
        /\ Append(<<>>, DirSeparator)[Len(<<>>) + 1] = DirSeparator
    BY <2>1, AppendProperties
  <2> QED
    BY <1>3, <2>1, <2>2 DEF EndsWith
<1> QED
  BY <1>1, <1>2, <1>3

-----------------------------------------------------------------------------
(***************************************************************************)
(* The wildcards that cover a request, from the most specific to that of   *)
(* the root.                                                               *)
(***************************************************************************)
\* Empty segments are at the end only.
Tidy(S) == {w \in Seq(S) : \A i \in 1 .. Len(w) : w[i] = DirSeparator => i = Len(w)}

Covering(S, url) == {w \in Tidy(S) : Covers(w, url)}

Rank(w) == 2 * Len(Names(w)) + (IF IsDirectory(w) THEN 1 ELSE 0)

LEMMA NamesLemma ==
  ASSUME NEW S, NEW w \in Tidy(S)
  PROVE  LET k == Len(Names(w))
         IN  /\ w \in Seq(S) /\ Names(w) \in Seq(S) /\ k \in Nat
             /\ \A i \in 1 .. k : Names(w)[i] = w[i] /\ w[i] # DirSeparator
             /\ Len(w) = k + (IF IsDirectory(w) THEN 1 ELSE 0)
             /\ IsDirectory(w) <=> Len(w) > 0 /\ w[Len(w)] = DirSeparator
<1>1. w \in Seq(S)
  BY DEF Tidy
<1>2. Len(w) \in Nat
  BY <1>1, LenProperties
<1>3. w # <<>> <=> Len(w) > 0
  BY <1>1, <1>2, EmptySeq
<1>4. \A i \in 1 .. Len(w) : i # Len(w) => w[i] # DirSeparator
  BY DEF Tidy
<1>5. IsDirectory(w) <=> Len(w) > 0 /\ w[Len(w)] = DirSeparator
  BY <1>3 DEF IsDirectory, EndsWith, Last
<1>6. CASE IsDirectory(w)
  <2>1. /\ Names(w) = Front(w) /\ Front(w) \in Seq(S) /\ Len(Front(w)) = Len(w) - 1
        /\ \A i \in 1 .. Len(w) - 1 : Front(w)[i] = w[i]
    BY <1>1, <1>3, <1>5, <1>6, FrontLemma DEF Names
  <2>2. \A i \in 1 .. Len(w) - 1 : w[i] # DirSeparator
    BY <1>2, <1>4
  <2>3. Len(w) > 0
    BY <1>5, <1>6
  <2> QED
    BY <1>1, <1>2, <1>5, <1>6, <2>1, <2>2, <2>3
<1>7. CASE ~IsDirectory(w)
  <2>1. Names(w) = w
    BY <1>7 DEF Names
  <2>2. ~ (Len(w) > 0 /\ w[Len(w)] = DirSeparator)
    BY <1>5, <1>7
  <2>3. \A i \in 1 .. Len(w) : w[i] # DirSeparator
    BY <1>2, <1>4, <2>2
  <2> QED
    BY <1>1, <1>2, <1>5, <1>7, <2>1, <2>3
<1> QED
  BY <1>6, <1>7

\* What it is to cover a request, place by place.
LEMMA CoversLemma ==
  ASSUME NEW S, NEW p \in Tidy(S), NEW w \in Tidy(S)
  PROVE  Covers(w, p) <=>
           /\ Len(Names(w)) <= Len(Names(p))
           /\ \A i \in 1 .. Len(Names(w)) : w[i] = p[i]
           /\ IsDirectory(w) => Len(Names(p)) > Len(Names(w)) \/ IsDirectory(p)
<1>1. /\ Names(w) \in Seq(S) /\ Len(Names(w)) \in Nat
      /\ \A i \in 1 .. Len(Names(w)) : Names(w)[i] = w[i]
  BY NamesLemma
<1>2. /\ Names(p) \in Seq(S) /\ Len(Names(p)) \in Nat
      /\ \A i \in 1 .. Len(Names(p)) : Names(p)[i] = p[i]
  BY NamesLemma
<1>3. IsPrefix(Names(w), Names(p)) <=>
        /\ Len(Names(w)) <= Len(Names(p))
        /\ \A i \in 1 .. Len(Names(w)) : Names(w)[i] = Names(p)[i]
  BY <1>1, <1>2, PrefixLemma
<1>4. IsPrefix(Names(w), Names(p)) <=>
        /\ Len(Names(w)) <= Len(Names(p))
        /\ \A i \in 1 .. Len(Names(w)) : w[i] = p[i]
  BY <1>1, <1>2, <1>3
<1> QED
  BY <1>4 DEF Covers

\* Ranks order the wildcards that cover a request, and no two have the same.
LEMMA RankLemma ==
  ASSUME NEW S, NEW p \in Tidy(S), NEW v \in Covering(S, p), NEW w \in Covering(S, p)
  PROVE  /\ Rank(v) \in Nat /\ Rank(w) \in Nat
         /\ MoreSpecific(v, w) <=> Rank(v) > Rank(w)
         /\ Rank(v) = Rank(w) => v = w
<1>1. v \in Tidy(S) /\ Covers(v, p) /\ w \in Tidy(S) /\ Covers(w, p)
  BY DEF Covering
<1>2. /\ Names(v) \in Seq(S) /\ Len(Names(v)) \in Nat /\ v \in Seq(S)
      /\ \A i \in 1 .. Len(Names(v)) : Names(v)[i] = v[i]
      /\ Len(v) = Len(Names(v)) + (IF IsDirectory(v) THEN 1 ELSE 0)
      /\ IsDirectory(v) <=> Len(v) > 0 /\ v[Len(v)] = DirSeparator
  BY <1>1, NamesLemma
<1>3. /\ Names(w) \in Seq(S) /\ Len(Names(w)) \in Nat /\ w \in Seq(S)
      /\ \A i \in 1 .. Len(Names(w)) : Names(w)[i] = w[i]
      /\ Len(w) = Len(Names(w)) + (IF IsDirectory(w) THEN 1 ELSE 0)
      /\ IsDirectory(w) <=> Len(w) > 0 /\ w[Len(w)] = DirSeparator
  BY <1>1, NamesLemma
<1>4. /\ \A i \in 1 .. Len(Names(v)) : v[i] = p[i]
      /\ \A i \in 1 .. Len(Names(w)) : w[i] = p[i]
  BY <1>1, CoversLemma
<1>5. Len(Names(v)) = Len(Names(w)) => Names(v) = Names(w)
  <2>1. Len(Names(v)) = Len(Names(w)) =>
          \A i \in 1 .. Len(Names(v)) : Names(v)[i] = Names(w)[i]
    BY <1>2, <1>3, <1>4
  <2> QED
    BY <1>2, <1>3, <2>1, SeqEqual
<1>6. /\ Rank(v) \in Nat /\ Rank(w) \in Nat
      /\ Rank(v) > Rank(w) <=>
           \/ Len(Names(v)) > Len(Names(w))
           \/ Len(Names(v)) = Len(Names(w)) /\ IsDirectory(v) /\ ~IsDirectory(w)
      /\ Rank(v) = Rank(w) => Len(Names(v)) = Len(Names(w)) /\ IsDirectory(v) = IsDirectory(w)
  <2>1. /\ IsDirectory(v) \in BOOLEAN /\ IsDirectory(w) \in BOOLEAN
    BY DEF IsDirectory, EndsWith
  <2> QED
    BY <1>2, <1>3, <2>1 DEF Rank
<1>7. MoreSpecific(v, w) <=> Rank(v) > Rank(w)
  BY <1>5, <1>6 DEF MoreSpecific
<1>8. ASSUME Rank(v) = Rank(w)
      PROVE  v = w
  <2>1. Len(v) = Len(w) /\ Len(v) \in Nat
    BY <1>2, <1>3, <1>6, <1>8
  <2>2. \A i \in 1 .. Len(v) : v[i] = w[i]
    BY <1>2, <1>3, <1>4, <1>6, <1>8, <2>1
  <2> QED
    BY <1>2, <1>3, <2>1, <2>2, SeqEqual
<1> QED
  BY <1>6, <1>7, <1>8

\* A turn of the loop of more_specific_wildcards_for goes from one to the next.
LEMMA NextRank ==
  ASSUME NEW S, DirSeparator \in S, NEW p \in Tidy(S), NEW c \in Covering(S, p), Rank(c) > 0
  PROVE  /\ NextPotential(c) \in Covering(S, p)
         /\ Rank(NextPotential(c)) = Rank(c) - 1
         /\ Len(NextPotential(c)) <= Len(c)
         /\ \A i \in 1 .. Len(NextPotential(c)) : NextPotential(c)[i] \in {c[i], DirSeparator}
<1> DEFINE n == NextPotential(c)
           k == Len(Names(c))
<1>1. c \in Tidy(S) /\ Covers(c, p)
  BY DEF Covering
<1>2. /\ k \in Nat /\ c \in Seq(S)
      /\ \A i \in 1 .. k : c[i] # DirSeparator
      /\ Len(c) = k + (IF IsDirectory(c) THEN 1 ELSE 0)
      /\ IsDirectory(c) <=> Len(c) > 0 /\ c[Len(c)] = DirSeparator
  BY <1>1, NamesLemma
<1>3. /\ k <= Len(Names(p)) /\ Len(Names(p)) \in Nat
      /\ \A i \in 1 .. k : c[i] = p[i]
  BY <1>1, CoversLemma, NamesLemma
<1>4. /\ n \in Seq(S)
      /\ IsDirectory(c) => Len(n) = Len(c) - 1 /\ \A i \in 1 .. Len(c) - 1 : n[i] = c[i]
      /\ c # <<>> /\ ~IsDirectory(c) =>
           /\ Len(n) = Len(c) /\ n[Len(c)] = DirSeparator
           /\ \A i \in 1 .. Len(c) - 1 : n[i] = c[i]
  BY <1>2, NextLemma DEF IsDirectory
<1>5. c # <<>> <=> Len(c) > 0
  BY <1>2, EmptySeq
<1> HIDE DEF n, k
<1>6. CASE IsDirectory(c)
  <2>1. Len(n) = k /\ Len(c) = k + 1 /\ \A i \in 1 .. k : n[i] = c[i]
    BY <1>2, <1>4, <1>6
  <2>2. \A i \in 1 .. k : n[i] # DirSeparator
    BY <1>2, <2>1
  <2>3. n \in Tidy(S)
    BY <1>4, <2>1, <2>2 DEF Tidy
  <2>4. ~IsDirectory(n)
    BY <1>2, <2>1, <2>2, <2>3, NamesLemma
  <2>5. Len(Names(n)) = k
    BY <1>2, <2>1, <2>3, <2>4, NamesLemma
  <2>6. Covers(n, p)
    BY <1>1, <1>3, <2>1, <2>3, <2>4, <2>5, CoversLemma
  <2>7. Rank(n) = 2 * k /\ Rank(c) = 2 * k + 1
    BY <1>6, <2>4, <2>5 DEF Rank, k
  <2> QED
    BY <1>2, <2>1, <2>3, <2>6, <2>7 DEF Covering, n
<1>7. CASE ~IsDirectory(c)
  <2>1. k > 0
    BY <1>2, <1>7 DEF Rank, k
  <2>2. Len(c) = k /\ Len(n) = k /\ n[k] = DirSeparator /\ \A i \in 1 .. k - 1 : n[i] = c[i]
    BY <1>2, <1>4, <1>5, <1>7, <2>1
  <2>3. \A i \in 1 .. k : n[i] = DirSeparator => i = k
    BY <1>2, <2>1, <2>2
  <2>4. n \in Tidy(S)
    BY <1>4, <2>2, <2>3 DEF Tidy
  <2>5. IsDirectory(n)
    BY <1>2, <2>1, <2>2, <2>4, NamesLemma
  <2>6. Len(Names(n)) = k - 1
    BY <1>2, <2>2, <2>4, <2>5, NamesLemma
  <2>7. Covers(n, p)
    BY <1>1, <1>2, <1>3, <2>1, <2>2, <2>4, <2>5, <2>6, CoversLemma
  <2>8. Rank(n) = 2 * (k - 1) + 1 /\ Rank(c) = 2 * k
    BY <1>7, <2>5, <2>6 DEF Rank, k
  <2>9. \A i \in 1 .. k : n[i] \in {c[i], DirSeparator}
    BY <1>2, <2>1, <2>2
  <2> QED
    BY <1>2, <2>2, <2>4, <2>7, <2>8, <2>9 DEF Covering, n
<1> QED
  BY <1>6, <1>7

-----------------------------------------------------------------------------
(***************************************************************************)
(* The potential paths of more_specific_wildcards_for.                     *)
(***************************************************************************)
\* The function that numbers the potential paths exists.
LEMMA PotentialsExist ==
  ASSUME NEW path, NEW top \in Nat
  PROVE  \E f : f = [n \in 0 .. top |-> IF n = 0 THEN path ELSE NextPotential(f[n - 1])]
<1> DEFINE Follows(f, m) == f = [n \in 0 .. m |-> IF n = 0 THEN path ELSE NextPotential(f[n - 1])]
           Missing == {m \in Nat : ~ \E f : Follows(f, m)}
<1>1. SUFFICES ASSUME Missing # {}
               PROVE  FALSE
  OBVIOUS
<1>2. PICK m \in Missing : \A k \in Missing : m <= k
  <2>1. Missing \in SUBSET Nat
    OBVIOUS
  <2> HIDE DEF Missing
  <2> QED
    BY <1>1, <2>1, SmallestExists
<1>3. m \in Nat /\ ~ \E f : Follows(f, m)
  OBVIOUS
<1>4. m # 0
  <2>1. Follows([n \in 0 .. 0 |-> path], 0)
    OBVIOUS
  <2> QED
    BY <1>3, <2>1
<1>5. m - 1 \in Nat /\ m - 1 \notin Missing
  BY <1>2, <1>3, <1>4
<1>6. PICK g : Follows(g, m - 1)
  BY <1>5
<1> DEFINE h == [n \in 0 .. m |-> IF n = m THEN NextPotential(g[m - 1]) ELSE g[n]]
<1>7. \A n \in 0 .. m : h[n] = IF n = 0 THEN path ELSE NextPotential(h[n - 1])
  <2>1. \A n \in 0 .. m - 1 : g[n] = IF n = 0 THEN path ELSE NextPotential(g[n - 1])
    BY <1>6
  <2> TAKE n \in 0 .. m
  <2>2. CASE n = m
    <3>1. h[n] = NextPotential(g[m - 1]) /\ h[n - 1] = g[m - 1] /\ n # 0
      BY <1>3, <1>4, <2>2
    <3> QED
      BY <2>2, <3>1
  <2>3. CASE n # m
    <3>1. n \in 0 .. m - 1 /\ h[n] = g[n] /\ (n # 0 => h[n - 1] = g[n - 1])
      BY <1>3, <2>3
    <3> QED
      BY <2>1, <3>1
  <2> QED
    BY <2>2, <2>3
<1>8. Follows(h, m)
  <2>1. h = [n \in 0 .. m |-> h[n]]
    OBVIOUS
  <2> HIDE DEF h
  <2> QED
    BY <1>7, <2>1
<1> QED
  BY <1>3, <1>8

LEMMA PotentialsLemma ==
  ASSUME NEW S, NEW path \in Seq(S)
  PROVE  LET at  == Potentials(path)
             top == 2 * Len(path) + 1
         IN  /\ DOMAIN at = 0 .. top /\ top \in Nat
             /\ at[0] = path
             /\ \A n \in 1 .. top : at[n] = NextPotential(at[n - 1])
<1> DEFINE at  == Potentials(path)
           top == 2 * Len(path) + 1
<1>1. top \in Nat
  BY LenProperties
<1>2. at = [n \in 0 .. top |-> IF n = 0 THEN path ELSE NextPotential(at[n - 1])]
  <2>1. at = CHOOSE f : f = [n \in 0 .. top |-> IF n = 0 THEN path ELSE NextPotential(f[n - 1])]
    BY DEF Potentials
  <2> HIDE DEF at, top
  <2>2. \E f : f = [n \in 0 .. top |-> IF n = 0 THEN path ELSE NextPotential(f[n - 1])]
    BY <1>1, PotentialsExist
  <2> QED
    BY <2>1, <2>2
<1> HIDE DEF at, top
<1>3. DOMAIN at = 0 .. top /\ \A n \in 0 .. top : at[n] = IF n = 0 THEN path ELSE NextPotential(at[n - 1])
  BY <1>2
<1>4. at[0] = path /\ \A n \in 1 .. top : at[n] = NextPotential(at[n - 1])
  BY <1>1, <1>3
<1> QED
  BY <1>1, <1>3, <1>4 DEF at, top

-----------------------------------------------------------------------------
(***************************************************************************)
(* The segments of a URL path.                                             *)
(***************************************************************************)
\* The function that leaves the empty segments out exists.
LEMMA NotEmptyExists ==
  ASSUME NEW url, NEW top \in Nat
  PROVE  \E f : f = [n \in 0 .. top |->
                      IF n = 0 THEN <<>>
                      ELSE IF url[n] = DirSeparator THEN f[n - 1] ELSE Append(f[n - 1], url[n])]
<1> DEFINE After(n, v) == IF url[n] = DirSeparator THEN v ELSE Append(v, url[n])
           Follows(f, m) == f = [n \in 0 .. m |-> IF n = 0 THEN <<>> ELSE After(n, f[n - 1])]
           Missing == {m \in Nat : ~ \E f : Follows(f, m)}
<1>1. SUFFICES ASSUME Missing # {}
               PROVE  FALSE
  OBVIOUS
<1>2. PICK m \in Missing : \A k \in Missing : m <= k
  <2>1. Missing \in SUBSET Nat
    OBVIOUS
  <2> HIDE DEF Missing
  <2> QED
    BY <1>1, <2>1, SmallestExists
<1> HIDE DEF After
<1>3. m \in Nat /\ ~ \E f : Follows(f, m)
  OBVIOUS
<1>4. m # 0
  <2>1. Follows([n \in 0 .. 0 |-> <<>>], 0)
    OBVIOUS
  <2> QED
    BY <1>3, <2>1
<1>5. m - 1 \in Nat /\ m - 1 \notin Missing
  BY <1>2, <1>3, <1>4
<1>6. PICK g : Follows(g, m - 1)
  BY <1>5
<1> DEFINE h == [n \in 0 .. m |-> IF n = m THEN After(m, g[m - 1]) ELSE g[n]]
<1>7. \A n \in 0 .. m : h[n] = IF n = 0 THEN <<>> ELSE After(n, h[n - 1])
  <2>1. \A n \in 0 .. m - 1 : g[n] = IF n = 0 THEN <<>> ELSE After(n, g[n - 1])
    BY <1>6
  <2> TAKE n \in 0 .. m
  <2>2. CASE n = m
    <3>1. h[n] = After(n, g[m - 1]) /\ h[n - 1] = g[m - 1] /\ n # 0
      BY <1>3, <1>4, <2>2
    <3> QED
      BY <2>2, <3>1
  <2>3. CASE n # m
    <3>1. n \in 0 .. m - 1 /\ h[n] = g[n] /\ (n # 0 => h[n - 1] = g[n - 1])
      BY <1>3, <2>3
    <3> QED
      BY <2>1, <3>1
  <2> QED
    BY <2>2, <2>3
<1>8. Follows(h, m)
  <2>1. h = [n \in 0 .. m |-> h[n]]
    OBVIOUS
  <2> HIDE DEF h
  <2> QED
    BY <1>7, <2>1
<1> QED
  BY <1>3, <1>8

\* It goes segment by segment.
LEMMA NotEmptySteps ==
  ASSUME NEW url, Len(url) \in Nat
  PROVE  \A n \in 0 .. Len(url) :
           NotEmpty(url)[n] = IF n = 0 THEN <<>>
                              ELSE IF url[n] = DirSeparator THEN NotEmpty(url)[n - 1]
                              ELSE Append(NotEmpty(url)[n - 1], url[n])
<1> DEFINE f   == NotEmpty(url)
           top == Len(url)
<1>1. f = CHOOSE g : g = [n \in 0 .. top |->
                            IF n = 0 THEN <<>>
                            ELSE IF url[n] = DirSeparator THEN g[n - 1] ELSE Append(g[n - 1], url[n])]
  BY DEF NotEmpty
<1> HIDE DEF f, top
<1>2. \E g : g = [n \in 0 .. top |->
                    IF n = 0 THEN <<>>
                    ELSE IF url[n] = DirSeparator THEN g[n - 1] ELSE Append(g[n - 1], url[n])]
  BY NotEmptyExists DEF top
<1>3. f = [n \in 0 .. top |->
             IF n = 0 THEN <<>>
             ELSE IF url[n] = DirSeparator THEN f[n - 1] ELSE Append(f[n - 1], url[n])]
  BY <1>1, <1>2
<1> QED
  BY <1>3 DEF f, top

LEMMA NotEmptyNames ==
  ASSUME NEW S, NEW url \in Seq(S)
  PROVE  \A n \in 0 .. Len(url) : NotEmpty(url)[n] \in Seq(S \ {DirSeparator})
<1> DEFINE f   == NotEmpty(url)
           top == Len(url)
           Wrong == {n \in 0 .. top : f[n] \notin Seq(S \ {DirSeparator})}
<1>1. top \in Nat /\ \A n \in 1 .. top : url[n] \in S
  BY LenProperties
<1>2. \A n \in 0 .. top : f[n] = IF n = 0 THEN <<>>
                                ELSE IF url[n] = DirSeparator THEN f[n - 1] ELSE Append(f[n - 1], url[n])
  BY <1>1, NotEmptySteps
<1> HIDE DEF f
<1>3. SUFFICES ASSUME Wrong # {}
               PROVE  FALSE
  BY <1>1 DEF f
<1>4. PICK n \in Wrong : \A k \in Wrong : n <= k
  <2>1. Wrong \in SUBSET Nat
    BY <1>1
  <2> HIDE DEF Wrong
  <2> QED
    BY <1>3, <2>1, SmallestExists
<1>5. n \in 0 .. top /\ f[n] \notin Seq(S \ {DirSeparator})
  OBVIOUS
<1>6. n # 0
  BY <1>2, <1>5, EmptySeq
<1>7. f[n - 1] \in Seq(S \ {DirSeparator})
  BY <1>1, <1>4, <1>5, <1>6
<1>8. n \in 1 .. top
  BY <1>1, <1>5, <1>6
<1>9. f[n] = IF url[n] = DirSeparator THEN f[n - 1] ELSE Append(f[n - 1], url[n])
  BY <1>2, <1>5, <1>6
<1>10. url[n] # DirSeparator => url[n] \in S \ {DirSeparator}
  BY <1>1, <1>8
<1> QED
  BY <1>5, <1>7, <1>9, <1>10, AppendProperties

LEMMA NotEmptyLemma ==
  ASSUME NEW S, NEW url \in Seq(S)
  PROVE  NotEmpty(url)[Len(url)] \in Seq(S \ {DirSeparator})
BY NotEmptyNames, LenProperties

\* The segments of any URL path have an empty one at the end at most.
LEMMA SegmentsLemma ==
  ASSUME NEW S, DirSeparator \in S, NEW url \in Seq(S)
  PROVE  Segments(url) \in Tidy(S)
<1> DEFINE kept == NotEmpty(url)[Len(url)]
           rest == IF EndsWithSlash(url) THEN <<DirSeparator>> ELSE <<>>
           all  == kept \o rest
<1>1. kept \in Seq(S \ {DirSeparator}) /\ S \ {DirSeparator} \subseteq S
  BY NotEmptyLemma
<1> HIDE DEF kept
<1>2. kept \in Seq(S) /\ Len(kept) \in Nat /\ \A i \in 1 .. Len(kept) : kept[i] # DirSeparator
  BY <1>1, SeqMonotonic, LenProperties
<1>3. rest \in Seq(S) /\ Len(rest) \in {0, 1}
  BY EmptySeq
<1> HIDE DEF rest
<1>4. /\ all \in Seq(S) /\ Len(all) = Len(kept) + Len(rest)
      /\ \A i \in 1 .. Len(kept) + Len(rest) : all[i] = IF i <= Len(kept) THEN kept[i] ELSE rest[i - Len(kept)]
  BY <1>2, <1>3, ConcatProperties
<1> HIDE DEF all
<1>5. ASSUME NEW i \in 1 .. Len(all), all[i] = DirSeparator
      PROVE  i = Len(all)
  <2> DEFINE k == Len(kept)
             r == Len(rest)
             l == Len(all)
  <2>1. ~ (i <= k)
    BY <1>2, <1>3, <1>4, <1>5
  <2>2. k \in Nat /\ r \in {0, 1} /\ l = k + r /\ i \in 1 .. l
    BY <1>2, <1>3, <1>4
  <2> HIDE DEF k, r, l
  <2>3. i = l
    BY <2>1, <2>2
  <2> QED
    BY <2>3 DEF l
<1>6. Segments(url) = all
  BY DEF Segments, all, kept, rest
<1> QED
  BY <1>4, <1>5, <1>6 DEF Tidy

\* A URL path that is spelt as the tree spells it, such as "/a/b/".
LEMMA SpeltLemma ==
  ASSUME NEW S, DirSeparator \in S, NEW url \in Seq(S), Spelt(url)
  PROVE  LET t == Segments(url)
         IN  /\ t \in Tidy(S) /\ t \in Seq(S) /\ Len(t) \in Nat
             /\ Len(url) = Len(t) + 1 /\ url[1] = DirSeparator
             /\ \A i \in 1 .. Len(t) : url[i + 1] = t[i]
<1> DEFINE t == Segments(url)
<1>1. t \in Tidy(S) /\ t \in Seq(S) /\ Len(t) \in Nat
  BY SegmentsLemma, LenProperties DEF Tidy
<1>2. url = <<DirSeparator>> \o t
  BY DEF Spelt
<1> HIDE DEF t
<1>3. <<DirSeparator>> \in Seq(S) /\ Len(<<DirSeparator>>) = 1 /\ <<DirSeparator>>[1] = DirSeparator
  OBVIOUS
<1>4. /\ Len(<<DirSeparator>> \o t) = 1 + Len(t)
      /\ \A i \in 1 .. 1 + Len(t) : (<<DirSeparator>> \o t)[i] = IF i <= 1 THEN <<DirSeparator>>[i] ELSE t[i - 1]
  BY <1>1, <1>3, ConcatProperties
<1>5. \A i \in 1 .. Len(t) : i + 1 \in 1 .. 1 + Len(t) /\ ~ (i + 1 <= 1) /\ i + 1 - 1 = i
  BY <1>1
<1>6. \A i \in 1 .. Len(t) : url[i + 1] = t[i]
  BY <1>2, <1>4, <1>5
<1>7. url[1] = DirSeparator
  BY <1>1, <1>2, <1>3, <1>4
<1> QED
  BY <1>1, <1>2, <1>4, <1>6, <1>7 DEF t

\* A path of names that are not empty is, after a slash, spelt as in the tree.
LEMMA NamesAreSpelt ==
  ASSUME NEW S, NEW p \in Seq(S \ {DirSeparator})
  PROVE  Segments(<<DirSeparator>> \o p) = p
<1> DEFINE url == <<DirSeparator>> \o p
           k   == Len(p)
           f   == NotEmpty(url)
<1>1. p \in Seq(S \cup {DirSeparator}) /\ k \in Nat /\ \A i \in 1 .. k : p[i] # DirSeparator
  BY SeqMonotonic, LenProperties
<1>2. url \in Seq(S \cup {DirSeparator})
  BY <1>1, ConcatProperties
<1>3. Len(url) = k + 1 /\ url[1] = DirSeparator /\ \A i \in 1 .. k : url[i + 1] = p[i]
  <2>1. <<DirSeparator>> \in Seq(S \cup {DirSeparator}) /\ Len(<<DirSeparator>>) = 1 /\ <<DirSeparator>>[1] = DirSeparator
    OBVIOUS
  <2>2. /\ Len(url) = 1 + k
        /\ \A i \in 1 .. 1 + k : url[i] = IF i <= 1 THEN <<DirSeparator>>[i] ELSE p[i - 1]
    BY <1>1, <2>1, ConcatProperties
  <2>3. \A i \in 1 .. k : i + 1 \in 1 .. 1 + k /\ ~ (i + 1 <= 1) /\ i + 1 - 1 = i
    BY <1>1
  <2>4. \A i \in 1 .. k : url[i + 1] = p[i]
    BY <2>2, <2>3
  <2> HIDE DEF url, k
  <2> QED
    BY <1>1, <2>1, <2>2, <2>4
<1> HIDE DEF url
<1>4. \A n \in 0 .. k + 1 : f[n] = IF n = 0 THEN <<>>
                                  ELSE IF url[n] = DirSeparator THEN f[n - 1] ELSE Append(f[n - 1], url[n])
  BY <1>1, <1>3, NotEmptySteps
<1> HIDE DEF f, k
<1> DEFINE Follows(n) == /\ f[n] \in Seq(S \cup {DirSeparator}) /\ Len(f[n]) = n - 1
                         /\ \A i \in 1 .. n - 1 : f[n][i] = p[i]
           Wrong == {n \in 1 .. k + 1 : ~Follows(n)}
<1>5. Wrong = {}
  <2> SUFFICES ASSUME Wrong # {}
               PROVE  FALSE
    OBVIOUS
  <2>1. PICK n \in Wrong : \A m \in Wrong : n <= m
    <3>1. Wrong \in SUBSET Nat
      BY <1>1
    <3> HIDE DEF Wrong
    <3> QED
      BY <3>1, SmallestExists
  <2>2. n \in 1 .. k + 1 /\ ~Follows(n)
    OBVIOUS
  <2>3. CASE n = 1
    <3>1. f[0] = <<>> /\ f[1] = <<>>
      BY <1>1, <1>3, <1>4
    <3> HIDE DEF Wrong
    <3>2. Len(f[1]) = 0 /\ f[1] \in Seq(S \cup {DirSeparator})
      BY <3>1, EmptySeq
    <3>3. Follows(1)
      BY <3>2
    <3> QED
      BY <2>2, <2>3, <3>3
  <2>4. CASE n # 1
    <3>1. n - 1 \in 1 .. k /\ n \in 0 .. k + 1 /\ n # 0 /\ n \in Nat
      BY <1>1, <2>2, <2>4
    <3>2. n - 1 \in 1 .. k + 1 /\ ~ (n <= n - 1)
      BY <1>1, <3>1
    <3>3. Follows(n - 1)
      BY <2>1, <3>2
    <3>4. url[n] = p[n - 1] /\ p[n - 1] # DirSeparator /\ p[n - 1] \in S \cup {DirSeparator}
      <4>1. url[n - 1 + 1] = p[n - 1] /\ n - 1 + 1 = n
        BY <1>3, <3>1
      <4>2. p[n - 1] \in S \cup {DirSeparator}
        BY <1>1, <3>1, LenProperties DEF k
      <4> QED
        BY <1>1, <3>1, <4>1, <4>2
    <3>5. f[n] = Append(f[n - 1], p[n - 1])
      BY <1>4, <3>1, <3>4
    <3> HIDE DEF Wrong
    <3>6. /\ f[n] \in Seq(S \cup {DirSeparator}) /\ Len(f[n]) = Len(f[n - 1]) + 1
          /\ \A i \in 1 .. Len(f[n - 1]) : f[n][i] = f[n - 1][i]
          /\ f[n][Len(f[n - 1]) + 1] = p[n - 1]
      BY <3>3, <3>4, <3>5, AppendProperties
    <3>7. Len(f[n - 1]) = n - 2 /\ \A i \in 1 .. n - 2 : f[n - 1][i] = p[i]
      BY <3>1, <3>3
    <3>8. \A i \in 1 .. n - 1 : f[n][i] = p[i]
      BY <3>1, <3>6, <3>7
    <3>9. Follows(n)
      BY <3>1, <3>6, <3>7, <3>8
    <3> QED
      BY <2>2, <3>9
  <2> HIDE DEF Wrong
  <2> QED
    BY <2>3, <2>4
<1>6. f[k + 1] \in Seq(S \cup {DirSeparator}) /\ Len(f[k + 1]) = k /\ \A i \in 1 .. k : f[k + 1][i] = p[i]
  <2>1. k + 1 \in 1 .. k + 1 /\ k + 1 - 1 = k
    BY <1>1
  <2>2. Follows(k + 1)
    BY <1>5, <2>1
  <2> QED
    BY <1>1, <2>1, <2>2
<1>7. f[k + 1] = p
  BY <1>1, <1>6, SeqEqual DEF k
<1>8. ~EndsWithSlash(url)
  <2> SUFFICES ASSUME k + 1 > 1, url[k + 1] = DirSeparator
               PROVE  FALSE
    BY <1>3 DEF EndsWithSlash, Last
  <2>1. k \in 1 .. k
    BY <1>1
  <2> QED
    BY <1>1, <1>3, <2>1
<1>9. Segments(url) = p \o <<>>
  BY <1>3, <1>7, <1>8 DEF Segments, f
<1>10. p \o <<>> = p
  BY <1>1, ConcatEmptySeq
<1> QED
  BY <1>9, <1>10 DEF url

\* The root is a directory, and the empty path is the only one without segments.
LEMMA RootLemma ==
  ASSUME NEW S, DirSeparator \in S
  PROVE  /\ Segments(<<DirSeparator, DirSeparator>>) = <<DirSeparator>>
         /\ \A url \in Seq(S) :
              url # <<>> /\ url[1] = DirSeparator /\ Segments(url) = <<>> => url = <<DirSeparator>>
<1>1. Segments(<<DirSeparator, DirSeparator>>) = <<DirSeparator>>
  <2> DEFINE url == <<DirSeparator, DirSeparator>>
             f   == NotEmpty(url)
  <2>1. Len(url) = 2 /\ url[1] = DirSeparator /\ url[2] = DirSeparator
    OBVIOUS
  <2>2. EndsWithSlash(url)
    BY <2>1 DEF EndsWithSlash, Last
  <2> HIDE DEF url
  <2>3. \A n \in 0 .. 2 : f[n] = IF n = 0 THEN <<>>
                                ELSE IF url[n] = DirSeparator THEN f[n - 1] ELSE Append(f[n - 1], url[n])
    <3>1. Len(url) \in Nat
      BY <2>1
    <3> QED
      BY <2>1, <3>1, NotEmptySteps
  <2> HIDE DEF f
  <2>4. f[0] = <<>> /\ f[1] = f[0] /\ f[2] = f[1]
    BY <2>1, <2>3
  <2>5. Segments(url) = <<>> \o <<DirSeparator>>
    BY <2>1, <2>2, <2>4 DEF Segments, f
  <2>6. <<>> \o <<DirSeparator>> = <<DirSeparator>>
    OBVIOUS
  <2> QED
    BY <2>5, <2>6 DEF url
<1>2. ASSUME NEW url \in Seq(S), url # <<>>, url[1] = DirSeparator, Segments(url) = <<>>
      PROVE  url = <<DirSeparator>>
  <2> DEFINE n == Len(url)
             f == NotEmpty(url)
             kept == f[n]
             rest == IF EndsWithSlash(url) THEN <<DirSeparator>> ELSE <<>>
  <2>1. n \in Nat /\ n > 0 /\ \A i \in 1 .. n : url[i] \in S
    BY <1>2, LenProperties, EmptySeq
  <2>2. kept \in Seq(S)
    <3>1. kept \in Seq(S \ {DirSeparator})
      BY NotEmptyLemma
    <3> HIDE DEF kept
    <3> QED
      BY <3>1, SeqMonotonic
  <2>3. kept \o rest = <<>>
    BY <1>2 DEF Segments
  <2>4. \A i \in 0 .. n : f[i] = IF i = 0 THEN <<>>
                                ELSE IF url[i] = DirSeparator THEN f[i - 1] ELSE Append(f[i - 1], url[i])
    BY <2>1, NotEmptySteps
  <2>5. rest \in Seq(S)
    <3>1. <<DirSeparator>> \in Seq(S)
      OBVIOUS
    <3> QED
      BY <3>1, EmptySeq
  <2> HIDE DEF kept, rest, n, f
  <2>6. Len(kept) = 0 /\ Len(rest) = 0
    BY <2>2, <2>3, <2>5, ConcatProperties, LenProperties, EmptySeq
  <2>7. ~EndsWithSlash(url)
    BY <2>6 DEF rest
  <2>8. n = 1
    <3> SUFFICES ASSUME n > 1
                 PROVE  FALSE
      BY <2>1
    <3>1. url[n] # DirSeparator
      BY <2>7 DEF EndsWithSlash, Last, n
    <3>2. kept = Append(f[n - 1], url[n])
      <4>1. n \in 0 .. n /\ n # 0
        BY <2>1
      <4>2. f[n] = IF n = 0 THEN <<>> ELSE IF url[n] = DirSeparator THEN f[n - 1] ELSE Append(f[n - 1], url[n])
        BY <2>4, <4>1
      <4> QED
        BY <3>1, <4>1, <4>2 DEF kept
    <3>3. url[n] \in S /\ f[n - 1] \in Seq(S \ {DirSeparator})
      <4>1. n \in 1 .. n /\ n - 1 \in 0 .. n
        BY <2>1
      <4> QED
        BY <2>1, <4>1, NotEmptyNames DEF f, n
    <3>4. f[n - 1] \in Seq(S)
      BY <3>3, SeqMonotonic
    <3>5. Len(Append(f[n - 1], url[n])) = Len(f[n - 1]) + 1 /\ Len(f[n - 1]) \in Nat
      BY <3>3, <3>4, AppendProperties, LenProperties
    <3> QED
      BY <2>6, <3>2, <3>5
  <2> QED
    BY <1>2, <2>1, <2>8 DEF n
<1> QED
  BY <1>1, <1>2

-----------------------------------------------------------------------------
(***************************************************************************)
(* The best answer.                                                        *)
(***************************************************************************)
TidyPlaces(S) == [segments : Tidy(S), exact : BOOLEAN]

\* Whatever is certified, of the places that answer a request exactly one is not outdone:
\* the canister always has an answer that the verifier takes, and never a choice.
THEOREM OneBestAnswer ==
  ASSUME NEW S, DirSeparator \in S, NEW url \in Seq(S),
         NEW places \in SUBSET TidyPlaces(S), NEW p \in places, Answers(p, url)
  PROVE  \E b \in places :
           /\ Answers(b, url) /\ ~Outdone(places, b, url)
           /\ \A c \in places : Answers(c, url) /\ ~Outdone(places, c, url) => c = b
<1> DEFINE request == Segments(url)
           wildcards == {d \in places : ~d.exact /\ Covers(d.segments, request)}
           Best(b) == Answers(b, url) /\ ~Outdone(places, b, url)
<1>1. request \in Tidy(S)
  BY SegmentsLemma
<1>2. \A d \in places : /\ d.segments \in Tidy(S) /\ d.exact \in BOOLEAN
                        /\ d = [segments |-> d.segments, exact |-> d.exact]
  BY DEF TidyPlaces
<1>3. \A d \in wildcards : d.segments \in Covering(S, request)
  BY <1>2 DEF Covering
<1>4. \E b \in places : Best(b)
  <2>1. CASE \E b \in places : b.exact /\ b.segments = request
    BY <2>1 DEF Answers, Outdone
  <2>2. CASE ~ \E b \in places : b.exact /\ b.segments = request
    <3> DEFINE n == 2 * Len(Names(request)) + 1
               T == {Rank(d.segments) : d \in wildcards}
    <3>1. Len(Names(request)) \in Nat
      BY <1>1, NamesLemma
    <3>2. T \in SUBSET (0 .. n)
      <4>1. ASSUME NEW d \in wildcards
            PROVE  Rank(d.segments) \in 0 .. n
        <5>1. /\ Len(Names(d.segments)) \in Nat
              /\ Len(Names(d.segments)) <= Len(Names(request))
          BY <1>1, <1>2, NamesLemma, CoversLemma
        <5> QED
          BY <3>1, <5>1 DEF Rank
      <4> QED
        BY <4>1
    <3>3. T # {}
      BY <1>2, <2>2 DEF Answers
    <3>4. n \in Nat
      BY <3>1
    <3>5. PICK t \in T : \A u \in T : u <= t
      <4> HIDE DEF T, n
      <4> QED
        BY <3>2, <3>3, <3>4, GreatestExists
    <3>6. PICK b \in wildcards : t = Rank(b.segments)
      OBVIOUS
    <3>7. \A d \in wildcards : ~MoreSpecific(d.segments, b.segments)
      <4>1. ASSUME NEW d \in wildcards
            PROVE  ~MoreSpecific(d.segments, b.segments)
        <5>1. Rank(d.segments) \in Nat /\ Rank(b.segments) \in Nat /\ Rank(d.segments) <= Rank(b.segments)
          BY <1>1, <1>3, <3>5, <3>6, RankLemma
        <5>2. MoreSpecific(d.segments, b.segments) <=> Rank(d.segments) > Rank(b.segments)
          BY <1>1, <1>3, RankLemma
        <5> QED
          BY <5>1, <5>2
      <4> QED
        BY <4>1
    <3>8. Answers(b, url) /\ ~Outdone(places, b, url)
      BY <2>2, <3>7 DEF Answers, Outdone
    <3> QED
      BY <3>8
  <2> QED
    BY <2>1, <2>2
<1>5. ASSUME NEW b \in places, NEW c \in places, Best(b), Best(c)
      PROVE  c = b
  <2>1. b.exact = c.exact
    BY <1>2, <1>5 DEF Answers, Outdone
  <2>2. b.segments = c.segments
    <3>1. CASE b.exact
      BY <1>5, <2>1, <3>1 DEF Answers
    <3>2. CASE ~b.exact
      <4>1. b \in wildcards /\ c \in wildcards
        BY <1>2, <1>5, <2>1, <3>2 DEF Answers
      <4>2. ~MoreSpecific(b.segments, c.segments) /\ ~MoreSpecific(c.segments, b.segments)
        BY <1>5, <2>1, <3>2, <4>1 DEF Outdone
      <4>3. Rank(b.segments) = Rank(c.segments)
        <5>1. /\ Rank(b.segments) \in Nat /\ Rank(c.segments) \in Nat
              /\ MoreSpecific(b.segments, c.segments) <=> Rank(b.segments) > Rank(c.segments)
              /\ MoreSpecific(c.segments, b.segments) <=> Rank(c.segments) > Rank(b.segments)
          BY <1>1, <1>3, <4>1, RankLemma
        <5> QED
          BY <4>2, <5>1
      <4> QED
        BY <1>1, <1>3, <4>1, <4>3, RankLemma
    <3> QED
      BY <3>1, <3>2
  <2> QED
    BY <1>2, <2>1, <2>2
<1> QED
  BY <1>4, <1>5
=============================================================================
