------------------------ MODULE SignatureCacheProofs ------------------------
(***************************************************************************)
(* The signature cache for any number of threads, entries and places: it   *)
(* is well typed, it holds verified signatures only, it is an LRU cache of *)
(* bounded size, and it is invisible to the callers of verify_signature.   *)
(***************************************************************************)
EXTENDS SignatureCache, TLAPS

(***************************************************************************)
(* The operations of the cache.                                            *)
(***************************************************************************)
Ranking == [Entries -> 0 .. MaxSize]

Injective(r) == \A d, e \in Entries : r[d] = r[e] /\ r[d] > 0 => d = e

Held(r) == {e \in Entries : r[e] > 0}

\* Moving an entry to the front gives a ranking with it first, that drops or keeps
\* the others, each at most one place further back.
LEMMA ToFrontLemma ==
  ASSUME NEW r \in Ranking, NEW e \in Entries
  PROVE  LET s == ToFront(r, e)
         IN  /\ s \in Ranking
             /\ s[e] = 1
             /\ Held(s) \subseteq Held(r) \cup {e}
             /\ \A x \in Entries : r[x] \in 1 .. MaxSize - 1 /\ x # e =>
                                     s[x] \in {r[x], r[x] + 1}
             /\ Injective(r) => Injective(s)
<1> DEFINE s == ToFront(r, e)
<1> USE SizeAssumption
<1>1. s \in Ranking
  BY DEF ToFront, Ranking
<1>2. s[e] = 1
  BY DEF ToFront
<1>3. Held(s) \subseteq Held(r) \cup {e}
  BY DEF ToFront, Ranking, Held
<1>4. \A x \in Entries : r[x] \in 1 .. MaxSize - 1 /\ x # e => s[x] \in {r[x], r[x] + 1}
  BY DEF ToFront, Ranking
<1>5. ASSUME Injective(r) PROVE Injective(s)
  <2> SUFFICES ASSUME NEW c \in Entries, NEW d \in Entries, s[c] = s[d], s[c] > 0
               PROVE  c = d
    BY DEF Injective
  <2>1. \A x \in Entries \ {e} : s[x] # 1
    BY DEF ToFront, Ranking
  <2>2. CASE c = e \/ d = e
    BY <1>2, <2>1, <2>2
  <2>3. CASE c # e /\ d # e
    <3>1. r[c] = r[d] /\ r[c] > 0
      BY <1>5, <2>3 DEF ToFront, Ranking, Injective
    <3> QED
      BY <1>5, <3>1 DEF Injective
  <2> QED
    BY <2>2, <2>3
<1> QED
  BY <1>1, <1>2, <1>3, <1>4, <1>5

\* Making room keeps every entry that is not ranked last where it is.
LEMMA DropLastLemma ==
  ASSUME NEW r \in Ranking
  PROVE  LET s == DropLast(r)
         IN  /\ s \in Ranking
             /\ Held(s) \subseteq Held(r)
             /\ \A x \in Entries : r[x] < MaxSize => s[x] = r[x]
             /\ Injective(r) => Injective(s)
BY SizeAssumption DEF DropLast, Ranking, Held, Injective

\* Whatever cache_set does, it adds its own entry only, keeps that entry, and
\* moves an entry that is not ranked last back by one place at most.
LEMMA AfterSetLemma ==
  ASSUME NEW r \in Ranking, NEW e \in Entries, NEW s \in AfterSet(r, e)
  PROVE  /\ s \in Ranking
         /\ s[e] \in 1 .. MaxSize
         /\ s[e] = 1 \/ (r[e] > 0 /\ s[e] = r[e])
         /\ Held(s) \subseteq Held(r) \cup {e}
         /\ \A x \in Entries : r[x] \in 1 .. MaxSize - 1 /\ x # e =>
                                 s[x] \in {r[x], r[x] + 1}
         /\ Injective(r) => Injective(s)
<1> DEFINE room == DropLast(r)
<1> USE SizeAssumption
<1>1. /\ room \in Ranking
      /\ Held(room) \subseteq Held(r)
      /\ \A x \in Entries : r[x] < MaxSize => room[x] = r[x]
      /\ Injective(r) => Injective(room)
  BY DropLastLemma
<1>2. CASE s = r /\ r[e] > 0
  BY <1>2 DEF Ranking, Held
<1>3. CASE s = ToFront(r, e)
  BY <1>3, ToFrontLemma
<1>4. CASE s = ToFront(room, e)
  <2>1. /\ s \in Ranking
        /\ s[e] = 1
        /\ Held(s) \subseteq Held(room) \cup {e}
        /\ \A x \in Entries : room[x] \in 1 .. MaxSize - 1 /\ x # e =>
                                s[x] \in {room[x], room[x] + 1}
        /\ Injective(room) => Injective(s)
    BY <1>1, <1>4, ToFrontLemma
  <2> QED
    BY <1>1, <2>1 DEF Ranking
<1>5. CASE s = room /\ room[e] # 0
  <2>1. r[e] > 0 /\ s[e] = r[e]
    BY <1>5 DEF DropLast, Ranking
  <2> QED
    BY <1>1, <1>5, <2>1 DEF Ranking
<1>6. \/ s = r /\ r[e] > 0
      \/ s = ToFront(r, e)
      \/ s = ToFront(room, e)
      \/ s = room /\ room[e] # 0
  BY DEF AfterSet, Ranking
<1> QED
  BY <1>2, <1>3, <1>4, <1>5, <1>6

-----------------------------------------------------------------------------
(***************************************************************************)
(* Types.                                                                  *)
(***************************************************************************)
LEMMA InitTypes == Init => TypeOK
BY SizeAssumption, NoneAssumption DEF Init, TypeOK, PCs

LEMMA NextTypes == TypeOK /\ [Next]_vars => TypeOK'
<1> SUFFICES ASSUME TypeOK, [Next]_vars PROVE TypeOK'
  OBVIOUS
<1> USE SizeAssumption, NoneAssumption DEF TypeOK, PCs, Go
<1>1. ASSUME NEW t \in Threads, NEW e \in Entries, Call(t, e) PROVE TypeOK'
  BY <1>1 DEF Call
<1>2. ASSUME NEW t \in Threads, Hit(t) PROVE TypeOK'
  <2>1. entry[t] \in Entries /\ rank \in Ranking
    BY <1>2 DEF Hit, Ranking
  <2>2. rank' \in Ranking
    BY <1>2, <2>1, ToFrontLemma DEF Hit
  <2>3. age' \in [Entries -> 0 .. MaxSize]
    BY <1>2, <2>1 DEF Hit, Aged
  <2> QED
    BY <1>2, <2>2, <2>3 DEF Hit, Ranking
<1>3. ASSUME NEW t \in Threads, Miss(t) PROVE TypeOK'
  BY <1>3 DEF Miss
<1>4. ASSUME NEW t \in Threads, CoreVerify(t) PROVE TypeOK'
  BY <1>4 DEF CoreVerify
<1>5. ASSUME NEW t \in Threads, InsertEntry(t) PROVE TypeOK'
  <2>1. entry[t] \in Entries /\ rank \in Ranking
    BY <1>5 DEF InsertEntry, Ranking
  <2>2. rank' \in Ranking
    BY <1>5, <2>1, AfterSetLemma DEF InsertEntry
  <2>3. age' \in [Entries -> 0 .. MaxSize]
    BY <1>5, <2>1 DEF InsertEntry, Aged
  <2> QED
    BY <1>5, <2>2, <2>3 DEF InsertEntry, Ranking
<1>6. ASSUME NEW t \in Threads, Return(t) PROVE TypeOK'
  BY <1>6 DEF Return
<1>7. CASE UNCHANGED vars
  BY <1>7 DEF vars
<1> QED
  BY <1>1, <1>2, <1>3, <1>4, <1>5, <1>6, <1>7 DEF Next

\* Every reachable state is well typed, and a thread holds an entry exactly while
\* it is inside verify_signature.
THEOREM TypeCorrect == Spec => []TypeOK
BY InitTypes, NextTypes, PTL DEF Spec

-----------------------------------------------------------------------------
(***************************************************************************)
(* Verified signatures only.  OnlyValidCached is not inductive: a thread   *)
(* that stands before its insert must be known to have verified its entry, *)
(* and a thread that has an answer must have the right one.                *)
(***************************************************************************)
VerdictsRight ==
  \A t \in Threads : /\ pc[t] \in {"insert", "ok"} => entry[t] \in Valid
                     /\ pc[t] = "error" => entry[t] \notin Valid

Verified == TypeOK /\ OnlyValidCached /\ VerdictsRight

LEMMA InitVerified == Init => Verified
BY InitTypes DEF Init, Verified, OnlyValidCached, VerdictsRight, Cached

LEMMA NextVerified == Verified /\ [Next]_vars => Verified'
<1> SUFFICES ASSUME Verified, [Next]_vars PROVE Verified'
  OBVIOUS
<1> USE DEF Verified
<1>0. TypeOK'
  BY NextTypes
<1>a. rank \in Ranking
  BY DEF TypeOK, Ranking
<1>1. ASSUME NEW t \in Threads, NEW e \in Entries, Call(t, e) PROVE Verified'
  BY <1>0, <1>1 DEF Call, Go, OnlyValidCached, VerdictsRight, Cached, TypeOK
<1>2. ASSUME NEW t \in Threads, Hit(t) PROVE Verified'
  <2>1. entry[t] \in Cached
    BY <1>2, NoneAssumption DEF Hit, Go, Cached, TypeOK
  <2>2. Held(rank') \subseteq Held(rank) \cup {entry[t]}
    BY <1>2, <1>a, <2>1, ToFrontLemma DEF Hit, Cached
  <2>3. OnlyValidCached'
    BY <2>1, <2>2 DEF OnlyValidCached, Cached, Held
  <2>4. VerdictsRight'
    BY <1>2, <2>1 DEF Hit, Go, VerdictsRight, OnlyValidCached, TypeOK
  <2> QED
    BY <1>0, <2>3, <2>4
<1>3. ASSUME NEW t \in Threads, Miss(t) PROVE Verified'
  BY <1>0, <1>3 DEF Miss, Go, OnlyValidCached, VerdictsRight, Cached, TypeOK
<1>4. ASSUME NEW t \in Threads, CoreVerify(t) PROVE Verified'
  BY <1>0, <1>4 DEF CoreVerify, Go, OnlyValidCached, VerdictsRight, Cached, TypeOK
<1>5. ASSUME NEW t \in Threads, InsertEntry(t) PROVE Verified'
  <2>1. entry[t] \in Valid /\ entry[t] \in Entries
    BY <1>5, ValidAssumption DEF InsertEntry, Go, VerdictsRight
  <2>2. Held(rank') \subseteq Held(rank) \cup {entry[t]}
    BY <1>5, <1>a, <2>1, AfterSetLemma DEF InsertEntry
  <2>3. OnlyValidCached'
    BY <2>1, <2>2 DEF OnlyValidCached, Cached, Held
  <2>4. VerdictsRight'
    BY <1>5, <2>1 DEF InsertEntry, Go, VerdictsRight, TypeOK
  <2> QED
    BY <1>0, <2>3, <2>4
<1>6. ASSUME NEW t \in Threads, Return(t) PROVE Verified'
  BY <1>0, <1>6 DEF Return, OnlyValidCached, VerdictsRight, Cached, TypeOK
<1>7. CASE UNCHANGED vars
  BY <1>0, <1>7 DEF vars, OnlyValidCached, VerdictsRight, Cached
<1> QED
  BY <1>1, <1>2, <1>3, <1>4, <1>5, <1>6, <1>7 DEF Next

LEMMA VerifiedAlways == Spec => []Verified
BY InitVerified, NextVerified, PTL DEF Spec

\* The cache only ever holds entries that core_verify accepts (the warning on
\* SignatureCache::insert), for any number of threads and any eviction order.
THEOREM CacheHoldsValidOnly == Spec => []OnlyValidCached
BY VerifiedAlways, PTL DEF Verified

-----------------------------------------------------------------------------
(***************************************************************************)
(* A bounded LRU cache.                                                    *)
(***************************************************************************)
Lru == TypeOK /\ RanksDistinct /\ RecentlyUsedHeld

LEMMA InitLru == Init => Lru
BY InitTypes, SizeAssumption DEF Init, Lru, RanksDistinct, RecentlyUsedHeld

LEMMA NextLru == Lru /\ [Next]_vars => Lru'
<1> SUFFICES ASSUME Lru, [Next]_vars PROVE Lru'
  OBVIOUS
<1> USE SizeAssumption DEF Lru
<1>0. TypeOK'
  BY NextTypes
<1>a. rank \in Ranking /\ age \in [Entries -> 0 .. MaxSize]
  BY DEF TypeOK, Ranking
<1>b. Injective(rank)
  BY DEF RanksDistinct, Injective
<1>1. CASE UNCHANGED <<rank, age>>
  BY <1>0, <1>1 DEF RanksDistinct, RecentlyUsedHeld
<1>2. ASSUME NEW t \in Threads, Hit(t) PROVE Lru'
  <2>1. entry[t] \in Entries
    BY <1>2, NoneAssumption DEF Hit, Go, TypeOK
  <2>2. /\ rank'[entry[t]] = 1
        /\ \A x \in Entries : rank[x] \in 1 .. MaxSize - 1 /\ x # entry[t] =>
                                rank'[x] \in {rank[x], rank[x] + 1}
        /\ Injective(rank')
    BY <1>2, <1>a, <1>b, <2>1, ToFrontLemma DEF Hit
  <2>3. RanksDistinct'
    BY <2>2 DEF RanksDistinct, Injective
  <2>4. ASSUME NEW x \in Entries, age'[x] < MaxSize PROVE rank'[x] \in 1 .. age'[x] + 1
    <3>1. CASE x = entry[t]
      BY <1>0, <2>2, <3>1 DEF TypeOK
    <3>2. CASE x # entry[t]
      <4>1. age[x] \in 0 .. MaxSize - 2 /\ age'[x] = age[x] + 1
        BY <1>2, <1>a, <2>4, <3>2 DEF Hit, Aged
      <4>2. rank[x] \in 1 .. age[x] + 1 /\ rank[x] \in 1 .. MaxSize - 1
        BY <1>a, <4>1 DEF RecentlyUsedHeld
      <4> QED
        BY <2>2, <3>2, <4>1, <4>2
    <3> QED
      BY <3>1, <3>2
  <2> QED
    BY <1>0, <2>3, <2>4 DEF RecentlyUsedHeld
<1>3. ASSUME NEW t \in Threads, InsertEntry(t) PROVE Lru'
  <2>1. entry[t] \in Entries
    BY <1>3, NoneAssumption DEF InsertEntry, Go, TypeOK
  <2>2. /\ rank'[entry[t]] = 1 \/ (rank[entry[t]] > 0 /\ rank'[entry[t]] = rank[entry[t]])
        /\ \A x \in Entries : rank[x] \in 1 .. MaxSize - 1 /\ x # entry[t] =>
                                rank'[x] \in {rank[x], rank[x] + 1}
        /\ Injective(rank')
    BY <1>3, <1>a, <1>b, <2>1, AfterSetLemma DEF InsertEntry
  <2>3. RanksDistinct'
    BY <2>2 DEF RanksDistinct, Injective
  <2>4. ASSUME NEW x \in Entries, age'[x] < MaxSize PROVE rank'[x] \in 1 .. age'[x] + 1
    <3>1. CASE x = entry[t] /\ rank[x] = 0
      BY <1>0, <2>2, <3>1 DEF TypeOK
    <3>2. CASE x = entry[t] /\ rank[x] # 0
      <4>1. age'[x] = age[x]
        BY <1>3, <1>a, <3>2 DEF InsertEntry, Aged, Ranking
      <4>2. rank[x] \in 1 .. age[x] + 1
        BY <2>4, <4>1 DEF RecentlyUsedHeld
      <4> QED
        BY <1>a, <2>2, <3>2, <4>1, <4>2
    <3>3. CASE x # entry[t]
      <4>1. age[x] \in 0 .. MaxSize - 2 /\ age'[x] = age[x] + 1
        BY <1>3, <1>a, <2>4, <3>3 DEF InsertEntry, Aged
      <4>2. rank[x] \in 1 .. age[x] + 1 /\ rank[x] \in 1 .. MaxSize - 1
        BY <1>a, <4>1 DEF RecentlyUsedHeld
      <4> QED
        BY <2>2, <3>3, <4>1, <4>2
    <3> QED
      BY <3>1, <3>2, <3>3
  <2> QED
    BY <1>0, <2>3, <2>4 DEF RecentlyUsedHeld
<1> QED
  BY <1>1, <1>2, <1>3 DEF Next, vars, Call, Miss, CoreVerify, Return

LEMMA LruAlways == Spec => []Lru
BY InitLru, NextLru, PTL DEF Spec

\* No two entries ever share a place, so at most MaxSize entries are held.
THEOREM RanksStayDistinct == Spec => []RanksDistinct
BY LruAlways, PTL DEF Lru

\* An entry is held as long as fewer operations than the cache has places were
\* made on other entries since it was used, whatever races of inserts happen.
THEOREM LruGuarantee == Spec => []RecentlyUsedHeld
BY LruAlways, PTL DEF Lru

-----------------------------------------------------------------------------
(***************************************************************************)
(* The cache is invisible.                                                 *)
(***************************************************************************)
LEMMA InitRefines == Init => Oracle!OracleInit
BY DEF Init, Oracle!OracleInit

LEMMA NextRefines == Verified /\ [Next]_vars => [Oracle!OracleNext]_(Oracle!oracleVars)
<1> DEFINE answer == [t \in Threads |-> IF pc[t] \in {"ok", "error"} THEN pc[t] ELSE "pending"]
<1> SUFFICES ASSUME Verified, [Next]_vars
             PROVE  [Oracle!OracleNext]_(Oracle!oracleVars)
  OBVIOUS
<1> USE NoneAssumption DEF Verified, TypeOK, PCs, Go
<1>1. ASSUME NEW t \in Threads, NEW e \in Entries, Call(t, e) PROVE Oracle!Ask(t, e)
  BY <1>1 DEF Call, Oracle!Ask
<1>2. ASSUME NEW t \in Threads, Hit(t) PROVE Oracle!Decide(t)
  <2>1. entry[t] \in Valid
    BY <1>2 DEF Hit, OnlyValidCached, Cached
  <2> QED
    BY <1>2, <2>1 DEF Hit, Oracle!Decide
<1>3. ASSUME NEW t \in Threads, Miss(t) PROVE UNCHANGED Oracle!oracleVars
  BY <1>3 DEF Miss, Oracle!oracleVars
<1>4. ASSUME NEW t \in Threads, CoreVerify(t)
      PROVE  Oracle!Decide(t) \/ UNCHANGED Oracle!oracleVars
  <2>1. CASE entry[t] \in Valid
    BY <1>4, <2>1 DEF CoreVerify, Oracle!oracleVars
  <2>2. CASE entry[t] \notin Valid
    BY <1>4, <2>2 DEF CoreVerify, Oracle!Decide
  <2> QED
    BY <2>1, <2>2
<1>5. ASSUME NEW t \in Threads, InsertEntry(t) PROVE Oracle!Decide(t)
  <2>1. entry[t] \in Valid
    BY <1>5 DEF InsertEntry, VerdictsRight
  <2> QED
    BY <1>5, <2>1 DEF InsertEntry, Oracle!Decide
<1>6. ASSUME NEW t \in Threads, Return(t) PROVE Oracle!Leave(t)
  BY <1>6 DEF Return, Oracle!Leave
<1>7. CASE UNCHANGED vars
  BY <1>7 DEF vars, Oracle!oracleVars
<1> QED
  BY <1>1, <1>2, <1>3, <1>4, <1>5, <1>6, <1>7 DEF Next, Oracle!OracleNext

\* Every behaviour of the cached, interleaved verification is one of asking an
\* oracle that answers with core_verify's verdict in a single step.
THEOREM CacheIsInvisible == Spec => ImplementsOracle
BY InitRefines, NextRefines, VerifiedAlways, PTL
   DEF Spec, ImplementsOracle, Oracle!OracleSpec
=============================================================================
