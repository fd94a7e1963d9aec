------------------------- MODULE AssetServingProofs -------------------------
(***************************************************************************)
(* AssetRouter and AssetServing for any assets, configurations and         *)
(* requests.  The tables of the router are never mixed up and, under       *)
(* hypotheses on how it is used, the tree holds the certifications of what *)
(* it keeps and, of its own, nothing else; whatever serve_asset chooses    *)
(* passes verification, and the chunks of an asset that are asked for one  *)
(* after another fit together.                                             *)
(***************************************************************************)
EXTENDS AssetServing, UrlPathsProofs, FiniteSetTheorems

(***************************************************************************)
(* The last turn.                                                          *)
(***************************************************************************)
\* What is prepared in a call: each with its turn, a bounded number.
Turns(work) == \E n \in Nat : \A w \in work : w[1] \in 0 .. n

\* The last of what is stored under a key was prepared in the call, for that key.
LEMMA LastForLemma ==
  ASSUME NEW work, Turns(work), NEW k \in {KeyOf(w[2]) : w \in work}
  PROVE  LastFor(work, k) \in work /\ KeyOf(LastFor(work, k)[2]) = k
<1> DEFINE ofKey == {w \in work : KeyOf(w[2]) = k}
           T == {w[1] : w \in ofKey}
<1>1. PICK n \in Nat : \A w \in work : w[1] \in 0 .. n
  BY DEF Turns
<1>2. T \in SUBSET (0 .. n) /\ T # {}
  BY <1>1
<1>3. PICK t \in T : \A u \in T : u <= t
  BY <1>2, GreatestExists
<1>4. PICK w \in ofKey : w[1] = t
  BY <1>3
<1>5. w \in work /\ KeyOf(w[2]) = k /\ \A v \in work : KeyOf(v[2]) = k => v[1] <= w[1]
  BY <1>3, <1>4
<1> QED
  BY <1>5 DEF LastFor

-----------------------------------------------------------------------------
(***************************************************************************)
(* What is prepared.                                                       *)
(***************************************************************************)
\* A fallback is never in chunks, and is the only response for a wildcard path.
WellFormed(x) == x.path.exact \in BOOLEAN /\ (~x.path.exact => x.response.range = None)

LEMMA PreparedWellFormed ==
  /\ \A url, content, c, encoding, range :
       WellFormed(PrepareStatic(url, content, c, encoding, range))
  /\ \A f, content, c, encoding : WellFormed(PrepareFallback(f, content, c, encoding))
  /\ \A c : WellFormed(PrepareRedirect(c))
BY DEF WellFormed, PrepareStatic, PrepareFallback, PrepareRedirect, PrepareResponse

LEMMA AssetItemsWellFormed ==
  ASSUME NEW asset, NEW batch, NEW x \in AssetItems(asset, batch)
  PROVE  WellFormed(x)
<1>1. \A url, content, c, encoding : \A y \in StaticItems(url, content, c, encoding) : WellFormed(y)
  BY PreparedWellFormed DEF StaticItems
<1>2. \A url, content, c, encoding : \A y \in VariantItems(url, content, c, encoding) : WellFormed(y)
  BY <1>1, PreparedWellFormed DEF VariantItems
<1> QED
  BY <1>2 DEF AssetItems

LEMMA WorkLemma ==
  ASSUME NEW batch \in Batches, NEW order \in Orders(batch.assets)
  PROVE  /\ Turns(Work(batch, order))
         /\ \A w \in Work(batch, order) : WellFormed(w[2]) /\ w[2] \in AllItems
<1> DEFINE work  == Work(batch, order)
           n     == Cardinality(batch.assets)
           files == UNION {{order[a]} \X AssetItems(a, batch) : a \in ReachedAssets(batch, order)}
           redirects == {<<n + i, PrepareRedirect(batch.configs[i])>> : i \in ReachedRedirects(batch)}
<1>1. n \in Nat /\ Len(batch.configs) \in Nat /\ DOMAIN batch.configs = 1 .. Len(batch.configs)
  BY BatchAssumption, FS_CardinalityType
<1>2. work = files \cup redirects
  BY DEF Work, Redirects
<1>3. ASSUME NEW w \in files PROVE w[1] \in 1 .. n /\ WellFormed(w[2])
  <2>1. PICK a \in ReachedAssets(batch, order) : w \in {order[a]} \X AssetItems(a, batch)
    OBVIOUS
  <2>2. a \in batch.assets /\ order \in [batch.assets -> 1 .. n]
    BY DEF ReachedAssets, Orders
  <2> QED
    BY <2>1, <2>2, AssetItemsWellFormed
<1>4. ASSUME NEW w \in redirects
      PROVE  w[1] \in 1 .. n + Len(batch.configs) /\ WellFormed(w[2])
  <2>1. PICK i \in ReachedRedirects(batch) : w = <<n + i, PrepareRedirect(batch.configs[i])>>
    OBVIOUS
  <2>2. i \in 1 .. Len(batch.configs)
    BY <1>1 DEF ReachedRedirects
  <2> QED
    BY <1>1, <2>1, <2>2, PreparedWellFormed
<1>5. \A w \in work : w[1] \in 0 .. n + Len(batch.configs) /\ WellFormed(w[2])
  <2> HIDE DEF files, redirects, n, work
  <2> QED
    BY <1>1, <1>2, <1>3, <1>4
<1>6. Turns(work)
  BY <1>1, <1>5 DEF Turns
<1>7. \A w \in work : w[2] \in AllItems
  BY DEF AllItems, ItemsOf
<1> QED
  BY <1>5, <1>6, <1>7

\* What a call leaves in a table: what it held before or what was prepared.
LEMMA StoredLemma ==
  ASSUME NEW table, NEW work, Turns(work)
  PROVE  LET after == Stored(table, work)
         IN  /\ DOMAIN after = DOMAIN table \cup {KeyOf(w[2]) : w \in work}
             /\ \A k \in {KeyOf(w[2]) : w \in work} :
                  KeyOf(after[k]) = k /\ \E w \in work : after[k] = w[2]
             /\ \A k \in DOMAIN table \ {KeyOf(w[2]) : w \in work} : after[k] = table[k]
<1> DEFINE keys == {KeyOf(w[2]) : w \in work}
           after == Stored(table, work)
<1>1. after = [k \in DOMAIN table \cup keys |-> IF k \in keys THEN LastFor(work, k)[2] ELSE table[k]]
  BY DEF Stored
<1>2. \A k \in keys : LastFor(work, k) \in work /\ KeyOf(LastFor(work, k)[2]) = k
  BY LastForLemma
<1> HIDE DEF keys, after
<1>3. /\ DOMAIN after = DOMAIN table \cup keys
      /\ \A k \in keys : KeyOf(after[k]) = k /\ \E w \in work : after[k] = w[2]
      /\ \A k \in DOMAIN table \ keys : after[k] = table[k]
  BY <1>1, <1>2
<1> QED
  BY <1>3 DEF keys, after

\* The parts of the work that go to either table have bounded turns too.
LEMMA TurnsOfPart ==
  ASSUME NEW work, Turns(work), NEW part \in SUBSET work
  PROVE  Turns(part)
BY DEF Turns

\* What certify_assets leaves in the two tables.
LEMMA CertifyLemma ==
  ASSUME NEW batch \in CertifyBatches, NEW order \in Orders(batch.assets)
  PROVE  LET work == Work(batch, order)
             mine == {w \in work : w[2].path.exact}
             wild == {w \in work : ~w[2].path.exact}
             r    == Stored(responses, mine)
             f    == Stored(fallback_responses, wild)
         IN  /\ \A k \in DOMAIN r :
                  \/ k \in DOMAIN responses /\ r[k] = responses[k]
                  \/ \E w \in mine : r[k] = w[2] /\ k = KeyOf(w[2])
             /\ \A k \in DOMAIN f :
                  \/ k \in DOMAIN fallback_responses /\ f[k] = fallback_responses[k]
                  \/ \E w \in wild : f[k] = w[2] /\ k = KeyOf(w[2])
             /\ DOMAIN responses \cup {KeyOf(w[2]) : w \in mine} \subseteq DOMAIN r
             /\ DOMAIN fallback_responses \cup {KeyOf(w[2]) : w \in wild} \subseteq DOMAIN f
<1> DEFINE work == Work(batch, order)
           mine == {w \in work : w[2].path.exact}
           wild == {w \in work : ~w[2].path.exact}
           r    == Stored(responses, mine)
           f    == Stored(fallback_responses, wild)
<1>1. Turns(work)
  BY WorkLemma DEF Batches
<1>2. Turns(mine) /\ Turns(wild)
  <2>1. mine \in SUBSET work /\ wild \in SUBSET work
    OBVIOUS
  <2> HIDE DEF mine, wild, work
  <2> QED
    BY <1>1, <2>1, TurnsOfPart
<1>3. /\ DOMAIN r = DOMAIN responses \cup {KeyOf(w[2]) : w \in mine}
      /\ \A k \in {KeyOf(w[2]) : w \in mine} : KeyOf(r[k]) = k /\ \E w \in mine : r[k] = w[2]
      /\ \A k \in DOMAIN responses \ {KeyOf(w[2]) : w \in mine} : r[k] = responses[k]
  <2> HIDE DEF mine
  <2> QED
    BY <1>2, StoredLemma
<1>4. /\ DOMAIN f = DOMAIN fallback_responses \cup {KeyOf(w[2]) : w \in wild}
      /\ \A k \in {KeyOf(w[2]) : w \in wild} : KeyOf(f[k]) = k /\ \E w \in wild : f[k] = w[2]
      /\ \A k \in DOMAIN fallback_responses \ {KeyOf(w[2]) : w \in wild} :
           f[k] = fallback_responses[k]
  <2> HIDE DEF wild
  <2> QED
    BY <1>2, StoredLemma
<1> HIDE DEF mine, wild, r, f
<1>5. \A k \in DOMAIN r :
        \/ k \in DOMAIN responses /\ r[k] = responses[k]
        \/ \E w \in mine : r[k] = w[2] /\ k = KeyOf(w[2])
  BY <1>3
<1>6. \A k \in DOMAIN f :
        \/ k \in DOMAIN fallback_responses /\ f[k] = fallback_responses[k]
        \/ \E w \in wild : f[k] = w[2] /\ k = KeyOf(w[2])
  BY <1>4
<1>7. /\ DOMAIN responses \cup {KeyOf(w[2]) : w \in mine} \subseteq DOMAIN r
      /\ DOMAIN fallback_responses \cup {KeyOf(w[2]) : w \in wild} \subseteq DOMAIN f
  BY <1>3, <1>4
<1> QED
  BY <1>5, <1>6, <1>7 DEF r, f, mine, wild, work

\* A deletion leaves the rest of a table as it is.
Within(after, before) == \A k \in DOMAIN after : k \in DOMAIN before /\ after[k] = before[k]

LEMMA WithoutLemma ==
  \A table, keys : /\ DOMAIN Without(table, keys) = DOMAIN table \ keys
                   /\ Within(Without(table, keys), table)
BY DEF Without, Within

-----------------------------------------------------------------------------
(***************************************************************************)
(* The tables.                                                             *)
(***************************************************************************)
\* A step only stores what was prepared, each under its own key, and keeps or
\* removes the rest.
Grows(batch) ==
  \E order \in Orders(batch.assets) :
    /\ \A k \in DOMAIN responses' :
         \/ k \in DOMAIN responses /\ responses'[k] = responses[k]
         \/ \E w \in Work(batch, order) :
              /\ responses'[k] = w[2] /\ k = KeyOf(w[2])
              /\ w[2].path.exact
    /\ \A k \in DOMAIN fallback_responses' :
         \/ k \in DOMAIN fallback_responses /\ fallback_responses'[k] = fallback_responses[k]
         \/ \E w \in Work(batch, order) :
              /\ fallback_responses'[k] = w[2] /\ k = KeyOf(w[2])
              /\ ~w[2].path.exact
    /\ DOMAIN responses \subseteq DOMAIN responses'
    /\ DOMAIN fallback_responses \subseteq DOMAIN fallback_responses'
    /\ \A w \in Work(batch, order) :
         KeyOf(w[2]) \in IF w[2].path.exact THEN DOMAIN responses' ELSE DOMAIN fallback_responses'
    /\ tree' = tree \cup {Entry(w[2]) : w \in Work(batch, order)}

Shrinks ==
  /\ Within(responses', responses)
  /\ Within(fallback_responses', fallback_responses)

LEMMA CertifyGrows ==
  ASSUME NEW batch \in CertifyBatches, CertifyAssets(batch)
  PROVE  Grows(batch)
<1>1. PICK order \in Orders(batch.assets) :
        /\ tree' = tree \cup {Entry(w[2]) : w \in Work(batch, order)}
        /\ responses' = Stored(responses, {w \in Work(batch, order) : w[2].path.exact})
        /\ fallback_responses' =
             Stored(fallback_responses, {w \in Work(batch, order) : ~w[2].path.exact})
  BY DEF CertifyAssets, InsertStaticAssets, InsertFallbackAssets
<1>2. /\ \A k \in DOMAIN responses' :
           \/ k \in DOMAIN responses /\ responses'[k] = responses[k]
           \/ \E w \in {v \in Work(batch, order) : v[2].path.exact} :
                responses'[k] = w[2] /\ k = KeyOf(w[2])
      /\ \A k \in DOMAIN fallback_responses' :
           \/ k \in DOMAIN fallback_responses /\ fallback_responses'[k] = fallback_responses[k]
           \/ \E w \in {v \in Work(batch, order) : ~v[2].path.exact} :
                fallback_responses'[k] = w[2] /\ k = KeyOf(w[2])
      /\ DOMAIN responses \cup {KeyOf(w[2]) : w \in {v \in Work(batch, order) : v[2].path.exact}}
           \subseteq DOMAIN responses'
      /\ DOMAIN fallback_responses
           \cup {KeyOf(w[2]) : w \in {v \in Work(batch, order) : ~v[2].path.exact}}
           \subseteq DOMAIN fallback_responses'
  BY <1>1, CertifyLemma
<1> QED
  BY <1>1, <1>2 DEF Grows

LEMMA OthersShrink ==
  ASSUME \/ \E batch \in DeleteBatches : DeleteAssets(batch)
         \/ \E paths \in AssetPaths : DeleteAssetsByPath(paths)
         \/ \E paths \in FallbackPaths : DeleteFallbackAssetsByPath(paths)
         \/ DeleteAllAssets
         \/ \E pc \in Others : CertifyOther(pc)
         \/ UNCHANGED vars
  PROVE  Shrinks
<1>1. ASSUME NEW batch \in DeleteBatches, DeleteAssets(batch) PROVE Shrinks
  <2>1. /\ \E keys : responses' = Without(responses, keys)
        /\ \E keys : fallback_responses' = Without(fallback_responses, keys)
    BY <1>1 DEF DeleteAssets, DeleteStaticAssets, DeleteFallbackAssets
  <2> QED
    BY <2>1, WithoutLemma DEF Shrinks
<1>2. ASSUME NEW paths \in AssetPaths, DeleteAssetsByPath(paths) PROVE Shrinks
  BY <1>2, WithoutLemma DEF DeleteAssetsByPath, Shrinks, Within
<1>3. ASSUME NEW paths \in FallbackPaths, DeleteFallbackAssetsByPath(paths) PROVE Shrinks
  BY <1>3, WithoutLemma DEF DeleteFallbackAssetsByPath, Shrinks, Within
<1>4. CASE DeleteAllAssets
  <2>1. DOMAIN responses' = {} /\ DOMAIN fallback_responses' = {}
    BY <1>4 DEF DeleteAllAssets
  <2> QED
    BY <2>1 DEF Shrinks, Within
<1>5. ASSUME NEW pc \in Others, CertifyOther(pc) PROVE Shrinks
  BY <1>5 DEF CertifyOther, Shrinks, Within
<1>6. CASE UNCHANGED vars
  BY <1>6 DEF vars, Shrinks, Within
<1> QED
  BY <1>1, <1>2, <1>3, <1>4, <1>5, <1>6

\* Every step of the router grows the tables or shrinks them.
LEMMA StepLemma ==
  ASSUME [Next]_vars
  PROVE  (\E batch \in CertifyBatches : CertifyAssets(batch) /\ Grows(batch)) \/ Shrinks
BY CertifyGrows, OthersShrink DEF Next

\* The tables are well formed at all times, whatever is certified and deleted: a
\* response lies under its own key, in the table of its kind of path.
THEOREM TypeCorrect == Spec => []TypeOK
<1>1. Init => TypeOK
  BY DEF Init, TypeOK
<1>2. TypeOK /\ [Next]_vars => TypeOK'
  <2> SUFFICES ASSUME TypeOK, [Next]_vars
               PROVE  TypeOK'
    OBVIOUS
  <2>1. ASSUME NEW batch \in CertifyBatches, Grows(batch) PROVE TypeOK'
    <3>1. PICK order \in Orders(batch.assets) :
            /\ \A k \in DOMAIN responses' :
                 \/ k \in DOMAIN responses /\ responses'[k] = responses[k]
                 \/ \E w \in Work(batch, order) :
                      responses'[k] = w[2] /\ k = KeyOf(w[2]) /\ w[2].path.exact
            /\ \A k \in DOMAIN fallback_responses' :
                 \/ k \in DOMAIN fallback_responses
                    /\ fallback_responses'[k] = fallback_responses[k]
                 \/ \E w \in Work(batch, order) :
                      fallback_responses'[k] = w[2] /\ k = KeyOf(w[2]) /\ ~w[2].path.exact
      BY <2>1 DEF Grows
    <3>2. \A w \in Work(batch, order) : ~w[2].path.exact => KeyOf(w[2]).range = None
      BY WorkLemma DEF Batches, WellFormed, KeyOf, Key
    <3> QED
      BY <3>1, <3>2 DEF TypeOK
  <2>2. CASE Shrinks
    BY <2>2 DEF Shrinks, Within, TypeOK
  <2> QED
    BY <2>1, <2>2, StepLemma
<1> QED
  BY <1>1, <1>2, PTL DEF Spec

-----------------------------------------------------------------------------
(***************************************************************************)
(* The tables and the tree.                                                *)
(***************************************************************************)
\* What is kept was once prepared.
Known == Items \subseteq AllItems

LEMMA KnownStep ==
  ASSUME Known, [Next]_vars
  PROVE  Known'
<1>1. ASSUME NEW batch \in CertifyBatches, Grows(batch) PROVE Known'
  <2>1. PICK order \in Orders(batch.assets) :
          /\ \A k \in DOMAIN responses' :
               responses'[k] \in Items \cup {w[2] : w \in Work(batch, order)}
          /\ \A k \in DOMAIN fallback_responses' :
               fallback_responses'[k] \in Items \cup {w[2] : w \in Work(batch, order)}
    BY <1>1 DEF Grows, Items
  <2>2. \A w \in Work(batch, order) : w[2] \in AllItems
    BY WorkLemma DEF Batches
  <2> QED
    BY <2>1, <2>2 DEF Known, Items
<1>2. CASE Shrinks
  BY <1>2 DEF Shrinks, Within, Known, Items
<1> QED
  BY <1>1, <1>2, StepLemma

LEMMA KnownWellFormed == \A x \in AllItems : WellFormed(x)
BY WorkLemma DEF AllItems, ItemsOf

\* An entry tells whose it is, unless one place is spelt in two ways.
LEMMA EntryDetermines ==
  ASSUME NoAliases, NEW x \in AllItems, NEW y \in AllItems, Entry(x) = Entry(y)
  PROVE  x.path = y.path /\ KeyOf(x) = KeyOf(y)
<1>1. Place(x.path) = Place(y.path) /\ Certification(x.response) = Certification(y.response)
  BY DEF Entry
<1>2. x.path = y.path
  BY <1>1 DEF NoAliases
<1>3. x.response = y.response
  BY <1>1 DEF Certification
<1> QED
  BY <1>2, <1>3 DEF KeyOf

\* A deletion is about responses that were prepared for it: it takes their entries,
\* except those of chunks, out of the tree and their keys out of the tables.
Deletes(items) ==
  /\ tree' = {pc \in tree : \A y \in items : y.response.range = None => pc # Entry(y)}
  /\ DOMAIN responses' = {k \in DOMAIN responses : \A y \in items : y.path.exact => k # KeyOf(y)}
  /\ DOMAIN fallback_responses' =
       {k \in DOMAIN fallback_responses : \A y \in items : ~y.path.exact => k # KeyOf(y)}
  /\ Shrinks

\* What a call that certifies or deletes a batch may prepare, in one order or another.
Preparations(batch) ==
  {{w[2] : w \in Work(batch, order)} : order \in Orders(batch.assets)}

LEMMA DeleteLemma ==
  ASSUME NEW batch \in Batches, DeleteAssets(batch)
  PROVE  \E items \in Preparations(batch) :
           items \subseteq AllItems /\ items \subseteq ItemsOf(batch) /\ Deletes(items)
<1>1. PICK order \in Orders(batch.assets) :
        LET items == {w[2] : w \in Work(batch, order)}
        IN  /\ tree' = tree \ {Entry(x) : x \in {y \in items : y.response.range = None}}
            /\ responses' = Without(responses, {KeyOf(x) : x \in {y \in items : y.path.exact}})
            /\ fallback_responses' =
                 Without(fallback_responses, {KeyOf(x) : x \in {y \in items : ~y.path.exact}})
  BY DEF DeleteAssets, DeleteStaticAssets, DeleteFallbackAssets
<1> DEFINE items == {w[2] : w \in Work(batch, order)}
           mine  == {KeyOf(x) : x \in {y \in items : y.path.exact}}
           wild  == {KeyOf(x) : x \in {y \in items : ~y.path.exact}}
<1>2. items \subseteq AllItems /\ items \subseteq ItemsOf(batch) /\ items \in Preparations(batch)
  <2>1. items \subseteq AllItems
    BY WorkLemma
  <2> QED
    BY <2>1 DEF ItemsOf, Preparations
<1> HIDE DEF items
<1>3. tree' = tree \ {Entry(x) : x \in {y \in items : y.response.range = None}}
  BY <1>1 DEF items
<1>4. responses' = Without(responses, mine) /\ fallback_responses' = Without(fallback_responses, wild)
  BY <1>1 DEF items
<1>5. \A k : k \in mine <=> \E y \in items : y.path.exact /\ k = KeyOf(y)
  OBVIOUS
<1>6. \A k : k \in wild <=> \E y \in items : ~y.path.exact /\ k = KeyOf(y)
  OBVIOUS
<1> HIDE DEF mine, wild
<1>7. /\ DOMAIN responses' = DOMAIN responses \ mine
      /\ DOMAIN fallback_responses' = DOMAIN fallback_responses \ wild
      /\ Shrinks
  BY <1>4, WithoutLemma DEF Shrinks
<1>8. Deletes(items)
  BY <1>3, <1>5, <1>6, <1>7 DEF Deletes
<1> QED
  BY <1>2, <1>8

LEMMA DeleteByPathLemma ==
  ASSUME NEW paths, DeleteAssetsByPath(paths) \/ DeleteFallbackAssetsByPath(paths)
  PROVE  /\ Shrinks
         /\ DeleteAssetsByPath(paths) =>
              /\ fallback_responses' = fallback_responses
              /\ \A k \in DOMAIN responses \ DOMAIN responses' : \E p \in paths : k = Key(p, None, None)
         /\ DeleteFallbackAssetsByPath(paths) =>
              /\ responses' = responses
              /\ \A k \in DOMAIN fallback_responses \ DOMAIN fallback_responses' :
                   \E p \in paths : k = Key(p, None, None)
<1> DEFINE keys == {Key(p, None, None) : p \in paths}
<1>1. \A k \in keys : \E p \in paths : k = Key(p, None, None)
  OBVIOUS
<1>2. CASE DeleteAssetsByPath(paths)
  <2>1. responses' = Without(responses, keys) /\ fallback_responses' = fallback_responses
    BY <1>2 DEF DeleteAssetsByPath
  <2> HIDE DEF keys
  <2>2. DOMAIN responses' = DOMAIN responses \ keys /\ Shrinks
    BY <2>1, WithoutLemma DEF Shrinks, Within
  <2>3. DeleteFallbackAssetsByPath(paths) => responses' = responses
    BY DEF DeleteFallbackAssetsByPath
  <2>4. DOMAIN fallback_responses \ DOMAIN fallback_responses' = {}
    BY <2>1
  <2> QED
    BY <1>1, <2>1, <2>2, <2>3, <2>4
<1>3. CASE DeleteFallbackAssetsByPath(paths)
  <2>1. fallback_responses' = Without(fallback_responses, keys) /\ responses' = responses
    BY <1>3 DEF DeleteFallbackAssetsByPath
  <2> HIDE DEF keys
  <2>2. DOMAIN fallback_responses' = DOMAIN fallback_responses \ keys /\ Shrinks
    BY <2>1, WithoutLemma DEF Shrinks, Within
  <2>3. DeleteAssetsByPath(paths) => fallback_responses' = fallback_responses
    BY DEF DeleteAssetsByPath
  <2>4. DOMAIN responses \ DOMAIN responses' = {}
    BY <2>1
  <2> QED
    BY <1>1, <2>1, <2>2, <2>3, <2>4
<1> QED
  BY <1>2, <1>3

\* What the router keeps stays certified, if one place is never spelt in two ways
\* and what is deleted by path has no encodings: then a deletion takes the entries of
\* the responses that go with it and of no other.
THEOREM KeptIsCertified ==
  ASSUME NoAliases, PlainByPath
  PROVE  Spec => []Certified
<1> DEFINE Inv == TypeOK /\ Known /\ Certified
<1>1. Init => Known /\ Certified
  BY DEF Init, Known, Certified, Items
<1>2. TypeOK /\ TypeOK' /\ Known /\ Certified /\ [Next]_vars => Known' /\ Certified'
  <2> SUFFICES ASSUME TypeOK, TypeOK', Known, Certified, [Next]_vars
               PROVE  Certified'
    BY KnownStep
  <2>1. ASSUME NEW batch \in CertifyBatches, CertifyAssets(batch) PROVE Certified'
    <3>1. PICK order \in Orders(batch.assets) :
            /\ \A k \in DOMAIN responses' :
                 responses'[k] \in Items \cup {w[2] : w \in Work(batch, order)}
            /\ \A k \in DOMAIN fallback_responses' :
                 fallback_responses'[k] \in Items \cup {w[2] : w \in Work(batch, order)}
            /\ tree' = tree \cup {Entry(w[2]) : w \in Work(batch, order)}
      BY <2>1, CertifyGrows DEF Grows, Items
    <3>2. \A x \in Items \cup {w[2] : w \in Work(batch, order)} : Entry(x) \in tree'
      BY <3>1 DEF Certified
    <3> QED
      BY <3>1, <3>2 DEF Certified, Items
  <2>2. ASSUME NEW batch \in DeleteBatches, DeleteAssets(batch) PROVE Certified'
    <3>1. PICK items \in Preparations(batch) :
            items \subseteq AllItems /\ items \subseteq ItemsOf(batch) /\ Deletes(items)
      BY <2>2, DeleteLemma DEF Batches
    <3>2. \A k \in DOMAIN responses' : \A y \in items : y.path.exact => k # KeyOf(y)
      BY <3>1 DEF Deletes
    <3>3. \A k \in DOMAIN fallback_responses' : \A y \in items : ~y.path.exact => k # KeyOf(y)
      BY <3>1 DEF Deletes
    <3>4. ASSUME NEW x \in Items', NEW y \in items, Entry(x) = Entry(y)
          PROVE  FALSE
      <4>1. x \in AllItems /\ x.path = y.path /\ KeyOf(x) = KeyOf(y)
        BY <3>1, <3>4, KnownStep, EntryDetermines DEF Known
      <4>2. CASE \E k \in DOMAIN responses' : x = responses'[k]
        BY <3>2, <4>1, <4>2 DEF TypeOK
      <4>3. CASE \E k \in DOMAIN fallback_responses' : x = fallback_responses'[k]
        BY <3>3, <4>1, <4>3 DEF TypeOK
      <4> QED
        BY <4>2, <4>3 DEF Items
    <3>5. Items' \subseteq Items
      BY <3>1 DEF Deletes, Shrinks, Within, Items
    <3> QED
      BY <3>1, <3>4, <3>5 DEF Deletes, Certified
  <2>3. CASE DeleteAllAssets
    BY <2>3 DEF DeleteAllAssets, Certified, Items
  <2>4. ASSUME NEW pc \in Others, CertifyOther(pc) PROVE Certified'
    BY <2>4 DEF CertifyOther, Certified, Items
  <2>5. ASSUME NEW paths \in AssetPaths, DeleteAssetsByPath(paths) PROVE Certified'
    <3>1. /\ tree' = {pc \in tree : pc[1] \notin {Place([exact |-> TRUE, url |-> p]) : p \in paths}}
          /\ fallback_responses' = fallback_responses
          /\ DOMAIN responses' = DOMAIN responses \ {Key(p, None, None) : p \in paths}
          /\ Shrinks
      BY <2>5, WithoutLemma, DeleteByPathLemma DEF DeleteAssetsByPath
    <3>2. ASSUME NEW x \in Items', NEW p \in paths, Place(x.path) = Place([exact |-> TRUE, url |-> p])
          PROVE  FALSE
      <4>1. x \in AllItems /\ WellFormed(x)
        BY KnownStep, KnownWellFormed DEF Known
      <4>2. x.path.exact = TRUE
        BY <3>2 DEF Place
      <4>3. KeyOf(x) = Key(p, None, None)
        BY <3>2, <4>1, <4>2 DEF PlainByPath
      <4>4. PICK k \in DOMAIN responses' : x = responses'[k]
        BY <4>2 DEF Items, TypeOK
      <4>5. k = KeyOf(x)
        BY <4>4 DEF TypeOK
      <4> QED
        BY <3>1, <4>3, <4>5
    <3>3. \A x \in Items' : x \in Items
      BY <3>1 DEF Shrinks, Within, Items
    <3>4. \A x \in Items' : Entry(x) \in tree /\ Entry(x)[1] = Place(x.path)
      BY <3>3 DEF Certified, Entry
    <3> QED
      BY <3>1, <3>2, <3>4 DEF Certified
  <2>6. ASSUME NEW paths \in FallbackPaths, DeleteFallbackAssetsByPath(paths) PROVE Certified'
    <3>1. /\ tree' = {pc \in tree : pc[1] \notin {Place([exact |-> FALSE, url |-> p]) : p \in paths}}
          /\ responses' = responses
          /\ DOMAIN fallback_responses' = DOMAIN fallback_responses \ {Key(p, None, None) : p \in paths}
          /\ Shrinks
      BY <2>6, WithoutLemma, DeleteByPathLemma DEF DeleteFallbackAssetsByPath
    <3>2. ASSUME NEW x \in Items', NEW p \in paths, Place(x.path) = Place([exact |-> FALSE, url |-> p])
          PROVE  FALSE
      <4>1. x \in AllItems /\ WellFormed(x)
        BY KnownStep, KnownWellFormed DEF Known
      <4>2. x.path.exact = FALSE
        BY <3>2 DEF Place
      <4>3. KeyOf(x) = Key(p, None, None)
        BY <3>2, <4>1, <4>2 DEF PlainByPath
      <4>4. PICK k \in DOMAIN fallback_responses' : x = fallback_responses'[k]
        BY <4>2 DEF Items, TypeOK
      <4>5. k = KeyOf(x)
        BY <4>4 DEF TypeOK
      <4> QED
        BY <3>1, <4>3, <4>5
    <3>3. \A x \in Items' : x \in Items
      BY <3>1 DEF Shrinks, Within, Items
    <3>4. \A x \in Items' : Entry(x) \in tree /\ Entry(x)[1] = Place(x.path)
      BY <3>3 DEF Certified, Entry
    <3> QED
      BY <3>1, <3>2, <3>4 DEF Certified
  <2>7. CASE UNCHANGED vars
    BY <2>7 DEF vars, Certified, Items
  <2> QED
    BY <2>1, <2>2, <2>3, <2>4, <2>5, <2>6, <2>7 DEF Next
<1> QED
  BY <1>1, <1>2, TypeCorrect, PTL DEF Spec

\* What is in the tree and is not someone else's is the certification of a
\* response that is kept, if assets do not change and none in chunks is deleted by configuration.
THEOREM NothingElseIsCertified ==
  ASSUME Consistent, NoChunksDeleted
  PROVE  Spec => []NoOrphans
<1>1. Init => Known /\ NoOrphans
  BY DEF Init, Known, NoOrphans, Items
<1>2. TypeOK /\ TypeOK' /\ Known /\ NoOrphans /\ [Next]_vars => Known' /\ NoOrphans'
  <2> SUFFICES ASSUME TypeOK, TypeOK', Known, NoOrphans, [Next]_vars
               PROVE  NoOrphans'
    BY KnownStep
  <2>0. Known'
    BY KnownStep
  <2>1. ASSUME NEW batch \in CertifyBatches, CertifyAssets(batch) PROVE NoOrphans'
    <3>1. PICK order \in Orders(batch.assets) :
            /\ DOMAIN responses \subseteq DOMAIN responses'
            /\ DOMAIN fallback_responses \subseteq DOMAIN fallback_responses'
            /\ \A w \in Work(batch, order) :
                 KeyOf(w[2]) \in IF w[2].path.exact THEN DOMAIN responses'
                                                    ELSE DOMAIN fallback_responses'
            /\ tree' = tree \cup {Entry(w[2]) : w \in Work(batch, order)}
      BY <2>1, CertifyGrows DEF Grows
    <3>2. \A x, y \in AllItems : x.path.exact = y.path.exact /\ KeyOf(x) = KeyOf(y) => x = y
      BY DEF Consistent
    <3>3. \A k \in DOMAIN responses' :
            responses'[k] \in AllItems /\ KeyOf(responses'[k]) = k /\ responses'[k].path.exact
      BY <2>0 DEF TypeOK, Known, Items
    <3>4. \A k \in DOMAIN fallback_responses' :
            /\ fallback_responses'[k] \in AllItems
            /\ KeyOf(fallback_responses'[k]) = k /\ ~fallback_responses'[k].path.exact
      BY <2>0 DEF TypeOK, Known, Items
    <3>5. ASSUME NEW x \in AllItems, x.path.exact \in BOOLEAN,
                 KeyOf(x) \in IF x.path.exact THEN DOMAIN responses' ELSE DOMAIN fallback_responses'
          PROVE  x \in Items'
      <4>0. \A k \in DOMAIN responses' : WellFormed(responses'[k])
        BY <2>0, KnownWellFormed DEF Known, Items
      <4>1. \A k \in DOMAIN fallback_responses' : WellFormed(fallback_responses'[k])
        BY <2>0, KnownWellFormed DEF Known, Items
      <4>2. CASE x.path.exact
        <5>1. responses'[KeyOf(x)] = x
          BY <3>2, <3>3, <3>5, <4>0, <4>2 DEF WellFormed
        <5> QED
          BY <3>5, <4>2, <5>1 DEF Items
      <4>3. CASE ~x.path.exact
        <5>1. fallback_responses'[KeyOf(x)] = x
          BY <3>2, <3>4, <3>5, <4>1, <4>3 DEF WellFormed
        <5> QED
          BY <3>5, <4>3, <5>1 DEF Items
      <4> QED
        BY <4>2, <4>3
    <3>6. \A w \in Work(batch, order) : w[2] \in AllItems /\ w[2].path.exact \in BOOLEAN
      BY WorkLemma DEF Batches, WellFormed
    <3>7. \A w \in Work(batch, order) : w[2] \in Items'
      BY <3>1, <3>5, <3>6
    <3>8. ASSUME NEW x \in Items PROVE x \in Items'
      <4>1. x \in AllItems /\ x.path.exact \in BOOLEAN
        BY KnownWellFormed DEF Known, WellFormed
      <4>2. CASE \E k \in DOMAIN responses : x = responses[k]
        BY <3>1, <3>5, <4>1, <4>2 DEF TypeOK
      <4>3. CASE \E k \in DOMAIN fallback_responses : x = fallback_responses[k]
        BY <3>1, <3>5, <4>1, <4>3 DEF TypeOK
      <4> QED
        BY <4>2, <4>3 DEF Items
    <3> QED
      BY <3>1, <3>7, <3>8 DEF NoOrphans
  <2>2. ASSUME NEW batch \in DeleteBatches, DeleteAssets(batch) PROVE NoOrphans'
    <3>1. PICK items \in Preparations(batch) :
            items \subseteq AllItems /\ items \subseteq ItemsOf(batch) /\ Deletes(items)
      BY <2>2, DeleteLemma DEF Batches
    <3>2. ASSUME NEW x \in Items, x \notin Items' PROVE Entry(x) \notin tree'
      <4>0. x \in AllItems /\ \A y \in items : y \in AllItems /\ WellFormed(x) /\ WellFormed(y)
        BY <3>1, KnownWellFormed DEF Known
      <4>1. PICK y \in items : y.path.exact = x.path.exact /\ KeyOf(y) = KeyOf(x)
        <5>1. CASE \E k \in DOMAIN responses : x = responses[k]
          <6>1. PICK k \in DOMAIN responses : x = responses[k]
            BY <5>1
          <6>2. k = KeyOf(x) /\ x.path.exact /\ k \notin DOMAIN responses'
            BY <3>1, <3>2, <6>1 DEF Deletes, Shrinks, Within, Items, TypeOK
          <6> QED
            BY <3>1, <4>0, <6>1, <6>2 DEF Deletes, WellFormed
        <5>2. CASE \E k \in DOMAIN fallback_responses : x = fallback_responses[k]
          <6>1. PICK k \in DOMAIN fallback_responses : x = fallback_responses[k]
            BY <5>2
          <6>2. k = KeyOf(x) /\ ~x.path.exact /\ k \notin DOMAIN fallback_responses'
            BY <3>1, <3>2, <6>1 DEF Deletes, Shrinks, Within, Items, TypeOK
          <6> QED
            BY <3>1, <4>0, <6>1, <6>2 DEF Deletes, WellFormed
        <5> QED
          BY <5>1, <5>2 DEF Items
      <4>2. x = y
        BY <4>0, <4>1 DEF Consistent
      <4> QED
        BY <3>1, <4>0, <4>1, <4>2 DEF Deletes, NoChunksDeleted
    <3>3. tree' \subseteq tree
      BY <3>1 DEF Deletes
    <3> QED
      BY <3>2, <3>3 DEF NoOrphans
  <2>3. ASSUME NEW paths \in AssetPaths, DeleteAssetsByPath(paths) PROVE NoOrphans'
    <3>1. tree' = {pc \in tree : pc[1] \notin {Place([exact |-> TRUE, url |-> p]) : p \in paths}}
      BY <2>3 DEF DeleteAssetsByPath
    <3>2. ASSUME NEW k \in DOMAIN responses, k \notin DOMAIN responses'
          PROVE  Entry(responses[k]) \notin tree'
      <4>1. PICK p \in paths : k = Key(p, None, None)
        BY <2>3, <3>2, DeleteByPathLemma
      <4>2. responses[k].path.url = p /\ responses[k].path.exact = TRUE
        <5>1. KeyOf(responses[k]) = k /\ responses[k].path.exact /\ WellFormed(responses[k])
          BY KnownWellFormed DEF TypeOK, Known, Items
        <5> QED
          BY <4>1, <5>1 DEF KeyOf, Key, WellFormed
      <4>3. Entry(responses[k])[1] = Place([exact |-> TRUE, url |-> p])
        BY <4>2 DEF Entry, Place
      <4> QED
        BY <3>1, <4>3
    <3>3. Shrinks /\ fallback_responses' = fallback_responses
      BY <2>3, DeleteByPathLemma
    <3>4. \A x \in Items : Entry(x) \in tree' => x \in Items'
      BY <3>2, <3>3 DEF Shrinks, Within, Items
    <3>5. tree' \subseteq tree
      BY <3>1
    <3> QED
      BY <3>4, <3>5 DEF NoOrphans
  <2>4. ASSUME NEW paths \in FallbackPaths, DeleteFallbackAssetsByPath(paths) PROVE NoOrphans'
    <3>1. tree' = {pc \in tree : pc[1] \notin {Place([exact |-> FALSE, url |-> p]) : p \in paths}}
      BY <2>4 DEF DeleteFallbackAssetsByPath
    <3>2. ASSUME NEW k \in DOMAIN fallback_responses, k \notin DOMAIN fallback_responses'
          PROVE  Entry(fallback_responses[k]) \notin tree'
      <4>1. PICK p \in paths : k = Key(p, None, None)
        BY <2>4, <3>2, DeleteByPathLemma
      <4>2. fallback_responses[k].path.url = p /\ fallback_responses[k].path.exact = FALSE
        <5>1. /\ KeyOf(fallback_responses[k]) = k /\ ~fallback_responses[k].path.exact
              /\ WellFormed(fallback_responses[k])
          BY KnownWellFormed DEF TypeOK, Known, Items
        <5> QED
          BY <4>1, <5>1 DEF KeyOf, Key, WellFormed
      <4>3. Entry(fallback_responses[k])[1] = Place([exact |-> FALSE, url |-> p])
        BY <4>2 DEF Entry, Place
      <4> QED
        BY <3>1, <4>3
    <3>3. Shrinks /\ responses' = responses
      BY <2>4, DeleteByPathLemma
    <3>4. \A x \in Items : Entry(x) \in tree' => x \in Items'
      BY <3>2, <3>3 DEF Shrinks, Within, Items
    <3>5. tree' \subseteq tree
      BY <3>1
    <3> QED
      BY <3>4, <3>5 DEF NoOrphans
  <2>5. CASE DeleteAllAssets
    BY <2>5 DEF DeleteAllAssets, NoOrphans
  <2>6. ASSUME NEW pc \in Others, CertifyOther(pc) PROVE NoOrphans'
    BY <2>6 DEF CertifyOther, NoOrphans, Items
  <2>7. CASE UNCHANGED vars
    BY <2>7 DEF vars, NoOrphans, Items
  <2> QED
    BY <2>1, <2>2, <2>3, <2>4, <2>5, <2>6, <2>7 DEF Next
<1> QED
  BY <1>1, <1>2, TypeCorrect, PTL DEF Spec

\* Certifying and deleting assets leaves what others have in the tree alone, if
\* nobody else certifies the very responses of the router.
THEOREM OthersAreKept ==
  ASSUME OthersApart
  PROVE  Spec => OthersKept
<1>1. ASSUME NEW batch \in Batches, CertifyAssets(batch) \/ DeleteAssets(batch)
      PROVE  Others \cap tree \subseteq tree'
  <2>1. CASE CertifyAssets(batch)
    BY <2>1 DEF CertifyAssets
  <2>2. CASE DeleteAssets(batch)
    <3>1. PICK items \in Preparations(batch) : items \subseteq AllItems /\ Deletes(items)
      BY <2>2, DeleteLemma
    <3>2. \A pc \in Others : \A y \in items : pc # Entry(y)
      BY <3>1 DEF OthersApart
    <3> QED
      BY <3>1, <3>2 DEF Deletes
  <2> QED
    BY <1>1, <2>1, <2>2
<1>2. [Next]_vars => [(\E batch \in Batches : CertifyAssets(batch) \/ DeleteAssets(batch))
                        => Others \cap tree \subseteq tree']_vars
  BY <1>1
<1> QED
  BY <1>2, PTL DEF Spec, OthersKept

-----------------------------------------------------------------------------
(***************************************************************************)
(* What is prepared for an asset: in each of its places the response       *)
(* without an encoding, and of what is in chunks the whole and the chunks. *)
(***************************************************************************)
\* The chunk that starts at r of the same asset.
Chunk(x, r) ==
  [path |-> x.path,
   response |-> PrepareResponse("200", x.response.content, x.response.headers, x.response.encoding, r)]

Plain(items, x) == \E y \in items : y.path = x.path /\ KeyOf(y) = Key(x.path.url, None, None)

Whole(items, x) ==
  x.path.exact => \E y \in items : y.path = x.path /\ KeyOf(y) = Key(x.path.url, x.response.encoding, None)

AllChunks(items, x) ==
  x.path.exact /\ BodyIsLarge(x) =>
    \A r \in 0 .. Chunks(x.response.content) - 1 : Chunk(x, r) \in items

\* What an item is made from.
Shaped(x) ==
  /\ x.path.exact \in BOOLEAN /\ x.path = [exact |-> x.path.exact, url |-> x.path.url]
  /\ x.response.encoding \in AssetEncodings \cup {None}
  /\ x.response.content # None =>
       /\ Chunks(x.response.content) \in Nat
       /\ \A k \in 0 .. Chunks(x.response.content) : ChunkRange(k) # None

LEMMA StaticLemma ==
  ASSUME NEW url, NEW content, NEW c, NEW encoding,
         NEW x \in StaticItems(url, content, c, encoding)
  PROVE  /\ x.path = [exact |-> TRUE, url |-> url]
         /\ x.response.content = content /\ x.response.encoding = encoding
         /\ Whole(StaticItems(url, content, c, encoding), x)
         /\ AllChunks(StaticItems(url, content, c, encoding), x)
<1> DEFINE all == StaticItems(url, content, c, encoding)
           ranges == {None} \cup IF IsLarge(content) THEN 0 .. Chunks(content) - 1 ELSE {}
<1>1. all = {PrepareStatic(url, content, c, encoding, range) : range \in ranges}
  BY DEF StaticItems
<1>2. PICK range \in ranges : x = PrepareStatic(url, content, c, encoding, range)
  BY <1>1
<1>3. /\ x.path = [exact |-> TRUE, url |-> url] /\ x.response.content = content
      /\ x.response.headers = c.headers /\ x.response.encoding = encoding
  BY <1>2 DEF PrepareStatic, PrepareResponse
<1>4. Whole(all, x)
  <2> DEFINE y == PrepareStatic(url, content, c, encoding, None)
  <2>1. y \in all
    BY <1>1
  <2>2. y.path = x.path /\ KeyOf(y) = Key(x.path.url, x.response.encoding, None)
    BY <1>3 DEF PrepareStatic, PrepareResponse, KeyOf
  <2> QED
    BY <2>1, <2>2 DEF Whole
<1>5. AllChunks(all, x)
  <2>1. ASSUME BodyIsLarge(x), NEW r \in 0 .. Chunks(content) - 1 PROVE Chunk(x, r) \in all
    <3>1. r \in ranges
      BY <1>3, <2>1 DEF BodyIsLarge
    <3>2. Chunk(x, r) = PrepareStatic(url, content, c, encoding, r)
      BY <1>3 DEF Chunk, PrepareStatic, PrepareResponse
    <3> QED
      BY <1>1, <3>1, <3>2
  <2> QED
    BY <1>3, <2>1 DEF AllChunks
<1> QED
  BY <1>3, <1>4, <1>5

LEMMA FallbackLemma ==
  ASSUME NEW f, NEW content, NEW c, NEW encoding
  PROVE  LET x == PrepareFallback(f, content, c, encoding)
         IN  /\ x.path = [exact |-> FALSE, url |-> f.scope]
             /\ x.response.content = content /\ x.response.encoding = encoding
             /\ KeyOf(x) = Key(f.scope, encoding, None)
BY DEF PrepareFallback, PrepareResponse, KeyOf

LEMMA VariantLemma ==
  ASSUME NEW url, NEW content, NEW c, NEW encoding, NEW other,
         NEW x \in VariantItems(url, content, c, encoding)
  PROVE  /\ x.path.exact \in BOOLEAN /\ x.path = [exact |-> x.path.exact, url |-> x.path.url]
         /\ x.response.content = content /\ x.response.encoding = encoding
         /\ Plain(VariantItems(url, other, c, None), x)
         /\ Whole(VariantItems(url, content, c, encoding), x)
         /\ AllChunks(VariantItems(url, content, c, encoding), x)
<1> DEFINE all == VariantItems(url, content, c, encoding)
           plain == VariantItems(url, other, c, None)
<1>1. ASSUME NEW u, x \in StaticItems(u, content, c, encoding),
             StaticItems(u, content, c, encoding) \subseteq all, StaticItems(u, other, c, None) \subseteq plain
      PROVE  /\ x.path.exact \in BOOLEAN /\ x.path = [exact |-> x.path.exact, url |-> x.path.url]
             /\ x.response.content = content /\ x.response.encoding = encoding
             /\ Plain(plain, x) /\ Whole(all, x) /\ AllChunks(all, x)
  <2>1. /\ x.path = [exact |-> TRUE, url |-> u]
        /\ x.response.content = content /\ x.response.encoding = encoding
        /\ Whole(StaticItems(u, content, c, encoding), x)
        /\ AllChunks(StaticItems(u, content, c, encoding), x)
    BY <1>1, StaticLemma
  <2> DEFINE y == PrepareStatic(u, other, c, None, None)
  <2>2. y \in StaticItems(u, other, c, None)
    BY DEF StaticItems
  <2>3. y.path = x.path /\ KeyOf(y) = Key(x.path.url, None, None)
    BY <2>1 DEF PrepareStatic, PrepareResponse, KeyOf
  <2> HIDE DEF all, plain, y
  <2>4. Plain(plain, x)
    BY <1>1, <2>2, <2>3 DEF Plain
  <2>5. Whole(all, x) /\ AllChunks(all, x)
    BY <1>1, <2>1 DEF Whole, AllChunks
  <2>6. x.path.exact \in BOOLEAN /\ x.path = [exact |-> x.path.exact, url |-> x.path.url]
    BY <2>1
  <2> QED
    BY <2>1, <2>4, <2>5, <2>6
<1>2. CASE x \in StaticItems(url, content, c, encoding)
  <2>1. StaticItems(url, content, c, encoding) \subseteq all /\ StaticItems(url, other, c, None) \subseteq plain
    BY DEF VariantItems
  <2> QED
    BY <1>1, <1>2, <2>1
<1>3. CASE \E alias \in ToSet(c.aliases) : x \in StaticItems(alias, content, c, encoding)
  <2>1. PICK alias \in ToSet(c.aliases) : x \in StaticItems(alias, content, c, encoding)
    BY <1>3
  <2>2. StaticItems(alias, content, c, encoding) \subseteq all /\ StaticItems(alias, other, c, None) \subseteq plain
    BY DEF VariantItems
  <2> QED
    BY <1>1, <2>1, <2>2
<1>4. CASE \E f \in ToSet(c.fallbacks) : x = PrepareFallback(f, content, c, encoding)
  <2>1. PICK f \in ToSet(c.fallbacks) : x = PrepareFallback(f, content, c, encoding)
    BY <1>4
  <2> DEFINE y == PrepareFallback(f, other, c, None)
  <2>2. y \in plain
    BY DEF VariantItems
  <2>3. /\ x.path = [exact |-> FALSE, url |-> f.scope]
        /\ x.response.content = content /\ x.response.encoding = encoding
        /\ y.path = [exact |-> FALSE, url |-> f.scope] /\ KeyOf(y) = Key(f.scope, None, None)
    BY <2>1, FallbackLemma
  <2> HIDE DEF all, plain, y
  <2>4. Plain(plain, x)
    BY <2>2, <2>3 DEF Plain
  <2> QED
    BY <2>3, <2>4 DEF Whole, AllChunks, all, plain
<1> QED
  BY <1>2, <1>3, <1>4 DEF VariantItems

LEMMA ConfigLemma ==
  ASSUME NEW batch \in Batches, NEW asset, NEW e \in ToSet(ConfigFor(asset, batch).encodings)
  PROVE  e.encoding \in AssetEncodings
<1> DEFINE I == {i \in 1 .. Len(batch.configs) : Matches(batch.configs[i], asset.path)}
           c == ConfigFor(asset, batch)
<1>1. c = LET i == IF I # {} THEN CHOOSE x \in I : \A y \in I : x =< y ELSE 0
          IN  IF i = 0 THEN NoConfig ELSE batch.configs[i]
  BY DEF ConfigFor, SelectInSeq, Min
<1>2. Len(batch.configs) \in Nat /\ DOMAIN batch.configs = 1 .. Len(batch.configs)
  BY BatchAssumption
<1>3. CASE I # {}
  <2>1. I \in SUBSET Nat
    BY <1>2
  <2>2. \A i \in I : i \in DOMAIN batch.configs /\ i # 0 /\ Matches(batch.configs[i], asset.path)
    BY <1>2
  <2> HIDE DEF I
  <2>3. PICK i \in I : c = batch.configs[i]
    <3>1. \E x \in I : \A y \in I : x =< y
      BY <1>3, <2>1, SmallestExists
    <3> QED
      BY <1>1, <1>3, <2>2, <3>1
  <2>4. c.kind # "Redirect"
    BY <2>2, <2>3 DEF Matches
  <2>5. \A n \in DOMAIN c.encodings : c.encodings[n].encoding \in AssetEncodings
    BY <2>2, <2>3, <2>4, BatchAssumption
  <2> QED
    BY <2>5 DEF ToSet, c
<1>4. CASE I = {}
  <2>1. c.encodings = <<>>
    BY <1>1, <1>4 DEF NoConfig
  <2>2. DOMAIN c.encodings = {}
    BY <2>1
  <2> QED
    BY <2>2 DEF ToSet, c
<1> QED
  BY <1>3, <1>4

LEMMA AssetItemsLemma ==
  ASSUME NEW batch \in Batches, NEW asset \in batch.assets, NEW x \in AssetItems(asset, batch)
  PROVE  /\ Shaped(x)
         /\ Plain(AssetItems(asset, batch), x)
         /\ Whole(AssetItems(asset, batch), x)
         /\ AllChunks(AssetItems(asset, batch), x)
<1> DEFINE all == AssetItems(asset, batch)
           c   == ConfigFor(asset, batch)
           url == PathToUrl(asset.path)
           plain == VariantItems(url, asset.content, c, None)
<1>1. plain \subseteq all
  BY DEF AssetItems
<1>2. \E a \in batch.assets, encoding \in AssetEncodings \cup {None} :
        /\ x \in VariantItems(url, a.content, c, encoding)
        /\ VariantItems(url, a.content, c, encoding) \subseteq all
  <2>1. CASE x \in plain
    BY <1>1, <2>1
  <2>2. CASE x \notin plain
    <3>1. PICK e \in ToSet(c.encodings), a \in batch.assets :
            /\ x \in VariantItems(url, a.content, c, e.encoding)
            /\ a.path = WithPostfix(asset.path, e.postfix)
      BY <2>2 DEF AssetItems
    <3>2. VariantItems(url, a.content, c, e.encoding) \subseteq all
      BY <3>1 DEF AssetItems
    <3>3. e.encoding \in AssetEncodings
      BY ConfigLemma
    <3> QED
      BY <3>1, <3>2, <3>3
  <2> QED
    BY <2>1, <2>2
<1>3. PICK a \in batch.assets, encoding \in AssetEncodings \cup {None} :
        /\ x \in VariantItems(url, a.content, c, encoding)
        /\ VariantItems(url, a.content, c, encoding) \subseteq all
  BY <1>2
<1> HIDE DEF all, c, url, plain
<1>4. /\ x.path.exact \in BOOLEAN /\ x.path = [exact |-> x.path.exact, url |-> x.path.url]
      /\ x.response.content = a.content /\ x.response.encoding = encoding
      /\ Plain(VariantItems(url, asset.content, c, None), x)
      /\ Whole(VariantItems(url, a.content, c, encoding), x)
      /\ AllChunks(VariantItems(url, a.content, c, encoding), x)
  BY <1>3, VariantLemma
<1>5. Plain(all, x)
  BY <1>1, <1>4 DEF Plain, plain
<1>6. Whole(all, x)
  BY <1>3, <1>4 DEF Whole
<1>7. AllChunks(all, x)
  BY <1>3, <1>4 DEF AllChunks
<1>8. Chunks(a.content) \in Nat /\ \A k \in 0 .. Chunks(a.content) : ChunkRange(k) # None
  BY BatchAssumption, RequestAssumption
<1>9. Shaped(x)
  BY <1>4, <1>8 DEF Shaped
<1> QED
  BY <1>5, <1>6, <1>7, <1>9 DEF all

\* What a call prepares is whole, as far as it gets.
LEMMA WorkIsWhole ==
  ASSUME NEW batch \in Batches, NEW items \in Preparations(batch), NEW x \in items
  PROVE  Shaped(x) /\ Plain(items, x) /\ Whole(items, x) /\ AllChunks(items, x)
<1>1. PICK order \in Orders(batch.assets) : items = {w[2] : w \in Work(batch, order)}
  BY DEF Preparations
<1>2. PICK w \in Work(batch, order) : x = w[2]
  BY <1>1
<1>3. CASE \E a \in ReachedAssets(batch, order) : w \in {order[a]} \X AssetItems(a, batch)
  <2>1. PICK a \in ReachedAssets(batch, order) : w \in {order[a]} \X AssetItems(a, batch)
    BY <1>3
  <2>2. AssetItems(a, batch) \subseteq items
    <3>1. \A y \in AssetItems(a, batch) : <<order[a], y>> \in Work(batch, order)
      BY DEF Work
    <3>2. \A y \in AssetItems(a, batch) : <<order[a], y>>[2] = y
      OBVIOUS
    <3> QED
      BY <1>1, <3>1, <3>2
  <2>3. a \in batch.assets
    BY DEF ReachedAssets
  <2>4. /\ Shaped(x)
        /\ Plain(AssetItems(a, batch), x) /\ Whole(AssetItems(a, batch), x) /\ AllChunks(AssetItems(a, batch), x)
    BY <1>2, <2>1, <2>3, AssetItemsLemma
  <2>5. Plain(items, x)
    BY <2>2, <2>4 DEF Plain
  <2>6. Whole(items, x)
    BY <2>2, <2>4 DEF Whole
  <2>7. AllChunks(items, x)
    BY <2>2, <2>4 DEF AllChunks
  <2> QED
    BY <2>4, <2>5, <2>6, <2>7
<1>4. CASE \E i : w[2] = PrepareRedirect(batch.configs[i])
  <2>1. PICK i : x = PrepareRedirect(batch.configs[i])
    BY <1>2, <1>4
  <2>2. /\ x.path = [exact |-> TRUE, url |-> batch.configs[i].from]
        /\ x.response.content = None /\ x.response.encoding = None /\ x.response.range = None
    BY <2>1 DEF PrepareRedirect, PrepareResponse
  <2>3. x \in items /\ KeyOf(x) = Key(x.path.url, None, None)
    BY <2>2 DEF KeyOf
  <2>4. Plain(items, x) /\ Whole(items, x)
    BY <2>2, <2>3 DEF Plain, Whole
  <2> QED
    BY <2>2, <2>4 DEF Shaped, AllChunks, BodyIsLarge, IsLarge
<1> QED
  BY <1>2, <1>3, <1>4 DEF Work, Redirects

\* The same of all that is ever prepared.
LEMMA AllItemsWhole ==
  \A x \in AllItems : Shaped(x) /\ AllChunks(AllItems, x)
<1> SUFFICES ASSUME NEW x \in AllItems
             PROVE  Shaped(x) /\ AllChunks(AllItems, x)
  OBVIOUS
<1>1. PICK batch \in Batches : \E items \in Preparations(batch) : x \in items
  BY DEF AllItems, ItemsOf, Preparations
<1> PICK items \in Preparations(batch) : x \in items
  BY <1>1
<1>2. items \subseteq AllItems
  BY DEF AllItems, ItemsOf, Preparations
<1>3. Shaped(x) /\ AllChunks(items, x)
  BY WorkIsWhole
<1> QED
  BY <1>2, <1>3 DEF AllChunks

-----------------------------------------------------------------------------
(***************************************************************************)
(* The tables: the responses for a place come and go together.             *)
(***************************************************************************)
\* Paths that are spelt as in the tree name a place each.
LEMMA SpeltOnce ==
  ASSUME WellSpelt
  PROVE  NoAliases
<1> SUFFICES ASSUME NEW x \in AllItems, NEW y \in AllItems, Place(x.path) = Place(y.path)
             PROVE  x.path = y.path
  BY DEF NoAliases
<1>1. Segments(x.path.url) = Segments(y.path.url) /\ x.path.exact = y.path.exact
  BY DEF Place
<1>2. Spelt(x.path.url) /\ Spelt(y.path.url)
  BY DEF WellSpelt
<1>3. x.path.url = y.path.url
  BY <1>1, <1>2 DEF Spelt
<1> QED
  BY <1>1, <1>3, AllItemsWhole DEF Shaped

\* A deletion leaves all the responses for a place or none.
KeepsPlaces ==
  /\ \A k \in DOMAIN responses', l \in DOMAIN responses : k.path = l.path => l \in DOMAIN responses'
  /\ \A k \in DOMAIN fallback_responses', l \in DOMAIN fallback_responses :
       k.path = l.path => l \in DOMAIN fallback_responses'

LEMMA KeyFields ==
  \A path, encoding, range :
    LET k == Key(path, encoding, range)
    IN  k.path = path /\ k.encoding = encoding /\ k.range = range
BY DEF Key

LEMMA DeleteKeepsPlaces ==
  ASSUME NoAliases, DeletedWhole, TypeOK, Known, NEW batch \in DeleteBatches, DeleteAssets(batch)
  PROVE  KeepsPlaces
<1>1. PICK items \in Preparations(batch) : items \subseteq AllItems /\ Deletes(items)
  BY DeleteLemma DEF Batches
<1>2. /\ DOMAIN responses' = {k \in DOMAIN responses : \A y \in items : y.path.exact => k # KeyOf(y)}
      /\ DOMAIN fallback_responses' =
           {k \in DOMAIN fallback_responses : \A y \in items : ~y.path.exact => k # KeyOf(y)}
  BY <1>1 DEF Deletes
<1>3. ASSUME NEW x \in AllItems, NEW y \in items, x.path.exact = y.path.exact, x.path.url = y.path.url
      PROVE  \E z \in items : z.path = x.path /\ KeyOf(z) = KeyOf(x)
  <2>1. Place(x.path) = Place(y.path)
    BY <1>3 DEF Place
  <2>2. x.path = y.path
    BY <1>1, <2>1 DEF NoAliases
  <2>3. PICK order \in Orders(batch.assets) : items = {w[2] : w \in Work(batch, order)}
    BY DEF Preparations
  <2> QED
    BY <2>2, <2>3 DEF DeletedWhole
<1>4. \A y \in AllItems : y.path.exact \in BOOLEAN /\ KeyOf(y).path = y.path.url
  <2>1. \A y \in AllItems : y.path.exact \in BOOLEAN
    BY AllItemsWhole DEF Shaped
  <2>2. \A y \in AllItems : KeyOf(y).path = y.path.url
    BY KeyFields DEF KeyOf
  <2> QED
    BY <2>1, <2>2
<1>5. ASSUME NEW k \in DOMAIN responses', NEW l \in DOMAIN responses, k.path = l.path
      PROVE  l \in DOMAIN responses'
  <2>1. SUFFICES ASSUME l \notin DOMAIN responses'
                 PROVE  FALSE
    OBVIOUS
  <2>2. PICK y \in items : y.path.exact /\ l = KeyOf(y)
    BY <1>2, <2>1
  <2>3. k \in DOMAIN responses
    BY <1>2
  <2> DEFINE x == responses[k]
  <2>4. x \in AllItems /\ KeyOf(x) = k /\ x.path.exact
    BY <2>3 DEF TypeOK, Known, Items
  <2>5. x.path.exact = y.path.exact /\ x.path.url = y.path.url
    BY <1>1, <1>4, <1>5, <2>2, <2>4
  <2>6. PICK z \in items : z.path = x.path /\ KeyOf(z) = KeyOf(x)
    BY <1>3, <2>4, <2>5
  <2> QED
    BY <1>2, <2>4, <2>6
<1>6. ASSUME NEW k \in DOMAIN fallback_responses', NEW l \in DOMAIN fallback_responses, k.path = l.path
      PROVE  l \in DOMAIN fallback_responses'
  <2>1. SUFFICES ASSUME l \notin DOMAIN fallback_responses'
                 PROVE  FALSE
    OBVIOUS
  <2>2. PICK y \in items : ~y.path.exact /\ l = KeyOf(y)
    BY <1>2, <2>1
  <2>3. k \in DOMAIN fallback_responses
    BY <1>2
  <2> DEFINE x == fallback_responses[k]
  <2>4. x \in AllItems /\ KeyOf(x) = k /\ ~x.path.exact
    BY <2>3 DEF TypeOK, Known, Items
  <2>5. x.path.exact = y.path.exact /\ x.path.url = y.path.url
    BY <1>1, <1>4, <1>6, <2>2, <2>4
  <2>6. PICK z \in items : z.path = x.path /\ KeyOf(z) = KeyOf(x)
    BY <1>3, <2>4, <2>5
  <2> QED
    BY <1>2, <2>4, <2>6
<1> QED
  BY <1>5, <1>6 DEF KeepsPlaces

LEMMA ByPathKeepsPlaces ==
  ASSUME PlainByPath, TypeOK, Known,
         \/ \E paths \in AssetPaths : DeleteAssetsByPath(paths)
         \/ \E paths \in FallbackPaths : DeleteFallbackAssetsByPath(paths)
  PROVE  KeepsPlaces
<1>1. ASSUME NEW paths \in AssetPaths, DeleteAssetsByPath(paths) PROVE KeepsPlaces
  <2>1. /\ fallback_responses' = fallback_responses
        /\ DOMAIN responses' = DOMAIN responses \ {Key(p, None, None) : p \in paths}
    BY <1>1, WithoutLemma DEF DeleteAssetsByPath
  <2>2. ASSUME NEW k \in DOMAIN responses', NEW l \in DOMAIN responses, k.path = l.path
        PROVE  l \in DOMAIN responses'
    <3>1. SUFFICES ASSUME NEW p \in paths, l = Key(p, None, None)
                   PROVE  FALSE
      BY <2>1
    <3> DEFINE x == responses[k]
    <3>2. x \in AllItems /\ KeyOf(x) = k /\ x.path.exact
      BY <2>1 DEF TypeOK, Known, Items
    <3>3. x.path.exact = TRUE /\ x.path.url = p
      BY <2>2, <3>1, <3>2, AllItemsWhole, KeyFields DEF Shaped, KeyOf
    <3>4. Place(x.path) = Place([exact |-> x.path.exact, url |-> p])
      BY <3>3 DEF Place
    <3>5. KeyOf(x) = Key(p, None, None)
      <4>1. p \in UNION (IF x.path.exact THEN AssetPaths ELSE FallbackPaths)
        BY <3>3
      <4> QED
        BY <3>2, <3>4, <4>1 DEF PlainByPath
    <3> QED
      BY <2>1, <3>2, <3>5
  <2> QED
    BY <2>1, <2>2 DEF KeepsPlaces
<1>2. ASSUME NEW paths \in FallbackPaths, DeleteFallbackAssetsByPath(paths) PROVE KeepsPlaces
  <2>1. /\ responses' = responses
        /\ DOMAIN fallback_responses' = DOMAIN fallback_responses \ {Key(p, None, None) : p \in paths}
    BY <1>2, WithoutLemma DEF DeleteFallbackAssetsByPath
  <2>2. ASSUME NEW k \in DOMAIN fallback_responses', NEW l \in DOMAIN fallback_responses, k.path = l.path
        PROVE  l \in DOMAIN fallback_responses'
    <3>1. SUFFICES ASSUME NEW p \in paths, l = Key(p, None, None)
                   PROVE  FALSE
      BY <2>1
    <3> DEFINE x == fallback_responses[k]
    <3>2. x \in AllItems /\ KeyOf(x) = k /\ ~x.path.exact
      BY <2>1 DEF TypeOK, Known, Items
    <3>3. x.path.exact = FALSE /\ x.path.url = p
      BY <2>2, <3>1, <3>2, AllItemsWhole, KeyFields DEF Shaped, KeyOf
    <3>4. Place(x.path) = Place([exact |-> x.path.exact, url |-> p])
      BY <3>3 DEF Place
    <3>5. KeyOf(x) = Key(p, None, None)
      <4>1. p \in UNION (IF x.path.exact THEN AssetPaths ELSE FallbackPaths)
        BY <3>3
      <4> QED
        BY <3>2, <3>4, <4>1 DEF PlainByPath
    <3> QED
      BY <2>1, <3>2, <3>5
  <2> QED
    BY <2>1, <2>2 DEF KeepsPlaces
<1> QED
  BY <1>1, <1>2

LEMMA WholeStep ==
  ASSUME NoAliases, PlainByPath, DeletedWhole, TypeOK, Known, WholeAssets, [Next]_vars
  PROVE  WholeAssets'
<1>1. ASSUME NEW batch \in CertifyBatches, CertifyAssets(batch) PROVE WholeAssets'
  <2>1. PICK order \in Orders(batch.assets) :
          /\ \A k \in DOMAIN responses' :
               \/ k \in DOMAIN responses /\ responses'[k] = responses[k]
               \/ \E w \in Work(batch, order) :
                    responses'[k] = w[2] /\ k = KeyOf(w[2]) /\ w[2].path.exact
          /\ \A k \in DOMAIN fallback_responses' :
               \/ k \in DOMAIN fallback_responses
               \/ \E w \in Work(batch, order) : k = KeyOf(w[2]) /\ ~w[2].path.exact
          /\ DOMAIN responses \subseteq DOMAIN responses'
          /\ DOMAIN fallback_responses \subseteq DOMAIN fallback_responses'
          /\ \A w \in Work(batch, order) :
               KeyOf(w[2]) \in IF w[2].path.exact THEN DOMAIN responses' ELSE DOMAIN fallback_responses'
    BY <1>1, CertifyGrows DEF Grows
  <2> DEFINE items == {w[2] : w \in Work(batch, order)}
  <2>2. /\ \A k \in DOMAIN responses' :
             \/ k \in DOMAIN responses /\ responses'[k] = responses[k]
             \/ \E x \in items : responses'[k] = x /\ k = KeyOf(x) /\ x.path.exact
        /\ \A k \in DOMAIN fallback_responses' :
             \/ k \in DOMAIN fallback_responses
             \/ \E x \in items : k = KeyOf(x) /\ ~x.path.exact
        /\ \A x \in items : x.path.exact => KeyOf(x) \in DOMAIN responses'
        /\ \A x \in items : ~x.path.exact => KeyOf(x) \in DOMAIN fallback_responses'
    BY <2>1
  <2>3. \A x \in items : Plain(items, x) /\ Whole(items, x) /\ AllChunks(items, x)
    <3>1. items \in Preparations(batch)
      BY DEF Preparations
    <3> HIDE DEF items
    <3> QED
      BY <3>1, WorkIsWhole DEF Batches
  <2> HIDE DEF items
  <2>4. \A x \in items : KeyOf(x).path = x.path.url /\ KeyOf(x).encoding = x.response.encoding
    BY KeyFields DEF KeyOf
  <2>5. ASSUME NEW k \in DOMAIN responses'
        PROVE  Key(k.path, None, None) \in DOMAIN responses'
    BY <2>1, <2>2, <2>3, <2>4 DEF WholeAssets, Has, Plain
  <2>6. ASSUME NEW k \in DOMAIN fallback_responses'
        PROVE  Key(k.path, None, None) \in DOMAIN fallback_responses'
    BY <2>1, <2>2, <2>3, <2>4 DEF WholeAssets, Has, Plain
  <2>7. ASSUME NEW k \in DOMAIN responses'
        PROVE  Key(k.path, k.encoding, None) \in DOMAIN responses'
    BY <2>1, <2>2, <2>3, <2>4 DEF WholeAssets, Has, Whole
  <2>8. ASSUME NEW k \in DOMAIN responses', BodyIsLarge(responses'[k]),
               NEW r \in 0 .. Chunks(responses'[k].response.content) - 1
        PROVE  Key(k.path, k.encoding, r) \in DOMAIN responses'
    <3>1. CASE k \in DOMAIN responses /\ responses'[k] = responses[k]
      BY <2>1, <2>8, <3>1 DEF WholeAssets, Has
    <3>2. ASSUME NEW x \in items, responses'[k] = x, k = KeyOf(x), x.path.exact
          PROVE  Key(k.path, k.encoding, r) \in DOMAIN responses'
      <4>1. Chunk(x, r) \in items
        BY <2>3, <2>8, <3>2 DEF AllChunks
      <4>2. Chunk(x, r).path = x.path /\ KeyOf(Chunk(x, r)) = Key(x.path.url, x.response.encoding, r)
        BY DEF Chunk, KeyOf, PrepareResponse
      <4> QED
        BY <2>2, <2>4, <3>2, <4>1, <4>2
    <3> QED
      BY <2>2, <3>1, <3>2
  <2> QED
    BY <2>5, <2>6, <2>7, <2>8 DEF WholeAssets, Has
<1>2. ASSUME KeepsPlaces, Shrinks PROVE WholeAssets'
  <2>1. /\ \A k \in DOMAIN responses' : k \in DOMAIN responses /\ responses'[k] = responses[k]
        /\ \A k \in DOMAIN fallback_responses' : k \in DOMAIN fallback_responses
    BY <1>2 DEF Shrinks, Within
  <2>2. /\ \A k \in DOMAIN responses' : \A encoding, range :
             Has(responses, k.path, encoding, range) => Has(responses', k.path, encoding, range)
        /\ \A k \in DOMAIN fallback_responses' : \A encoding, range :
             Has(fallback_responses, k.path, encoding, range)
               => Has(fallback_responses', k.path, encoding, range)
    BY <1>2, KeyFields DEF KeepsPlaces, Has
  <2> QED
    BY <2>1, <2>2 DEF WholeAssets
<1>3. CASE \E batch \in DeleteBatches : DeleteAssets(batch)
  BY <1>2, <1>3, OthersShrink, DeleteKeepsPlaces
<1>4. CASE \/ \E paths \in AssetPaths : DeleteAssetsByPath(paths)
           \/ \E paths \in FallbackPaths : DeleteFallbackAssetsByPath(paths)
  BY <1>2, <1>4, OthersShrink, ByPathKeepsPlaces
<1>5. CASE DeleteAllAssets
  <2>1. DOMAIN responses' = {} /\ DOMAIN fallback_responses' = {}
    BY <1>5 DEF DeleteAllAssets
  <2> QED
    BY <2>1 DEF WholeAssets
<1>6. CASE UNCHANGED <<responses, fallback_responses>>
  BY <1>6 DEF WholeAssets
<1> QED
  BY <1>1, <1>3, <1>4, <1>5, <1>6 DEF Next, vars, CertifyOther

\* The responses for a place are all there or none is, where each place is spelt in
\* one way, what is deleted by path has no encodings and a deletion by configuration
\* is of the whole asset.
THEOREM AssetsAreWhole ==
  ASSUME WellSpelt, PlainByPath, DeletedWhole
  PROVE  Spec => [](TypeOK /\ Known /\ WholeAssets)
<1>1. Init => Known /\ WholeAssets
  BY DEF Init, Known, Items, WholeAssets
<1>2. TypeOK /\ Known /\ WholeAssets /\ [Next]_vars => Known' /\ WholeAssets'
  BY SpeltOnce, KnownStep, WholeStep
<1> QED
  BY <1>1, <1>2, TypeCorrect, PTL DEF Spec

-----------------------------------------------------------------------------
(***************************************************************************)
(* The scopes that serve_asset tries, one after another.                   *)
(***************************************************************************)
\* The jth directory above a URL path with a slash at the end and without.
LEMMA ScopesLemma ==
  ASSUME NEW S, DirSeparator \in S, NEW url \in Seq(S), Len(url) > 0
  PROVE  /\ Len(Scopes(url)) = 2 * (Len(url) - 1)
         /\ \A j \in 1 .. Len(url) - 1 :
              LET slashed == Scopes(url)[2 * j - 1]
                  bare    == Scopes(url)[2 * j]
              IN  /\ slashed \in Seq(S) /\ Len(slashed) = Len(url) - j + 1
                  /\ slashed[Len(url) - j + 1] = DirSeparator
                  /\ \A l \in 1 .. Len(url) - j : slashed[l] = url[l]
                  /\ bare \in Seq(S) /\ Len(bare) = Len(url) - j
                  /\ \A l \in 1 .. Len(url) - j : bare[l] = url[l]
<1> DEFINE n == Len(url)
           scopes == Scopes(url)
<1>1. n \in Nat /\ n > 0 /\ \A l \in 1 .. n : url[l] \in S
  BY LenProperties
<1>2. scopes = [i \in 1 .. 2 * (n - 1) |->
                  LET directory == SubSeq(url, 1, n - (i + 1) \div 2)
                  IN  IF i % 2 = 1 THEN Append(directory, DirSeparator) ELSE directory]
  BY DEF Scopes
<1> HIDE DEF n, scopes
<1>3. Len(scopes) = 2 * (n - 1)
  BY <1>1, <1>2
<1>4. ASSUME NEW j \in 1 .. n - 1
      PROVE  LET slashed == scopes[2 * j - 1]
                 bare    == scopes[2 * j]
             IN  /\ slashed \in Seq(S) /\ Len(slashed) = n - j + 1
                 /\ slashed[n - j + 1] = DirSeparator
                 /\ \A l \in 1 .. n - j : slashed[l] = url[l]
                 /\ bare \in Seq(S) /\ Len(bare) = n - j
                 /\ \A l \in 1 .. n - j : bare[l] = url[l]
  <2> DEFINE d == SubSeq(url, 1, n - j)
             a == 2 * j - 1
             b == 2 * j
  <2>1. /\ a \in 1 .. 2 * (n - 1) /\ (a + 1) \div 2 = j /\ a % 2 = 1
        /\ b \in 1 .. 2 * (n - 1) /\ (b + 1) \div 2 = j /\ b % 2 = 0
    BY <1>1
  <2> HIDE DEF a, b
  <2>2. scopes[a] = Append(d, DirSeparator) /\ scopes[b] = d
    <3>1. /\ scopes[a] = IF a % 2 = 1 THEN Append(SubSeq(url, 1, n - (a + 1) \div 2), DirSeparator)
                         ELSE SubSeq(url, 1, n - (a + 1) \div 2)
          /\ scopes[b] = IF b % 2 = 1 THEN Append(SubSeq(url, 1, n - (b + 1) \div 2), DirSeparator)
                         ELSE SubSeq(url, 1, n - (b + 1) \div 2)
      BY <1>2, <2>1, Zenon
    <3> HIDE DEF d
    <3>2. SubSeq(url, 1, n - (a + 1) \div 2) = d /\ SubSeq(url, 1, n - (b + 1) \div 2) = d
      BY <2>1, Zenon DEF d
    <3>3. a % 2 = 1 /\ ~ (b % 2 = 1)
      BY <2>1
    <3> QED
      BY <3>1, <3>2, <3>3, Zenon
  <2>3. d \in Seq(S) /\ Len(d) = n - j /\ \A l \in 1 .. n - j : d[l] = url[l]
    <3>1. \A l \in 1 .. n - j : url[l] \in S
      BY <1>1
    <3>2. /\ d \in Seq(S)
          /\ Len(d) = IF 1 <= n - j THEN n - j - 1 + 1 ELSE 0
          /\ \A l \in 1 .. n - j - 1 + 1 : d[l] = url[1 + l - 1]
      BY <1>1, <3>1, SubSeqProperties
    <3> QED
      BY <1>1, <3>2
  <2> HIDE DEF d
  <2>4. /\ Append(d, DirSeparator) \in Seq(S)
        /\ Len(Append(d, DirSeparator)) = Len(d) + 1
        /\ \A l \in 1 .. Len(d) : Append(d, DirSeparator)[l] = d[l]
        /\ Append(d, DirSeparator)[Len(d) + 1] = DirSeparator
    BY <2>3, AppendProperties
  <2> QED
    BY <2>2, <2>3, <2>4 DEF a, b
<1> QED
  BY <1>3, <1>4 DEF n, scopes

\* Every scope but the URL path itself that covers a request is tried, and they are tried
\* in the order of how specific they are.
LEMMA ScopeRank ==
  ASSUME NEW S, DirSeparator \in S, NEW url \in Seq(S), Spelt(url),
         NEW i \in 1 .. 2 * (Len(url) - 1), Spelt(Scopes(url)[i])
  PROVE  LET w == Segments(Scopes(url)[i])
         IN  /\ w \in Covering(S, Segments(url))
             /\ Rank(w) = 2 * (Len(url) - 1) - i
             /\ Len(w) <= Len(Segments(url))
<1> DEFINE n == Len(url)
           t == Segments(url)
           m == Len(t)
           scope == Scopes(url)[i]
           w == Segments(scope)
<1>1. /\ t \in Tidy(S) /\ t \in Seq(S) /\ m \in Nat /\ n = m + 1 /\ url[1] = DirSeparator
      /\ \A l \in 1 .. m : url[l + 1] = t[l]
  BY SpeltLemma
<1>2. PICK j \in 1 .. m : i = 2 * j - 1 \/ i = 2 * j
  <2>1. i \in 1 .. 2 * m
    BY <1>1
  <2>2. (i + 1) \div 2 \in 1 .. m /\ (i = 2 * ((i + 1) \div 2) - 1 \/ i = 2 * ((i + 1) \div 2))
    BY <1>1, <2>1
  <2> QED
    BY <2>2
<1>3. \A l \in 1 .. m : t[l] = DirSeparator => l = m
  BY <1>1 DEF Tidy
<1>4. /\ Len(Names(t)) \in Nat /\ m = Len(Names(t)) + (IF IsDirectory(t) THEN 1 ELSE 0)
      /\ IsDirectory(t) \in BOOLEAN
  <2>1. IsDirectory(t) \in BOOLEAN
    BY DEF IsDirectory, EndsWith
  <2> QED
    BY <1>1, <2>1, NamesLemma
<1>5. /\ i = 2 * j - 1 => /\ scope \in Seq(S) /\ Len(scope) = n - j + 1
                          /\ scope[n - j + 1] = DirSeparator
      /\ i = 2 * j => scope \in Seq(S) /\ Len(scope) = n - j
      /\ \A l \in 1 .. n - j : scope[l] = url[l]
  <2>1. Len(url) > 0 /\ j \in 1 .. Len(url) - 1
    BY <1>1, <1>2
  <2>2. LET slashed == Scopes(url)[2 * j - 1]
            bare    == Scopes(url)[2 * j]
        IN  /\ slashed \in Seq(S) /\ Len(slashed) = Len(url) - j + 1
            /\ slashed[Len(url) - j + 1] = DirSeparator
            /\ \A l \in 1 .. Len(url) - j : slashed[l] = url[l]
            /\ bare \in Seq(S) /\ Len(bare) = Len(url) - j
            /\ \A l \in 1 .. Len(url) - j : bare[l] = url[l]
    BY <2>1, ScopesLemma
  <2>3. CASE i = 2 * j - 1
    <3>1. i # 2 * j
      BY <1>2, <2>3
    <3> QED
      BY <2>2, <2>3, <3>1
  <2>4. CASE i = 2 * j
    <3>1. i # 2 * j - 1
      BY <1>2, <2>4
    <3> QED
      BY <2>2, <2>4, <3>1
  <2> QED
    BY <1>2, <2>3, <2>4
<1>6. /\ w \in Tidy(S) /\ w \in Seq(S) /\ Len(w) \in Nat /\ Len(scope) = Len(w) + 1
      /\ \A l \in 1 .. Len(w) : scope[l + 1] = w[l]
  BY <1>2, <1>5, SpeltLemma
<1> HIDE DEF n, t, scope, w
<1>7. \A l \in 1 .. m - j : w[l] = t[l] /\ w[l] # DirSeparator
  <2> DEFINE k == Len(w)
  <2>1. k = m - j \/ k = m - j + 1
    <3>1. Len(scope) = n - j + 1 \/ Len(scope) = n - j
      BY ONLY <1>2, <1>5
    <3>2. Len(scope) = k + 1 /\ k \in Nat
      BY <1>6
    <3>3. n = m + 1 /\ m \in Nat /\ j \in Nat
      BY <1>1, <1>2
    <3> HIDE DEF k, m
    <3> QED
      BY ONLY <3>1, <3>2, <3>3
  <2> HIDE DEF k, m
  <2> TAKE l \in 1 .. m - j
  <2>2. l \in 1 .. k /\ l + 1 \in 1 .. n - j /\ l \in 1 .. m /\ l # m
    BY <1>1, <1>2, <2>1
  <2>3. w[l] = scope[l + 1] /\ scope[l + 1] = url[l + 1] /\ url[l + 1] = t[l]
    BY <1>1, <1>5, <1>6, <2>2 DEF k
  <2> QED
    BY <1>3, <2>2, <2>3
<1>8. CASE i = 2 * j - 1
  <2>1. Len(w) = m - j + 1 /\ Len(w) > 0
    <3>1. Len(scope) = n - j + 1 /\ Len(scope) = Len(w) + 1 /\ Len(w) \in Nat /\ n = m + 1 /\ m \in Nat
      BY <1>1, <1>5, <1>6, <1>8
    <3> HIDE DEF m
    <3> QED
      BY <1>2, <3>1
  <2>2. w[Len(w)] = DirSeparator
    <3>1. Len(w) \in 1 .. Len(w) /\ Len(w) + 1 = n - j + 1
      BY <1>1, <1>2, <1>6, <2>1
    <3> QED
      BY <1>5, <1>6, <1>8, <3>1
  <2>3. IsDirectory(w) /\ Len(Names(w)) = m - j
    BY <1>1, <1>2, <1>6, <2>1, <2>2, NamesLemma
  <2>4. Covers(w, t)
    <3>1. Len(Names(w)) <= Len(Names(t)) /\ (Len(Names(t)) > Len(Names(w)) \/ IsDirectory(t))
      BY <1>1, <1>2, <1>4, <2>3
    <3>2. \A l \in 1 .. Len(Names(w)) : w[l] = t[l]
      BY <1>7, <2>3
    <3> QED
      BY <1>1, <1>6, <3>1, <3>2, CoversLemma
  <2>5. Rank(w) = 2 * (m - j) + 1
    BY <2>3 DEF Rank
  <2>6. Rank(w) = 2 * (n - 1) - i /\ Len(w) <= m
    BY <1>1, <1>2, <1>8, <2>1, <2>5
  <2> QED
    BY <1>6, <2>4, <2>6 DEF Covering, w, t, n, scope
<1>9. CASE i = 2 * j
  <2>1. Len(w) = m - j
    BY <1>1, <1>2, <1>5, <1>6, <1>9
  <2>2. ~IsDirectory(w) /\ Len(Names(w)) = m - j
    <3>1. IsDirectory(w) => FALSE
      <4>1. IsDirectory(w) => Len(w) > 0 /\ w[Len(w)] = DirSeparator
        BY <1>6, NamesLemma
      <4>2. Len(w) > 0 => w[Len(w)] # DirSeparator
        BY <1>6, <1>7, <2>1
      <4> QED
        BY <4>1, <4>2
    <3>2. Len(w) = Len(Names(w)) + (IF IsDirectory(w) THEN 1 ELSE 0) /\ Len(Names(w)) \in Nat
      BY <1>6, NamesLemma
    <3> QED
      BY <2>1, <3>1, <3>2
  <2>4. Covers(w, t)
    <3>1. Len(Names(w)) <= Len(Names(t))
      BY <1>1, <1>2, <1>4, <2>2
    <3>2. \A l \in 1 .. Len(Names(w)) : w[l] = t[l]
      BY <1>7, <2>2
    <3> QED
      BY <1>1, <1>6, <2>2, <3>1, <3>2, CoversLemma
  <2>5. Rank(w) = 2 * (m - j)
    BY <1>1, <1>2, <2>2 DEF Rank
  <2>6. Rank(w) = 2 * (n - 1) - i /\ Len(w) <= m
    BY <1>1, <1>2, <1>9, <2>1, <2>5
  <2> QED
    BY <1>6, <2>4, <2>6 DEF Covering, w, t, n, scope
<1> QED
  BY <1>2, <1>8, <1>9

LEMMA RankScope ==
  ASSUME NEW S, DirSeparator \in S, NEW url \in Seq(S), Spelt(url),
         NEW u \in Seq(S), Spelt(u), Covers(Segments(u), Segments(url)),
         u # url \/ EndsWithSlash(url)
  PROVE  LET i == 2 * (Len(url) - 1) - Rank(Segments(u))
         IN  i \in 1 .. Len(Scopes(url)) /\ Scopes(url)[i] = u
<1> DEFINE n == Len(url)
           t == Segments(url)
           m == Len(t)
           v == Segments(u)
           k == Len(Names(v))
<1>1. /\ t \in Tidy(S) /\ t \in Seq(S) /\ m \in Nat /\ n = m + 1 /\ url[1] = DirSeparator
      /\ \A l \in 1 .. m : url[l + 1] = t[l]
  BY SpeltLemma
<1>2. /\ v \in Tidy(S) /\ v \in Seq(S) /\ Len(v) \in Nat /\ Len(u) = Len(v) + 1 /\ u[1] = DirSeparator
      /\ \A l \in 1 .. Len(v) : u[l + 1] = v[l]
  BY SpeltLemma
<1>3. /\ Len(Names(t)) \in Nat /\ m = Len(Names(t)) + (IF IsDirectory(t) THEN 1 ELSE 0)
      /\ IsDirectory(t) <=> m > 0 /\ t[m] = DirSeparator
  BY <1>1, NamesLemma
<1>4. /\ k \in Nat /\ Len(v) = k + (IF IsDirectory(v) THEN 1 ELSE 0)
      /\ IsDirectory(v) <=> Len(v) > 0 /\ v[Len(v)] = DirSeparator
  BY <1>2, NamesLemma
<1>5. /\ k <= Len(Names(t))
      /\ \A l \in 1 .. k : v[l] = t[l]
      /\ IsDirectory(v) => Len(Names(t)) > k \/ IsDirectory(t)
  BY <1>1, <1>2, CoversLemma
<1>6. EndsWithSlash(url) <=> IsDirectory(t)
  <2>1. EndsWithSlash(url) <=> n > 1 /\ url[n] = DirSeparator
    BY DEF EndsWithSlash, Last
  <2>2. m > 0 => url[n] = t[m]
    BY <1>1
  <2>3. n > 1 <=> m > 0
    BY <1>1
  <2> HIDE DEF m, n, t
  <2> QED
    BY <1>3, <2>1, <2>2, <2>3
<1> HIDE DEF n, t, v
<1>7. \A l \in 1 .. k : u[l + 1] = url[l + 1]
  <2> TAKE l \in 1 .. k
  <2>1. l \in 1 .. Len(v) /\ l \in 1 .. m
    <3> HIDE DEF k, m
    <3>1. IsDirectory(v) \/ ~IsDirectory(v)
      OBVIOUS
    <3>2. k <= Len(v) /\ k <= m
      BY <1>3, <1>4, <1>5
    <3> QED
      BY <1>1, <1>2, <1>4, <3>2
  <2> QED
    BY <1>1, <1>2, <1>5, <2>1
<1>8. \A l \in 1 .. k + 1 : u[l] = url[l]
  <2> TAKE l \in 1 .. k + 1
  <2>1. CASE l = 1
    BY <1>1, <1>2, <2>1
  <2>2. CASE l # 1
    <3>1. l - 1 \in 1 .. k /\ l - 1 + 1 = l
      BY <1>4, <2>2
    <3> QED
      BY <1>7, <3>1
  <2> QED
    BY <2>1, <2>2
<1>9. Len(url) > 0 /\ Len(Scopes(url)) = 2 * (n - 1) /\ n - 1 = m
  BY <1>1, ScopesLemma DEF n
<1>10. CASE IsDirectory(v)
  <2> DEFINE j == m - k
             scope == Scopes(url)[2 * j - 1]
  <2>1. j \in 1 .. n - 1 /\ n - j = k + 1 /\ Rank(v) = 2 * k + 1 /\ 2 * (n - 1) - Rank(v) = 2 * j - 1
    <3>1. Rank(v) = 2 * k + 1
      BY <1>10 DEF Rank
    <3>2. m > k
      <4> HIDE DEF k, m
      <4> QED
        BY <1>3, <1>4, <1>5, <1>10
    <3>3. n = m + 1 /\ m \in Nat /\ k \in Nat
      BY <1>1, <1>4
    <3> HIDE DEF k, m
    <3> QED
      BY <3>1, <3>2, <3>3
  <2>2. /\ scope \in Seq(S) /\ Len(scope) = n - j + 1 /\ scope[n - j + 1] = DirSeparator
        /\ \A l \in 1 .. n - j : scope[l] = url[l]
    BY <1>9, <2>1, ScopesLemma DEF n
  <2>3. Len(v) = k + 1 /\ v[k + 1] = DirSeparator /\ u[k + 2] = DirSeparator
    <3>1. Len(v) = k + 1 /\ k + 1 \in 1 .. Len(v) /\ k + 1 + 1 = k + 2
      BY <1>4, <1>10
    <3> QED
      BY <1>2, <1>4, <1>10, <3>1
  <2>4. Len(scope) = k + 2 /\ Len(u) = k + 2 /\ scope[k + 2] = DirSeparator
    BY <1>2, <1>4, <2>1, <2>2, <2>3
  <2>5. \A l \in 1 .. k + 2 : scope[l] = u[l]
    <3> TAKE l \in 1 .. k + 2
    <3>1. CASE l = k + 2
      BY <2>3, <2>4, <3>1
    <3>2. CASE l # k + 2
      <4>1. l \in 1 .. k + 1 /\ l \in 1 .. n - j
        BY <1>4, <2>1, <3>2
      <4> QED
        BY <1>8, <2>2, <4>1
    <3> QED
      BY <3>1, <3>2
  <2>6. scope = u
    BY <2>2, <2>4, <2>5, SeqEqual
  <2> QED
    BY <1>1, <1>9, <2>1, <2>6 DEF n, v
<1>11. CASE ~IsDirectory(v)
  <2> DEFINE j == m - k
             scope == Scopes(url)[2 * j]
  <2>1. Rank(v) = 2 * k /\ Len(v) = k
    BY <1>4, <1>11 DEF Rank
  <2>2. Len(u) = k + 1
    BY <1>2, <2>1
  <2>3. m > k
    <3>1. k <= m
      <4> HIDE DEF k, m
      <4> QED
        BY <1>3, <1>4, <1>5
    <3>2. ASSUME m = k PROVE FALSE
      <4>1. Len(u) = n /\ Len(url) = n /\ n = k + 1
        BY <1>1, <2>2, <3>2 DEF n
      <4>2. u = url
        BY <1>8, <4>1, SeqEqual
      <4>3. IsDirectory(t)
        BY <1>6, <4>2
      <4> HIDE DEF k, m
      <4> QED
        BY <1>3, <1>4, <1>5, <3>2, <4>3
    <3> HIDE DEF k, m
    <3> QED
      BY <1>1, <1>4, <3>1, <3>2
  <2>4. j \in 1 .. n - 1 /\ n - j = k + 1 /\ 2 * (n - 1) - Rank(v) = 2 * j
    <3> HIDE DEF k, m
    <3> QED
      BY <1>1, <1>4, <2>1, <2>3
  <2>5. /\ scope \in Seq(S) /\ Len(scope) = n - j
        /\ \A l \in 1 .. n - j : scope[l] = url[l]
    BY <1>9, <2>4, ScopesLemma DEF n
  <2>6. scope = u
    <3>1. Len(scope) = Len(u) /\ Len(u) = k + 1 /\ \A l \in 1 .. k + 1 : scope[l] = u[l]
      BY <1>8, <2>2, <2>4, <2>5
    <3> QED
      BY <2>5, <3>1, SeqEqual
  <2> QED
    BY <1>1, <1>9, <2>4, <2>6 DEF n, v
<1> QED
  BY <1>10, <1>11

-----------------------------------------------------------------------------
(***************************************************************************)
(* The responses that are found.                                           *)
(***************************************************************************)
\* One of the encodings that are found has the greatest quality.
LEMMA BestLemma ==
  ASSUME NEW es, es # {}
  PROVE  BestEncoding(es) \in es /\ \A d \in es : Quality(d) <= Quality(BestEncoding(es))
<1> DEFINE T == {Quality(e) : e \in es}
<1>1. \A e : Quality(e) \in 0 .. 10
  BY DEF Quality
<1>2. T \in SUBSET (0 .. 10) /\ T # {}
  BY <1>1
<1>3. PICK q \in T : \A u \in T : u <= q
  BY <1>2, GreatestExists
<1>4. PICK e \in es : \A d \in es : Quality(d) <= Quality(e)
  BY <1>3
<1> QED
  BY <1>4 DEF BestEncoding

LEMMA RangeLemma ==
  ASSUME NEW q \in Requests
  PROVE  LET p == MaybeGetRangeBegin(q)
         IN  /\ p.url = q.url /\ p.accept = q.accept
             /\ p.range = IF q.range = None THEN None ELSE q.range.parts[1]
BY RequestAssumption DEF MaybeGetRangeBegin

\* What is found under a key is what is kept there, or the first chunk of that.
IsAnswer(x, url, e, r) ==
  /\ x \in Items /\ x.path = [exact |-> TRUE, url |-> url] /\ x.response.encoding = e
  /\ x.response.range \in {r, 0} /\ (r # None => x.response.range = r)

LEMMA FoundLemma ==
  ASSUME TypeOK, Known, WholeAssets, NEW url, NEW e, NEW r, Has(responses, url, e, r)
  PROVE  LET x == WholeOrFirstChunk(responses[Key(url, e, r)], url, e)
         IN  x # None /\ IsAnswer(x, url, e, r)
<1> DEFINE k == Key(url, e, r)
           w == responses[k]
           x == WholeOrFirstChunk(w, url, e)
<1>1. k \in DOMAIN responses /\ w \in Items /\ w \in AllItems
  BY DEF Has, Items, Known
<1>2. KeyOf(w) = k
  BY <1>1 DEF TypeOK
<1>3. w.response.range = r /\ w.response.encoding = e
  BY <1>2 DEF KeyOf, Key
<1>4. \A y \in Items : y # None
  BY NoneAssumption DEF Known
<1>5. \A l \in DOMAIN responses :
        /\ responses[l] \in Items /\ KeyOf(responses[l]) = l
        /\ responses[l].path = [exact |-> TRUE, url |-> l.path]
  <2> TAKE l \in DOMAIN responses
  <2> DEFINE y == responses[l]
  <2>1. y \in Items /\ KeyOf(y) = l /\ y.path.exact
    BY DEF TypeOK, Items
  <2>2. y.path.exact \in BOOLEAN /\ y.path = [exact |-> y.path.exact, url |-> y.path.url]
    BY <2>1, AllItemsWhole DEF Known, Shaped
  <2>3. y.path.url = l.path
    BY <2>1 DEF KeyOf, Key
  <2>4. y.path = [exact |-> TRUE, url |-> l.path]
    BY <2>1, <2>2, <2>3
  <2> QED
    BY <2>1, <2>4
<1>6. CASE BodyIsLarge(w)
  <2>1. r = None
    BY <1>3, <1>6 DEF BodyIsLarge
  <2>2. 0 \in 0 .. Chunks(w.response.content) - 1
    <3>1. w.response.content # None /\ Chunks(w.response.content) > 1
      BY <1>6 DEF BodyIsLarge, IsLarge
    <3>2. Chunks(w.response.content) \in Nat
      BY <1>1, <3>1, AllItemsWhole DEF Shaped
    <3> QED
      BY <3>1, <3>2
  <2>3. Has(responses, k.path, k.encoding, 0) /\ k.path = url /\ k.encoding = e
    BY <1>1, <1>6, <2>2, KeyFields DEF WholeAssets
  <2>4. x = responses[Key(url, e, 0)] /\ Key(url, e, 0) \in DOMAIN responses
    BY <1>6, <2>3 DEF WholeOrFirstChunk, Get, Has
  <2> HIDE DEF x
  <2>5. x \in Items /\ KeyOf(x) = Key(url, e, 0) /\ x.path = [exact |-> TRUE, url |-> url]
    BY <1>5, <2>4, KeyFields
  <2>6. x.response.range = 0 /\ x.response.encoding = e
    BY <2>5 DEF KeyOf, Key
  <2> QED
    BY <1>4, <2>1, <2>5, <2>6 DEF x, IsAnswer
<1>7. CASE ~BodyIsLarge(w)
  <2>1. x = w
    BY <1>7 DEF WholeOrFirstChunk
  <2>2. w.path = [exact |-> TRUE, url |-> url]
    BY <1>1, <1>5, KeyFields
  <2> HIDE DEF w, x
  <2> QED
    BY <1>1, <1>3, <1>4, <1>5, <2>1, <2>2 DEF w, x, IsAnswer
<1> QED
  BY <1>6, <1>7

LEMMA EncodedLemma ==
  ASSUME TypeOK, Known, WholeAssets, NEW q
  PROVE  LET es == Encodings(responses, q.url, q, q.range)
             e  == BestEncoding(es)
             x  == GetEncodedAsset(q)
         IN  /\ es = {} <=> x = None
             /\ es # {} => /\ e \in es /\ Has(responses, q.url, e, q.range)
                           /\ x = WholeOrFirstChunk(responses[Key(q.url, e, q.range)], q.url, e)
<1> DEFINE es == Encodings(responses, q.url, q, q.range)
           e  == BestEncoding(es)
           x  == GetEncodedAsset(q)
<1>1. es # {} => e \in es
  <2> HIDE DEF es
  <2> QED
    BY BestLemma
<1>2. \A d \in es : Has(responses, q.url, d, q.range)
  BY DEF Encodings
<1>3. es # {} => x = WholeOrFirstChunk(responses[Key(q.url, e, q.range)], q.url, e)
  BY DEF GetEncodedAsset
<1>4. es = {} => x = None
  BY DEF GetEncodedAsset
<1>5. es # {} => x # None
  <2>1. es # {} => Has(responses, q.url, e, q.range)
    BY <1>1, <1>2
  <2> HIDE DEF es, e, x
  <2>2. es # {} => WholeOrFirstChunk(responses[Key(q.url, e, q.range)], q.url, e) # None
    BY <2>1, FoundLemma
  <2> QED
    BY <1>3, <2>2
<1> QED
  BY <1>1, <1>2, <1>3, <1>4, <1>5

LEMMA PlainLemma ==
  ASSUME TypeOK, Known, WholeAssets, NEW q
  PROVE  LET x == GetPlainAsset(q)
         IN  /\ ~Has(responses, q.url, None, q.range) <=> x = None
             /\ Has(responses, q.url, None, q.range) =>
                  x = WholeOrFirstChunk(responses[Key(q.url, None, q.range)], q.url, None)
<1>1. Has(responses, q.url, None, q.range) =>
        WholeOrFirstChunk(responses[Key(q.url, None, q.range)], q.url, None) # None
  BY FoundLemma
<1> QED
  BY <1>1 DEF GetPlainAsset

\* A response for a scope, if there is any.
IsFallback(x, scope) ==
  x \in Items /\ x.path = [exact |-> FALSE, url |-> scope] /\ x.response.range = None

LEMMA ScopeLemma ==
  ASSUME TypeOK, Known, WholeAssets, NEW scope, NEW q
  PROVE  LET x == GetFallback(scope, q)
         IN  /\ x # None => IsFallback(x, scope)
             /\ Has(fallback_responses, scope, None, None) => x # None
<1> DEFINE es == Encodings(fallback_responses, scope, q, None)
           e  == BestEncoding(es)
           x  == GetFallback(scope, q)
<1>1. es # {} => e \in es
  <2> HIDE DEF es
  <2> QED
    BY BestLemma
<1>2. \A d \in es : Has(fallback_responses, scope, d, None)
  BY DEF Encodings
<1>3. /\ es # {} => x = fallback_responses[Key(scope, e, None)]
      /\ es = {} => x = Get(fallback_responses, scope, None, None)
  BY DEF GetFallback
<1> HIDE DEF es, e, x
<1>4. ASSUME NEW d, Has(fallback_responses, scope, d, None)
      PROVE  LET y == fallback_responses[Key(scope, d, None)]
             IN  y # None /\ IsFallback(y, scope)
  <2> DEFINE k == Key(scope, d, None)
             y == fallback_responses[k]
  <2>1. k \in DOMAIN fallback_responses
    BY <1>4 DEF Has
  <2>2. y \in Items /\ KeyOf(y) = k /\ ~y.path.exact
    BY <2>1 DEF TypeOK, Items
  <2>3. /\ y # None /\ y.path.exact \in BOOLEAN
        /\ y.path = [exact |-> y.path.exact, url |-> y.path.url]
    BY <2>2, NoneAssumption, AllItemsWhole DEF Known, Shaped
  <2>4. y.path.url = scope /\ y.response.range = None
    BY <2>2 DEF KeyOf, Key
  <2>5. y.path = [exact |-> FALSE, url |-> scope]
    BY <2>2, <2>3, <2>4
  <2> HIDE DEF y
  <2> QED
    BY <2>2, <2>3, <2>4, <2>5 DEF y, k, IsFallback
<1>5. CASE es # {}
  BY <1>1, <1>2, <1>3, <1>4, <1>5 DEF x
<1>6. CASE es = {}
  <2>1. CASE Has(fallback_responses, scope, None, None)
    <3>1. x = fallback_responses[Key(scope, None, None)]
      BY <1>3, <1>6, <2>1 DEF Get
    <3> QED
      BY <1>4, <2>1, <3>1 DEF x
  <2>2. CASE ~Has(fallback_responses, scope, None, None)
    BY <1>3, <1>6, <2>2 DEF Get, x
  <2> QED
    BY <2>1, <2>2
<1> QED
  BY <1>5, <1>6

\* The first scope that has a response.
LEMMA SearchLemma ==
  ASSUME NEW q, Len(Scopes(q.url)) \in Nat, FallbackFor(q) # None
  PROVE  \E i \in 1 .. Len(Scopes(q.url)) :
           /\ FallbackFor(q) = GetFallback(Scopes(q.url)[i], q)
           /\ \A j \in 1 .. Len(Scopes(q.url)) : GetFallback(Scopes(q.url)[j], q) # None => i <= j
<1> DEFINE scopes == Scopes(q.url)
           I == {i \in 1 .. Len(scopes) : GetFallback(scopes[i], q) # None}
<1>1. FallbackFor(q) =
        LET i == IF I # {} THEN CHOOSE x \in I : \A y \in I : x =< y ELSE 0
        IN  IF i = 0 THEN None ELSE GetFallback(scopes[i], q)
  BY DEF FallbackFor, SelectInSeq, Min
<1>2. I \in SUBSET Nat
  OBVIOUS
<1>3. \A i \in I : i \in 1 .. Len(scopes)
  OBVIOUS
<1>4. \A i \in 1 .. Len(scopes) : GetFallback(scopes[i], q) # None => i \in I
  OBVIOUS
<1> HIDE DEF I, scopes
<1>5. I # {}
  BY <1>1
<1>6. PICK h \in I : \A j \in I : h =< j
  BY <1>2, <1>5, SmallestExists
<1>7. PICK i \in I : FallbackFor(q) = GetFallback(scopes[i], q) /\ \A j \in I : i =< j
  <2> DEFINE c == CHOOSE x \in I : \A y \in I : x =< y
  <2>1. c \in I /\ \A j \in I : c =< j
    BY <1>6
  <2>2. c # 0
    BY <1>3, <2>1
  <2>3. FallbackFor(q) = GetFallback(scopes[c], q)
    BY <1>1, <1>5, <2>2
  <2> QED
    BY <2>1, <2>3
<1> QED
  BY <1>3, <1>4, <1>7 DEF scopes

-----------------------------------------------------------------------------
(***************************************************************************)
(* What is found passes verification.                                      *)
(***************************************************************************)
LEMMA ExactVerifies ==
  ASSUME TypeOK, Known, Certified, NEW q \in Requests, AsksForChunk(q),
         NEW item \in Items, item.path = [exact |-> TRUE, url |-> q.url],
         item.response.range \in {MaybeGetRangeBegin(q).range, 0}
  PROVE  ~WitnessRefused(item, q.url) /\ Verifies(item, q)
<1>1. Entry(item) \in tree
  BY DEF Certified
<1>2. Place(item.path) = [segments |-> Segments(q.url), exact |-> TRUE]
  BY DEF Place
<1>3. Answers(Place(item.path), q.url) /\ ~Outdone(CertifiedPlaces, Place(item.path), q.url)
  BY <1>2 DEF Answers, Outdone
<1>4. LET k == Certification(item.response).req IN k = None \/ q.range = ChunkRange(k)
  <2>1. CASE q.range = None
    <3>1. item.response.range \in {None, 0}
      BY <2>1, RangeLemma
    <3> QED
      BY <3>1 DEF Certification
  <2>2. CASE q.range # None
    <3>1. item.response.range \in {q.range.parts[1], 0}
      BY <2>2, RangeLemma
    <3>2. q.range.parts[1] = 0 \/ q.range = ChunkRange(q.range.parts[1])
      BY <2>2 DEF AsksForChunk
    <3> QED
      BY <3>1, <3>2 DEF Certification
  <2> QED
    BY <2>1, <2>2
<1> QED
  BY <1>1, <1>3, <1>4 DEF WitnessRefused, Verifies

\* Whatever is kept for the URL path of a request is found.
LEMMA ExactIsFound ==
  ASSUME TypeOK, Known, WholeAssets, NEW q \in Requests, AsksForChunk(q),
         NEW k \in DOMAIN responses, k.path = q.url
  PROVE  LET p == MaybeGetRangeBegin(q) IN GetEncodedAsset(p) # None \/ GetPlainAsset(p) # None
<1> DEFINE p == MaybeGetRangeBegin(q)
<1>1. /\ p.url = q.url /\ p.accept = q.accept
      /\ p.range = IF q.range = None THEN None ELSE q.range.parts[1]
  BY RangeLemma
<1> HIDE DEF p
<1>2. CASE q.range = None
  <2>1. Has(responses, p.url, None, p.range)
    BY <1>1, <1>2 DEF WholeAssets
  <2> QED
    BY <2>1, PlainLemma DEF p
<1>3. CASE q.range # None
  <2>1. PICK e \in q.accept \cup {None} : Has(responses, p.url, e, p.range)
    BY <1>1, <1>3 DEF AsksForChunk
  <2>2. CASE e \in q.accept
    <3>1. e \in Encodings(responses, p.url, p, p.range)
      BY <1>1, <2>1, <2>2 DEF Encodings
    <3> QED
      BY <3>1, EncodedLemma DEF p
  <2>3. CASE e = None
    BY <2>1, <2>3, PlainLemma DEF p
  <2> QED
    BY <2>2, <2>3
<1> QED
  BY <1>2, <1>3

LEMMA FallbackVerifies ==
  ASSUME WellSpelt, TypeOK, Known, Certified, NoOrphans, WholeAssets,
         NEW q \in Requests, AsksForChunk(q), ~IsScope(q.url),
         GetEncodedAsset(MaybeGetRangeBegin(q)) = None, GetPlainAsset(MaybeGetRangeBegin(q)) = None,
         FallbackFor(MaybeGetRangeBegin(q)) # None
  PROVE  LET item == FallbackFor(MaybeGetRangeBegin(q))
         IN  ~WitnessRefused(item, q.url) /\ (Verifies(item, q) \/ OutdoneByOthers(item, q))
<1> DEFINE S    == STRING \cup {DirSeparator}
           p    == MaybeGetRangeBegin(q)
           url  == q.url
           t    == Segments(url)
           n    == Len(url)
           item == FallbackFor(p)
<1>1. DirSeparator \in S /\ url \in Seq(S) /\ Spelt(url)
  BY DEF WellSpelt
<1>2. \A x \in Items : x.path.url \in Seq(S) /\ Spelt(x.path.url)
  BY DEF WellSpelt, Known
<1> HIDE DEF S
<1>3. t \in Tidy(S) /\ Len(t) \in Nat /\ n = Len(t) + 1
  BY <1>1, SpeltLemma
<1>4. Len(Scopes(url)) = 2 * (n - 1) /\ Len(Scopes(url)) \in Nat /\ n > 0
  <2>1. n > 0
    BY <1>3
  <2>2. Len(Scopes(url)) = 2 * (n - 1)
    BY <1>1, <2>1, ScopesLemma
  <2> QED
    BY <1>3, <2>1, <2>2
<1>5. p.url = url
  BY RangeLemma
<1>6. PICK i \in 1 .. Len(Scopes(url)) :
        /\ item = GetFallback(Scopes(url)[i], p)
        /\ \A j \in 1 .. Len(Scopes(url)) : GetFallback(Scopes(url)[j], p) # None => i <= j
  <2> HIDE DEF p
  <2>1. Len(Scopes(p.url)) \in Nat
    BY <1>4, <1>5
  <2> HIDE DEF url
  <2>2. FallbackFor(p) # None
    BY DEF p
  <2> QED
    BY <1>5, <2>1, <2>2, SearchLemma
<1> DEFINE scope == Scopes(url)[i]
           w     == Segments(scope)
<1>7. IsFallback(item, scope)
  <2> HIDE DEF p, scope
  <2>1. item # None
    BY DEF p
  <2> QED
    BY <1>6, <2>1, ScopeLemma DEF scope
<1>8. /\ item \in Items /\ item.path = [exact |-> FALSE, url |-> scope]
      /\ item.path.exact = FALSE /\ item.path.url = scope /\ item.response.range = None
  BY <1>7 DEF IsFallback
<1>9. scope \in Seq(S) /\ Spelt(scope)
  BY <1>2, <1>8
<1>10. w \in Covering(S, t) /\ Rank(w) = 2 * (n - 1) - i /\ Len(w) <= Len(t)
  <2>1. i \in 1 .. 2 * (n - 1)
    BY <1>4
  <2> QED
    BY <1>1, <1>9, <2>1, ScopeRank
<1>11. ~WitnessRefused(item, url)
  <2>1. Len(w) \in Nat
    BY <1>1, <1>9, SpeltLemma
  <2>2. ~ (Len(w) > Len(t))
    BY <1>3, <1>10, <2>1
  <2> QED
    BY <1>8, <2>2 DEF WitnessRefused
<1> HIDE DEF item, p, t, n, w, scope
<1>12. Entry(item) \in tree
  BY <1>8 DEF Certified
<1>13. Place(item.path) = [segments |-> w, exact |-> FALSE]
  BY <1>8 DEF Place, w
<1>14. Answers(Place(item.path), url)
  BY <1>10, <1>13 DEF Answers, Covering, t
<1>15. Certification(item.response).req = None
  <2>1. item.response.range # 0
    BY <1>8, NoneAssumption
  <2> QED
    BY <1>8, <2>1 DEF Certification
<1>16. ASSUME Outdone(CertifiedPlaces, Place(item.path), url)
       PROVE  OutdoneByOthers(item, q)
  <2>1. PICK pc \in tree :
          \/ pc[1].exact /\ pc[1].segments = t
          \/ ~pc[1].exact /\ Covers(pc[1].segments, t) /\ MoreSpecific(pc[1].segments, w)
    BY <1>13, <1>16 DEF Outdone, CertifiedPlaces, t
  <2>2. CASE pc \in Others
    <3>1. pc[1] \in {o[1] : o \in Others \cap tree}
      BY <2>2
    <3> QED
      BY <1>13, <2>1, <3>1 DEF OutdoneByOthers, Outdone, t
  <2>3. ASSUME NEW x \in Items, pc = Entry(x) PROVE FALSE
    <3> DEFINE u == x.path.url
               v == Segments(u)
    <3>1. pc[1].segments = v /\ pc[1].exact = x.path.exact
      BY <2>3 DEF Entry, Place
    <3>2. u \in Seq(S) /\ Spelt(u)
      BY <1>2
    <3>3. CASE x.path.exact
      <4>1. PICK k \in DOMAIN responses : x = responses[k]
        BY <3>3 DEF Items, TypeOK
      <4>2. KeyOf(x) = k
        BY <4>1 DEF TypeOK
      <4>3. k.path = u
        BY <4>2, KeyFields DEF KeyOf
      <4>4. v = t
        BY <2>1, <3>1, <3>3
      <4>5. u = url
        BY <1>1, <3>2, <4>4 DEF Spelt, t
      <4> QED
        BY <4>3, <4>5, ExactIsFound DEF p
    <3>4. CASE ~x.path.exact
      <4>1. PICK k \in DOMAIN fallback_responses : x = fallback_responses[k]
        BY <3>4 DEF Items, TypeOK
      <4>2. KeyOf(x) = k
        BY <4>1 DEF TypeOK
      <4>3. k.path = u
        BY <4>2, KeyFields DEF KeyOf
      <4>4. Covers(v, t) /\ MoreSpecific(v, w)
        BY <2>1, <3>1, <3>4
      <4>5. v \in Tidy(S)
        BY <1>1, <3>2, SpeltLemma
      <4>6. Rank(v) > Rank(w) /\ Rank(v) \in Nat
        <5>1. v \in Covering(S, t)
          BY <4>4, <4>5 DEF Covering
        <5> HIDE DEF v
        <5> QED
          BY <1>3, <1>10, <4>4, <5>1, RankLemma
      <4>7. u # url \/ EndsWithSlash(url)
        BY <4>3 DEF IsScope
      <4> DEFINE j == 2 * (n - 1) - Rank(v)
      <4>8. j \in 1 .. Len(Scopes(url)) /\ Scopes(url)[j] = u
        <5>1. Covers(Segments(u), Segments(url))
          BY <4>4 DEF t
        <5>2. LET i_ == 2 * (Len(url) - 1) - Rank(Segments(u))
              IN  i_ \in 1 .. Len(Scopes(url)) /\ Scopes(url)[i_] = u
          BY <1>1, <3>2, <4>7, <5>1, RankScope
        <5> QED
          BY <5>2 DEF n
      <4>9. GetFallback(u, p) # None
        <5>1. Has(fallback_responses, u, None, None)
          BY <4>3 DEF WholeAssets
        <5> HIDE DEF u
        <5> QED
          BY <5>1, ScopeLemma
      <4>10. i <= j
        BY <1>6, <4>8, <4>9
      <4>11. j < i
        <5> DEFINE a == Rank(v)
                   b == Rank(w)
        <5>1. a > b /\ a \in Nat /\ b = 2 * (n - 1) - i /\ n - 1 \in Nat /\ i \in Nat
          BY <1>3, <1>4, <1>10, <4>6
        <5> HIDE DEF a, b
        <5>2. 2 * (n - 1) - a < i
          BY <5>1
        <5> QED
          BY <5>2 DEF a
      <4> QED
        <5>1. i \in Nat /\ j \in Nat
          BY <1>4, <4>8
        <5> HIDE DEF j
        <5> QED
          BY <4>10, <4>11, <5>1
    <3> QED
      BY <3>3, <3>4
  <2> QED
    BY <2>2, <2>3 DEF NoOrphans
<1>17. Verifies(item, q) \/ OutdoneByOthers(item, q)
  BY <1>12, <1>14, <1>15, <1>16 DEF Verifies
<1> QED
  BY <1>11, <1>17 DEF item, p

LEMMA ServedLemma ==
  ASSUME WellSpelt, TypeOK, Known, Certified, NoOrphans, WholeAssets
  PROVE  ServedVerifies
<1> SUFFICES ASSUME NEW q \in Requests, AsksForChunk(q), ~IsScope(q.url),
                    GetAssetForRequest(MaybeGetRangeBegin(q)) # None
             PROVE  LET item == GetAssetForRequest(MaybeGetRangeBegin(q))
                    IN  ~WitnessRefused(item, q.url) /\ (Verifies(item, q) \/ OutdoneByOthers(item, q))
  BY DEF ServedVerifies
<1> DEFINE p    == MaybeGetRangeBegin(q)
           item == GetAssetForRequest(p)
<1>1. p.url = q.url
  BY RangeLemma
<1>2. ASSUME NEW e, IsAnswer(item, q.url, e, p.range)
      PROVE  ~WitnessRefused(item, q.url) /\ Verifies(item, q)
  <2> HIDE DEF item
  <2>1. item \in Items /\ item.path = [exact |-> TRUE, url |-> q.url] /\ item.response.range \in {p.range, 0}
    BY <1>2 DEF IsAnswer
  <2> QED
    BY <2>1, ExactVerifies
<1>3. CASE GetEncodedAsset(p) # None
  <2> DEFINE e == BestEncoding(Encodings(responses, p.url, p, p.range))
  <2> HIDE DEF p
  <2>1. Has(responses, p.url, e, p.range) /\ GetEncodedAsset(p) = WholeOrFirstChunk(responses[Key(p.url, e, p.range)], p.url, e)
    BY <1>3, EncodedLemma
  <2>2. item = GetEncodedAsset(p)
    BY <1>3 DEF GetAssetForRequest
  <2> HIDE DEF e, item
  <2>3. IsAnswer(item, p.url, e, p.range)
    BY <2>1, <2>2, FoundLemma
  <2> QED
    BY <1>1, <1>2, <2>3 DEF item, p
<1>4. CASE GetEncodedAsset(p) = None /\ GetPlainAsset(p) # None
  <2> HIDE DEF p
  <2>1. /\ Has(responses, p.url, None, p.range)
        /\ GetPlainAsset(p) = WholeOrFirstChunk(responses[Key(p.url, None, p.range)], p.url, None)
    BY <1>4, PlainLemma
  <2>2. item = GetPlainAsset(p)
    BY <1>4 DEF GetAssetForRequest
  <2> HIDE DEF item
  <2>3. IsAnswer(item, p.url, None, p.range)
    BY <2>1, <2>2, FoundLemma
  <2> QED
    BY <1>1, <1>2, <2>3 DEF item, p
<1>5. CASE GetEncodedAsset(p) = None /\ GetPlainAsset(p) = None
  <2>1. item = FallbackFor(p)
    BY <1>5 DEF GetAssetForRequest
  <2> QED
    BY <1>5, <2>1, FallbackVerifies
<1> QED
  BY <1>3, <1>4, <1>5

\* Every response that serve_asset chooses for a request is in the tree, answers it and
\* is not outdone there, whatever was certified and deleted before: its search by URL,
\* encoding and scope finds the entry that verification insists on. That takes that no
\* place is spelt in two ways, assets that do not change, no deletion of what is in
\* chunks by configuration or of a part of an asset, and by path only of what has no
\* encodings.
THEOREM WhatIsServedVerifies ==
  ASSUME WellSpelt, Consistent, NoChunksDeleted, PlainByPath, DeletedWhole
  PROVE  Spec => []ServedVerifies
BY SpeltOnce, AssetsAreWhole, KeptIsCertified, NothingElseIsCertified, ServedLemma, PTL

-----------------------------------------------------------------------------
(***************************************************************************)
(* Chunks.                                                                 *)
(***************************************************************************)
\* No two encodings of assets have the same quality.
LEMMA QualityLemma ==
  ASSUME NEW d \in AssetEncodings \cup {None}, NEW e \in AssetEncodings \cup {None}, Quality(d) = Quality(e)
  PROVE  d = e
BY DEF Quality, AssetEncodings

\* The chunks of what is in chunks: each is there and is the same but for its range.
LEMMA ChunkLemma ==
  ASSUME Consistent, TypeOK, Known, WholeAssets, NEW url, NEW e, Has(responses, url, e, None),
         WholeOrFirstChunk(responses[Key(url, e, None)], url, e).response.range = 0,
         NEW k \in 1 .. Chunks(WholeOrFirstChunk(responses[Key(url, e, None)], url, e).response.content) - 1
  PROVE  /\ ChunkRange(k) # None /\ Has(responses, url, e, k)
         /\ responses[Key(url, e, k)].response =
              [WholeOrFirstChunk(responses[Key(url, e, None)], url, e).response EXCEPT !.range = k]
<1> DEFINE w     == responses[Key(url, e, None)]
           first == WholeOrFirstChunk(w, url, e)
           c     == w.response.content
<1>1. /\ Key(url, e, None) \in DOMAIN responses /\ w \in AllItems
      /\ KeyOf(w) = Key(url, e, None) /\ w.path.exact
  BY DEF Has, Items, Known, TypeOK
<1>2. w.response.range = None /\ w.response.encoding = e /\ w.path.url = url
  BY <1>1 DEF KeyOf, Key
<1>3. BodyIsLarge(w) /\ first = Get(responses, url, e, 0)
  <2>1. w.response.range # 0
    BY <1>2, NoneAssumption
  <2>2. first.response.range = 0
    OBVIOUS
  <2> HIDE DEF w
  <2> QED
    BY <2>1, <2>2 DEF WholeOrFirstChunk
<1>4. /\ Chunks(c) \in Nat /\ Chunks(c) > 1 /\ \A j \in 0 .. Chunks(c) : ChunkRange(j) # None
  <2>1. c # None /\ Chunks(c) > 1
    BY <1>3 DEF BodyIsLarge, IsLarge
  <2> QED
    BY <1>1, <2>1, AllItemsWhole DEF Shaped
<1>5. ASSUME NEW r \in 0 .. Chunks(c) - 1
      PROVE  Has(responses, url, e, r) /\ responses[Key(url, e, r)] = Chunk(w, r)
  <2> DEFINE x == responses[Key(url, e, r)]
  <2>1. Has(responses, url, e, r)
    BY <1>1, <1>3, KeyFields DEF WholeAssets
  <2>2. x \in AllItems /\ KeyOf(x) = Key(url, e, r) /\ x.path.exact
    BY <2>1 DEF Has, Items, Known, TypeOK
  <2>3. Chunk(w, r) \in AllItems
    BY <1>1, <1>3, AllItemsWhole DEF AllChunks
  <2>4. KeyOf(Chunk(w, r)) = Key(url, e, r) /\ Chunk(w, r).path.exact = w.path.exact
    BY <1>2 DEF KeyOf, Chunk, PrepareResponse
  <2>5. x.path.exact = Chunk(w, r).path.exact
    <3>1. x.path.exact \in BOOLEAN /\ w.path.exact \in BOOLEAN
      BY <1>1, <2>2, AllItemsWhole DEF Shaped
    <3> QED
      BY <1>1, <2>2, <2>4, <3>1
  <2> HIDE DEF x
  <2>6. x = Chunk(w, r)
    BY <2>2, <2>3, <2>4, <2>5 DEF Consistent
  <2> QED
    BY <2>1, <2>6 DEF x
<1>6. first = Chunk(w, 0)
  <2>1. 0 \in 0 .. Chunks(c) - 1
    BY <1>4
  <2> QED
    BY <1>3, <1>5, <2>1 DEF Get
<1>7. first.response.content = c
  BY <1>6 DEF Chunk, PrepareResponse
<1>8. k \in 0 .. Chunks(c) - 1 /\ k \in 0 .. Chunks(c)
  <2>1. k \in 1 .. Chunks(c) - 1
    BY <1>7
  <2> QED
    BY <1>4, <2>1
<1>9. Chunk(w, k).response = [Chunk(w, 0).response EXCEPT !.range = k]
  <2>1. k # None /\ 0 # None
    BY <1>4, <1>8, NoneAssumption
  <2> QED
    BY <2>1 DEF Chunk, PrepareResponse
<1> QED
  BY <1>4, <1>5, <1>6, <1>8, <1>9

\* The request for the kth chunk that follows one for the first.
LEMMA NextRequest ==
  ASSUME NEW q \in Requests, NEW k \in Nat, ChunkRange(k) # None
  PROVE  LET n == [q EXCEPT !.range = ChunkRange(k)]
             p == MaybeGetRangeBegin(n)
         IN  /\ p.url = q.url /\ p.accept = q.accept /\ p.range = k /\ n.url = q.url
             /\ IsRange(n.range)
<1> DEFINE n == [q EXCEPT !.range = ChunkRange(k)]
<1>1. n = [url |-> q.url, accept |-> q.accept, range |-> ChunkRange(k)]
  BY RequestAssumption
<1>2. ChunkRange(k) = [bytes |-> TRUE, parts |-> <<k, None>>]
  BY DEF ChunkRange, RangeHeader
<1> HIDE DEF n
<1>3. MaybeGetRangeBegin(n) = [url |-> q.url, accept |-> q.accept, range |-> k]
  BY <1>1, <1>2 DEF MaybeGetRangeBegin
<1>4. IsRange(n.range)
  BY <1>1, <1>2 DEF IsRange
<1> QED
  BY <1>1, <1>3, <1>4 DEF n

\* What is found for a chunk is that chunk.
LEMMA ChunkFound ==
  ASSUME TypeOK, NEW url, NEW e, NEW k, k # None, Has(responses, url, e, k)
  PROVE  LET x == responses[Key(url, e, k)]
         IN  x.path.exact /\ WholeOrFirstChunk(x, url, e) = x
<1> DEFINE x == responses[Key(url, e, k)]
<1>1. KeyOf(x) = Key(url, e, k) /\ x.path.exact
  BY DEF TypeOK, Has
<1>2. x.response.range = k
  BY <1>1 DEF KeyOf, Key
<1> HIDE DEF x
<1>3. ~BodyIsLarge(x)
  BY <1>2 DEF BodyIsLarge
<1> QED
  BY <1>1, <1>3 DEF WholeOrFirstChunk, x

LEMMA ChunksLemma ==
  ASSUME WellSpelt, Consistent, TypeOK, Known, WholeAssets
  PROVE  ChunksFitTogether
<1> SUFFICES ASSUME NEW q \in Requests, q.range = None, ServeAsset(q) # None,
                    ServeAsset(q).response.range = 0,
                    NEW k \in 1 .. Chunks(ServeAsset(q).response.content) - 1
             PROVE  LET next == ServeAsset([q EXCEPT !.range = ChunkRange(k)])
                    IN  next # None /\ next.response = [ServeAsset(q).response EXCEPT !.range = k]
  BY DEF ChunksFitTogether
<1> DEFINE first == ServeAsset(q)
           n     == [q EXCEPT !.range = ChunkRange(k)]
           p     == MaybeGetRangeBegin(n)
           url   == q.url
           es    == Encodings(responses, url, q, None)
           later == Encodings(responses, url, p, k)
           Found(e) == WholeOrFirstChunk(responses[Key(url, e, None)], url, e)
<1>1. k \in Nat /\ k # None
  BY NoneAssumption
<1>2. first = GetAssetForRequest(q)
  BY DEF ServeAsset, MaybeGetRangeBegin
<1>3. \A e : Has(responses, url, e, k) => Has(responses, url, e, None)
  <2> SUFFICES ASSUME NEW e, Has(responses, url, e, k)
               PROVE  Has(responses, url, e, None)
    OBVIOUS
  <2>1. Key(url, e, k) \in DOMAIN responses
    BY DEF Has
  <2>2. Has(responses, Key(url, e, k).path, Key(url, e, k).encoding, None)
    BY <2>1 DEF WholeAssets
  <2> QED
    BY <2>2, KeyFields
<1>4. ASSUME NEW e, Has(responses, url, e, None), first = Found(e)
      PROVE  /\ ChunkRange(k) # None /\ Has(responses, url, e, k)
             /\ responses[Key(url, e, k)].response = [first.response EXCEPT !.range = k]
  <2>1. Found(e).response.range = 0 /\ k \in 1 .. Chunks(Found(e).response.content) - 1
    BY <1>4
  <2>2. /\ ChunkRange(k) # None /\ Has(responses, url, e, k)
        /\ responses[Key(url, e, k)].response = [Found(e).response EXCEPT !.range = k]
    BY <1>4, <2>1, ChunkLemma
  <2> QED
    BY <1>4, <2>2
<1>5. ASSUME NEW e, Has(responses, url, e, k), ChunkRange(k) # None,
             GetAssetForRequest(p) = responses[Key(url, e, k)]
      PROVE  ServeAsset(n) = responses[Key(url, e, k)] /\ ServeAsset(n) # None
  <2> DEFINE x == responses[Key(url, e, k)]
  <2>1. IsRange(n.range)
    BY <1>1, <1>5, NextRequest
  <2>2. x.path.exact
    BY <1>1, <1>5, ChunkFound
  <2>3. x # None
    <3>1. x \in Items
      BY <1>5 DEF Has, Items
    <3> QED
      BY <3>1, NoneAssumption DEF Known
  <2>4. ~WitnessRefused(x, n.url)
    BY <2>2 DEF WitnessRefused
  <2> HIDE DEF x, n
  <2>5. ServeAsset(n) = x
    BY <1>5, <2>1, <2>3, <2>4 DEF ServeAsset, x, p
  <2> QED
    BY <2>3, <2>5 DEF x, n
<1> HIDE DEF n
<1>6. ASSUME ChunkRange(k) # None
      PROVE  p.url = url /\ p.accept = q.accept /\ p.range = k
  BY <1>1, <1>6, NextRequest DEF n
<1> HIDE DEF p
<1>7. CASE es # {}
  <2> DEFINE e == BestEncoding(es)
  <2>1. e \in es /\ \A d \in es : Quality(d) <= Quality(e)
    <3> HIDE DEF es
    <3> QED
      BY <1>7, BestLemma
  <2>2. Has(responses, url, e, None) /\ GetEncodedAsset(q) = Found(e) /\ GetEncodedAsset(q) # None
    BY <1>7, EncodedLemma
  <2>3. first = Found(e)
    BY <1>2, <2>2 DEF GetAssetForRequest
  <2>4. /\ ChunkRange(k) # None /\ Has(responses, url, e, k)
        /\ responses[Key(url, e, k)].response = [first.response EXCEPT !.range = k]
    <3> HIDE DEF first, e, Found
    <3> QED
      BY <1>4, <2>2, <2>3
  <2>5. later \subseteq es /\ e \in later
    BY <1>3, <1>6, <2>1, <2>4 DEF Encodings
  <2>6. BestEncoding(later) = e
    <3>1. BestEncoding(later) \in later /\ \A d \in later : Quality(d) <= Quality(BestEncoding(later))
      <4>1. later # {}
        BY <2>5
      <4> HIDE DEF later
      <4> QED
        BY <4>1, BestLemma
    <3>2. \A d \in es : d \in AssetEncodings \cup {None} /\ Quality(d) \in Nat
      <4>1. ASSUME NEW d \in es PROVE d \in AssetEncodings \cup {None}
        <5> DEFINE x == responses[Key(url, d, None)]
        <5>1. x \in AllItems /\ KeyOf(x) = Key(url, d, None)
          BY DEF Encodings, Has, Known, Items, TypeOK
        <5>2. x.response.encoding = d
          BY <5>1 DEF KeyOf, Key
        <5> QED
          BY <5>1, <5>2, AllItemsWhole DEF Shaped
      <4>2. \A d : Quality(d) \in Nat
        BY DEF Quality
      <4> QED
        BY <4>1, <4>2
    <3> DEFINE b == BestEncoding(later)
    <3> HIDE DEF e, b, es, later
    <3>3. b \in es /\ e \in es /\ Quality(b) <= Quality(e) /\ Quality(e) <= Quality(b)
      BY <2>1, <2>5, <3>1 DEF b
    <3>4. Quality(b) = Quality(e)
      BY <3>2, <3>3
    <3> QED
      BY <3>2, <3>3, <3>4, QualityLemma DEF b
  <2>7. GetEncodedAsset(p) = WholeOrFirstChunk(responses[Key(url, e, k)], url, e) /\ GetEncodedAsset(p) # None
    <3>1. p.url = url /\ p.range = k /\ Encodings(responses, p.url, p, p.range) = later
      BY <1>6, <2>4
    <3>2. later # {}
      BY <2>5
    <3> HIDE DEF e, later, es
    <3> QED
      BY <2>6, <3>1, <3>2, EncodedLemma
  <2>8. GetAssetForRequest(p) = responses[Key(url, e, k)]
    <3>1. WholeOrFirstChunk(responses[Key(url, e, k)], url, e) = responses[Key(url, e, k)]
      <4> HIDE DEF e
      <4> QED
        BY <1>1, <2>4, ChunkFound
    <3> QED
      BY <2>7, <3>1 DEF GetAssetForRequest
  <2> HIDE DEF e
  <2>9. ServeAsset(n) = responses[Key(url, e, k)] /\ ServeAsset(n) # None
    BY <1>5, <2>4, <2>8
  <2> QED
    BY <2>4, <2>9 DEF n
<1>8. CASE es = {}
  <2>1. GetEncodedAsset(q) = None
    BY <1>8 DEF GetEncodedAsset
  <2>2. GetPlainAsset(q) # None
    <3>1. SUFFICES ASSUME GetPlainAsset(q) = None
                   PROVE  FALSE
      OBVIOUS
    <3>2. first = FallbackFor(q)
      BY <1>2, <2>1, <3>1 DEF GetAssetForRequest
    <3>3. Len(Scopes(url)) \in Nat
      <4> DEFINE S == STRING \cup {DirSeparator}
      <4>1. DirSeparator \in S /\ url \in Seq(S) /\ Spelt(url)
        BY DEF WellSpelt
      <4> HIDE DEF S
      <4>2. Len(url) > 0 /\ Len(url) \in Nat
        BY <4>1, SpeltLemma
      <4>3. Len(Scopes(url)) = 2 * (Len(url) - 1)
        BY <4>1, <4>2, ScopesLemma
      <4> QED
        BY <4>2, <4>3
    <3>4. PICK i \in 1 .. Len(Scopes(url)) : first = GetFallback(Scopes(url)[i], q)
      BY <3>2, <3>3, SearchLemma
    <3>5. IsFallback(first, Scopes(url)[i])
      <4>1. first # None
        OBVIOUS
      <4> HIDE DEF first
      <4> QED
        BY <3>4, <4>1, ScopeLemma
    <3>6. first.response.range = None
      BY <3>5 DEF IsFallback
    <3> QED
      BY <3>6, NoneAssumption
  <2>3. Has(responses, url, None, None) /\ GetPlainAsset(q) = Found(None)
    BY <2>2, PlainLemma
  <2>4. first = Found(None)
    BY <1>2, <2>1, <2>2, <2>3 DEF GetAssetForRequest
  <2>5. /\ ChunkRange(k) # None /\ Has(responses, url, None, k)
        /\ responses[Key(url, None, k)].response = [first.response EXCEPT !.range = k]
    <3> HIDE DEF first, Found
    <3> QED
      BY <1>4, <2>3, <2>4
  <2>6. GetEncodedAsset(p) = None
    <3>1. Encodings(responses, p.url, p, p.range) = {}
      BY <1>3, <1>6, <1>8, <2>5 DEF Encodings
    <3> QED
      BY <3>1, EncodedLemma
  <2>7. GetPlainAsset(p) = WholeOrFirstChunk(responses[Key(url, None, k)], url, None) /\ GetPlainAsset(p) # None
    <3>1. p.url = url /\ p.range = k
      BY <1>6, <2>5
    <3> QED
      BY <2>5, <3>1, PlainLemma
  <2>8. GetAssetForRequest(p) = responses[Key(url, None, k)]
    <3>1. WholeOrFirstChunk(responses[Key(url, None, k)], url, None) = responses[Key(url, None, k)]
      BY <1>1, <2>5, ChunkFound
    <3> QED
      BY <2>6, <2>7, <3>1 DEF GetAssetForRequest
  <2>9. ServeAsset(n) = responses[Key(url, None, k)] /\ ServeAsset(n) # None
    BY <1>5, <2>5, <2>8
  <2> QED
    BY <2>5, <2>9 DEF n
<1> QED
  BY <1>7, <1>8

\* What a client puts together from the chunks of an asset is of one content in one
\* encoding, if assets do not change and are not deleted in part between its requests.
THEOREM ChunksAreOfOneAsset ==
  ASSUME WellSpelt, Consistent, PlainByPath, DeletedWhole
  PROVE  Spec => []ChunksFitTogether
BY AssetsAreWhole, ChunksLemma, PTL

=============================================================================
