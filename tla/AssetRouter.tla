----------------------------- MODULE AssetRouter ----------------------------
(***************************************************************************)
(* AssetRouter of ic-asset-certification: it certifies assets into an      *)
(* HttpCertificationTree, keeps the responses it certified and chooses the *)
(* one to answer a request with.  The tree is taken for the set that       *)
(* HttpCertificationTree implements (module CertificationSet), and a       *)
(* response and its hash for what tells responses apart.                   *)
(***************************************************************************)
EXTENDS UrlPaths

CONSTANTS
  None,
  Chunks(_),       \* how many chunks of ASSET_CHUNK_SIZE make up a content
  Concat(_, _),    \* the concatenation of two strings
  BadHeaders,      \* header lists that HttpCertification::full refuses
  CertifyBatches,  \* the arguments certify_assets is called with
  DeleteBatches,   \* the arguments delete_assets is called with
  AssetPaths,      \* the arguments delete_assets_by_path is called with
  FallbackPaths,   \* the arguments delete_fallback_assets_by_path is called with
  Others           \* what else the canister certifies in the tree

VARIABLES
  tree,                \* pairs of a place and a certification
  responses,           \* responses by URL, encoding and range
  fallback_responses   \* responses by scope and encoding

vars == <<tree, responses, fallback_responses>>

Batches == CertifyBatches \cup DeleteBatches

\* AssetEncoding, by the names that the headers have for it.
AssetEncodings == {"identity", "br", "zstd", "gzip", "deflate"}

\* A batch is a set of assets with different paths (asset_map) and a list of
\* configurations, each of which names an encoding and a scope at most once.
ASSUME BatchAssumption ==
  \A batch \in Batches :
    /\ \A a \in batch.assets : Chunks(a.content) \in Nat
    /\ IsFiniteSet(batch.assets)
    /\ \A a, b \in batch.assets : a.path = b.path => a = b
    /\ Len(batch.configs) \in Nat /\ DOMAIN batch.configs = 1 .. Len(batch.configs)
    /\ \A i \in DOMAIN batch.configs : batch.configs[i].kind # "Redirect" =>
         LET c == batch.configs[i]
         IN  /\ \A n \in DOMAIN c.encodings : c.encodings[n].encoding \in AssetEncodings
             /\ \A m, n \in DOMAIN c.fallbacks : c.fallbacks[m].scope = c.fallbacks[n].scope => m = n
             /\ \A m, n \in DOMAIN c.encodings : c.encodings[m].encoding = c.encodings[n].encoding => m = n

-----------------------------------------------------------------------------
(***************************************************************************)
(* Certified responses.  A response is known by its status, its headers,   *)
(* its content and what part of that it carries (a range is the number of  *)
(* the chunk that starts there); its certification asks for the Range      *)
(* header of the request for every chunk but the first.                    *)
(***************************************************************************)
Key(path, encoding, range) == [path |-> path, encoding |-> encoding, range |-> range]

KeyOf(item) == Key(item.path.url, item.response.encoding, item.response.range)

Certification(response) ==
  [req |-> IF response.range = 0 THEN None ELSE response.range, resp |-> response]

Entry(item) == <<Place(item.path), Certification(item.response)>>

IsLarge(content) == content # None /\ Chunks(content) > 1

PathToUrl(path) == IF Len(path) > 1 /\ Head(path) = "" THEN path ELSE <<"">> \o path

WithPostfix(path, postfix) == Append(Front(path), Concat(Last(path), postfix))

PrepareResponse(status, content, headers, encoding, range) ==
  [status |-> IF range = None THEN status ELSE "206", content |-> content,
   headers |-> headers, location |-> None, encoding |-> encoding, range |-> range]

PrepareStatic(url, content, c, encoding, range) ==
  [path     |-> [exact |-> TRUE, url |-> url],
   response |-> PrepareResponse("200", content, c.headers, encoding, range)]

PrepareFallback(fallback, content, c, encoding) ==
  [path     |-> [exact |-> FALSE, url |-> fallback.scope],
   response |-> PrepareResponse(fallback.status, content, c.headers, encoding, None)]

PrepareRedirect(c) ==
  [path     |-> [exact |-> TRUE, url |-> c.from],
   response |-> [PrepareResponse(c.status, None, c.headers, None, None) EXCEPT !.location = c.to]]

-----------------------------------------------------------------------------
(***************************************************************************)
(* What a batch is turned into, by certify_assets and delete_assets alike. *)
(***************************************************************************)
NoConfig == [headers |-> None, fallbacks |-> <<>>, aliases |-> <<>>, encodings |-> <<>>]

Matches(c, path) ==
  CASE c.kind = "File"     -> c.path = path
    [] c.kind = "Pattern"  -> path \in c.matched
    [] c.kind = "Redirect" -> FALSE

\* The first configuration that matches.
ConfigFor(asset, batch) ==
  LET i == SelectInSeq(batch.configs, LAMBDA c : Matches(c, asset.path))
  IN  IF i = 0 THEN NoConfig ELSE batch.configs[i]

Fails(c) == c.headers \in BadHeaders

StaticItems(url, content, c, encoding) ==
  {PrepareStatic(url, content, c, encoding, range) :
     range \in {None} \cup IF IsLarge(content) THEN 0 .. Chunks(content) - 1 ELSE {}}

\* An asset, in an encoding, under its own URL, its scopes and its aliases.
VariantItems(url, content, c, encoding) ==
  StaticItems(url, content, c, encoding)
    \cup {PrepareFallback(f, content, c, encoding) : f \in ToSet(c.fallbacks)}
    \cup UNION {StaticItems(alias, content, c, encoding) : alias \in ToSet(c.aliases)}

\* An asset and those of the batch that are its encodings.
AssetItems(asset, batch) ==
  LET c   == ConfigFor(asset, batch)
      url == PathToUrl(asset.path)
      EncodedAs(e) == {a \in batch.assets : a.path = WithPostfix(asset.path, e.postfix)}
  IN  VariantItems(url, asset.content, c, None)
        \cup UNION {UNION {VariantItems(url, a.content, c, e.encoding) : a \in EncodedAs(e)} :
                      e \in ToSet(c.encodings)}

\* The order a HashMap happens to give its values in.
Orders(assets) ==
  {order \in [assets -> 1 .. Cardinality(assets)] :
     \A a, b \in assets : order[a] = order[b] => a = b}

\* An error ends the call, with what was done before it left in place.
ReachedAssets(batch, order) ==
  {a \in batch.assets :
     \A b \in batch.assets : order[b] <= order[a] => ~Fails(ConfigFor(b, batch))}

ReachedRedirects(batch) ==
  {i \in DOMAIN batch.configs :
     /\ batch.configs[i].kind = "Redirect"
     /\ \A b \in batch.assets : ~Fails(ConfigFor(b, batch))
     /\ \A j \in 1 .. i : batch.configs[j].kind = "Redirect" => ~Fails(batch.configs[j])}

\* What insert_redirect and delete_redirect prepare, with its turn.
Redirects(batch) ==
  {<<Cardinality(batch.assets) + i, PrepareRedirect(batch.configs[i])>> : i \in ReachedRedirects(batch)}

\* Everything that is prepared, each with its turn: the redirects come last.
Work(batch, order) ==
  (UNION {{order[a]} \X AssetItems(a, batch) : a \in ReachedAssets(batch, order)})
    \cup Redirects(batch)

-----------------------------------------------------------------------------
(***************************************************************************)
(* The operations.  What is stored under a key is what had the last turn.  *)
(***************************************************************************)
LastFor(work, k) ==
  CHOOSE w \in work : KeyOf(w[2]) = k /\ \A v \in work : KeyOf(v[2]) = k => v[1] <= w[1]

Stored(table, work) ==
  LET keys == {KeyOf(w[2]) : w \in work}
  IN  [k \in DOMAIN table \cup keys |-> IF k \in keys THEN LastFor(work, k)[2] ELSE table[k]]

Without(table, keys) == [k \in DOMAIN table \ keys |-> table[k]]

InsertStaticAssets(work) == Stored(responses, {w \in work : w[2].path.exact})

InsertFallbackAssets(work) == Stored(fallback_responses, {w \in work : ~w[2].path.exact})

DeleteStaticAssets(items) == Without(responses, {KeyOf(x) : x \in {y \in items : y.path.exact}})

DeleteFallbackAssets(items) ==
  Without(fallback_responses, {KeyOf(x) : x \in {y \in items : ~y.path.exact}})

CertifyAssets(batch) ==
  \E order \in Orders(batch.assets) :
    LET work == Work(batch, order)
    IN  /\ tree' = tree \cup {Entry(w[2]) : w \in work}
        /\ responses' = InsertStaticAssets(work)
        /\ fallback_responses' = InsertFallbackAssets(work)

\* Mutant: the responses for the scopes are not removed.
DeleteAssetsNotFallbacks(batch) ==
  \E order \in Orders(batch.assets) :
    LET items == {w[2] : w \in Work(batch, order)}
    IN  /\ tree' = tree \ {Entry(x) : x \in {y \in items : y.response.range = None}}
        /\ responses' = DeleteStaticAssets(items)
        /\ UNCHANGED fallback_responses

\* Mutant: the entries for the scopes stay in the tree.
DeleteAssetsNotScopes(batch) ==
  \E order \in Orders(batch.assets) :
    LET items == {w[2] : w \in Work(batch, order)}
    IN  /\ tree' = tree \ {Entry(x) : x \in {y \in items : y.path.exact /\ y.response.range = None}}
        /\ responses' = DeleteStaticAssets(items)
        /\ fallback_responses' = DeleteFallbackAssets(items)

\* Mutant: the whole paths are deleted from the tree, not the entries.
DeleteAssetsByPlace(batch) ==
  \E order \in Orders(batch.assets) :
    LET items == {w[2] : w \in Work(batch, order)}
    IN  /\ tree' = {pc \in tree : pc[1] \notin {Place(x.path) : x \in items}}
        /\ responses' = DeleteStaticAssets(items)
        /\ fallback_responses' = DeleteFallbackAssets(items)

\* Of an asset in chunks the responses are all removed, but only the entry of the
\* whole asset is deleted from the tree.
DeleteAssets(batch) ==
  \E order \in Orders(batch.assets) :
    LET items == {w[2] : w \in Work(batch, order)}
    IN  /\ tree' = tree \ {Entry(x) : x \in {y \in items : y.response.range = None}}
        /\ responses' = DeleteStaticAssets(items)
        /\ fallback_responses' = DeleteFallbackAssets(items)

DeleteAssetsByPath(paths) ==
  /\ tree' = {pc \in tree : pc[1] \notin {Place([exact |-> TRUE, url |-> p]) : p \in paths}}
  /\ responses' = Without(responses, {Key(p, None, None) : p \in paths})
  /\ UNCHANGED fallback_responses

DeleteFallbackAssetsByPath(paths) ==
  /\ tree' = {pc \in tree : pc[1] \notin {Place([exact |-> FALSE, url |-> p]) : p \in paths}}
  /\ fallback_responses' = Without(fallback_responses, {Key(p, None, None) : p \in paths})
  /\ UNCHANGED responses

DeleteAllAssets ==
  /\ tree' = {}
  /\ responses' = <<>>
  /\ fallback_responses' = <<>>

\* The tree is shared (with_tree): the canister certifies other responses in it.
CertifyOther(pc) ==
  /\ tree' = tree \cup {pc}
  /\ UNCHANGED <<responses, fallback_responses>>

Init == tree = {} /\ responses = <<>> /\ fallback_responses = <<>>

Next ==
  \/ \E batch \in CertifyBatches : CertifyAssets(batch)
  \/ \E batch \in DeleteBatches : DeleteAssets(batch)
  \/ \E paths \in AssetPaths : DeleteAssetsByPath(paths)
  \/ \E paths \in FallbackPaths : DeleteFallbackAssetsByPath(paths)
  \/ DeleteAllAssets
  \/ \E pc \in Others : CertifyOther(pc)

Spec == Init /\ [][Next]_vars

-----------------------------------------------------------------------------
(***************************************************************************)
(* What the router keeps and what it certified.                            *)
(***************************************************************************)
Items ==
  {responses[k] : k \in DOMAIN responses}
    \cup {fallback_responses[k] : k \in DOMAIN fallback_responses}

\* What a call may prepare, as far as it gets.
ItemsOf(batch) ==
  UNION {{w[2] : w \in Work(batch, order)} : order \in Orders(batch.assets)}

\* All that certify_assets and delete_assets are ever asked for.
AllItems == UNION {ItemsOf(batch) : batch \in Batches}

ASSUME NoneAssumption == None \notin Nat \cup AllItems

\* No two spellings of one URL path are used, such as "/a/b" and "/a//b".
NoAliases == \A x, y \in AllItems : Place(x.path) = Place(y.path) => x.path = y.path

\* Assets are not replaced by others and their configurations do not change.
Consistent ==
  \A x, y \in AllItems : x.path.exact = y.path.exact /\ KeyOf(x) = KeyOf(y) => x = y

\* Assets in chunks are not deleted by configuration.
NoChunksDeleted == \A batch \in DeleteBatches : \A x \in ItemsOf(batch) : x.response.range = None

\* Nothing is certified in an encoding, in chunks or under another spelling where it is
\* deleted by path.
PlainByPath ==
  \A x \in AllItems : \A p \in UNION (IF x.path.exact THEN AssetPaths ELSE FallbackPaths) :
    Place(x.path) = Place([exact |-> x.path.exact, url |-> p]) => KeyOf(x) = Key(p, None, None)

\* Where an asset is deleted by configuration, all its encodings are.
DeletedWhole ==
  \A batch \in DeleteBatches : \A order \in Orders(batch.assets) :
    LET items == {w[2] : w \in Work(batch, order)}
    IN  \A x \in items, y \in AllItems : x.path = y.path => \E z \in items : z.path = y.path /\ KeyOf(z) = KeyOf(y)

OthersApart == \A x \in AllItems : Entry(x) \notin Others

\* Each response is found by the URL or scope, encoding and range it was certified
\* for: the tables are never mixed up and no two kinds of response share a key.
TypeOK ==
  /\ \A k \in DOMAIN responses : KeyOf(responses[k]) = k /\ responses[k].path.exact
  /\ \A k \in DOMAIN fallback_responses :
       /\ KeyOf(fallback_responses[k]) = k /\ ~fallback_responses[k].path.exact
       /\ k.range = None

\* Everything the router may answer with is certified, also after a call that
\* ended in an error and whatever else was deleted: no deletion takes the
\* certification of a response that stays.
Certified == \A x \in Items : Entry(x) \in tree

\* Conversely "any certification for those assets" goes with the assets: what is
\* certified and not someone else's is the certification of a response that is kept.
NoOrphans == tree \subseteq Others \cup {Entry(x) : x \in Items}

\* The router adds to and takes from a shared tree its own entries only; a deletion
\* by path and one of everything are for the whole tree.
OthersKept ==
  [][(\E batch \in Batches : CertifyAssets(batch) \/ DeleteAssets(batch))
       => Others \cap tree \subseteq tree']_vars
=============================================================================
