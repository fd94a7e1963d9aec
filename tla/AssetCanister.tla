---------------------------- MODULE AssetCanister ---------------------------
(***************************************************************************)
(* Three examples that serve a web site over certified HTTP: custom-assets,*)
(* which certifies the files of its build on its own, assets, which leaves *)
(* that to an AssetRouter that shares its tree, and skip-certification,    *)
(* which certifies that nothing is.                                        *)
(*                                                                         *)
(* A build is a set of files, each a path without a slash in front and a   *)
(* content.  The memory of a canister is a record of its thread-locals,    *)
(* and a tree the set of certifications in it.                             *)
(*                                                                         *)
(* An example is installed with one build and upgraded to others, in       *)
(* rounds that certify it.  Replicas that are behind give the answers of   *)
(* any round, and a gateway verifies what it gets, of which the parts may  *)
(* be of different rounds.                                                 *)
(***************************************************************************)
EXTENDS GatewayVerification

CONSTANTS
  Concat(_, _),  \* the concatenation of two strings
  Glob(_),       \* the paths of files that have an extension
  Examples,      \* the examples: "custom-assets", "assets" and "skip-certification"
  Builds(_),     \* the builds of each of them
  Requests,      \* the requests: a method, a URL path, the encodings accepted, and no range
  Canister,      \* its identifier
  Root,          \* the key of the subnet
  Offset,        \* how far from its clock the gateway lets a certificate's time be
  MaxRounds      \* a bound on the rounds

Extensions == {"css", "js", "ico", "svg"}

ASSUME ExamplesAssumption == Examples \subseteq {"custom-assets", "assets", "skip-certification"}

\* The files of a build, by paths of names that are not empty, are none that stand in
\* the way of a redirect or of the metrics, and have one extension each.
ASSUME BuildAssumption ==
  /\ \A x, y \in Extensions : x # y => Glob(x) \cap Glob(y) = {}
  /\ \A ex \in Examples : \A build \in Builds(ex) :
       /\ IsFiniteSet(build)
       /\ \A f, g \in build : f.path = g.path => f = g
       /\ \A f \in build : /\ f.path \in Seq(STRING \ {DirSeparator}) /\ f.path # <<>>
                           /\ f.path \notin {<<"old-url">>, <<"metrics">>}

\* The encoding that both examples prefer among those accepted.
Preferred(accept) == IF "br" \in accept THEN "br" ELSE IF "gzip" \in accept THEN "gzip" ELSE None

\* Whoever asks for something may ask for it in another encoding, and spelt as it is
\* certified.
ASSUME RequestAssumption ==
  \A q \in Requests :
    /\ q = [method |-> q.method, url |-> q.url, accept |-> q.accept, range |-> None]
    /\ q.url \in Seq(STRING) /\ q.url # <<>> /\ q.url[1] = ""
    /\ None \notin q.accept
    /\ [q EXCEPT !.url = <<"">> \o Segments(q.url)] \in Requests
    /\ \A e \in {"br", "gzip", None} : \E p \in Requests : p = [q EXCEPT !.accept = p.accept] /\ Preferred(p.accept) = e

ASSUME BoundsAssumption == MaxRounds \in 0 .. MaxU128 /\ Offset \in Nat /\ Root \notin {None, Garbled}

VARIABLES
  example,         \* the example that is installed
  memory,          \* its memory
  certified_data,  \* what it has last had certified
  history          \* its tree, its certified data and its answers at each round so far, by time

vars == <<example, memory, certified_data, history>>

IndexFile   == <<"index.html">>
MetricsPath == <<"", "metrics">>  \* "/metrics"

MetricsPlace == Place([exact |-> TRUE, url |-> MetricsPath])

Skip == [cel |-> "Skip", req |-> None, resp |-> None]

-----------------------------------------------------------------------------
(***************************************************************************)
(* custom-assets.  A response is certified alone, with all its headers:    *)
(* its content type, its cache control and its encoding.                   *)
(***************************************************************************)
IndexReqPath == <<"">>  \* the empty string

CustomPlace(path) == Place([exact |-> path # IndexReqPath, url |-> path])

AssetResponse(content, type, cache, encoding) ==
  [status |-> "200", cel |-> "ResponseOnly",
   body |-> [content |-> content, type |-> type, cache |-> cache, encoding |-> encoding]]

CustomMetrics == [AssetResponse("balance", "json", "no-cache", None) EXCEPT !.cel = "Skip"]

\* The copy of a file with an encoding, if there is one.
Encoded(build, path, encoding) ==
  {f \in build : f.path = Append(Front(path), Concat(Last(path), Concat(".", encoding)))}

\* A file and its copies, with the request path they are kept under.
CertifyAsset(build, file, path, type, cache) ==
  {[path |-> path, encoding |-> None, response |-> AssetResponse(file.content, type, cache, None)]}
    \cup UNION {{[path |-> path, encoding |-> e, response |-> AssetResponse(f.content, type, cache, e)] :
                    f \in Encoded(build, file.path, e)} : e \in {"gzip", "br"}}

CertifyIndexAsset(build) ==
  UNION {CertifyAsset(build, f, IndexReqPath, "html", "no-cache") : f \in {g \in build : g.path = IndexFile}}

CertifyAssetGlob(build, extension) ==
  UNION {CertifyAsset(build, f, <<"">> \o f.path, extension, "immutable") :
           f \in {g \in build : g.path \in Glob(extension) /\ g.path[1] = "assets"}}

\* The tables RESPONSES and ENCODED_RESPONSES, which have no encoding in common.
CustomMemory(build) ==
  LET items == CertifyIndexAsset(build) \cup UNION {CertifyAssetGlob(build, x) : x \in Extensions}
      keys  == {<<x.path, x.encoding>> : x \in items}
  IN  [responses |-> [k \in keys |-> (CHOOSE x \in items : <<x.path, x.encoding>> = k).response],
       tree      |-> {<<MetricsPlace, Skip>>}
                       \cup {<<CustomPlace(x.path), [cel |-> "ResponseOnly", req |-> None,
                               resp |-> [status |-> x.response.status, body |-> x.response.body]]>> : x \in items}]

\* The request path a response is kept under.
AssetReqPath(q) == IF <<q.url, None>> \in DOMAIN memory.responses THEN q.url ELSE IndexReqPath

\* Mutant: an encoding is served under the path of the request, the index page too.
AssetHandlerAtPath(q) ==
  LET path == AssetReqPath(q)
      Has(e) == e \in q.accept /\ <<path, e>> \in DOMAIN memory.responses
      best == IF Has("br") THEN "br" ELSE IF Has("gzip") THEN "gzip" ELSE None
  IN  IF q.url = MetricsPath THEN [response |-> CustomMetrics, place |-> MetricsPlace]
      ELSE [response |-> memory.responses[<<path, best>>],
            place |-> IF best = None THEN CustomPlace(path) ELSE CustomPlace(q.url)]

\* asset_handler: the response, and the place it is certified under.
AssetHandler(q) ==
  LET path == AssetReqPath(q)
      Has(e) == e \in q.accept /\ <<path, e>> \in DOMAIN memory.responses
      best == IF Has("br") THEN "br" ELSE IF Has("gzip") THEN "gzip" ELSE None
  IN  IF q.url = MetricsPath THEN [response |-> CustomMetrics, place |-> MetricsPlace]
      ELSE [response |-> memory.responses[<<path, best>>], place |-> CustomPlace(path)]

-----------------------------------------------------------------------------
(***************************************************************************)
(* assets.  The router certifies each response with a GET request.         *)
(***************************************************************************)
\* No file of a site is longer than a chunk.
OneChunk(content) == 1

Router ==
  INSTANCE AssetServing WITH
    tree <- memory.tree, responses <- memory.responses, fallback_responses <- memory.fallback_responses,
    Chunks <- OneChunk, BadHeaders <- {}, CertifyBatches <- {}, DeleteBatches <- {},
    AssetPaths <- {}, FallbackPaths <- {}, Others <- {}, Requests <- {}

Encodings == <<[encoding |-> "br", postfix |-> ".br"], [encoding |-> "gzip", postfix |-> ".gz"]>>

PatternConfig(extension, encodings) ==
  [kind |-> "Pattern", matched |-> Glob(extension), headers |-> <<extension, "immutable">>,
   fallbacks |-> <<>>, aliases |-> <<>>, encodings |-> encodings]

AssetConfigs ==
  <<[kind |-> "File", path |-> IndexFile, headers |-> <<"html", "no-cache">>,
     fallbacks |-> <<[scope |-> <<"", "">>, status |-> "200"]>>, aliases |-> << <<"", "">> >>,
     encodings |-> Encodings],
    PatternConfig("js", Encodings), PatternConfig("css", Encodings), PatternConfig("ico", <<>>),
    [kind |-> "Redirect", from |-> <<"", "old-url">>, to |-> <<"", "">>, status |-> "301",
     headers |-> <<"text", "no-cache">>]>>

NewRouter == [tree |-> {<<MetricsPlace, Skip>>}, responses |-> <<>>, fallback_responses |-> <<>>]

\* certify_all_assets, for each order certify_assets may go through the files in.
RouterMemories(build) ==
  LET batch == [assets |-> build, configs |-> AssetConfigs]
  IN  {LET work  == Router!Work(batch, order)
           Exact == {w \in work : w[2].path.exact}
       IN  [tree |-> NewRouter.tree \cup {Router!Entry(w[2]) : w \in work},
            responses |-> Router!Stored(<<>>, Exact),
            fallback_responses |-> Router!Stored(<<>>, work \ Exact)] :
         order \in Router!Orders(build)}

\* serve_metrics tells how many responses there are, in the two maps of the router.
ServeMetrics ==
  [status |-> "200", cel |-> "Skip",
   body |-> [assets |-> Cardinality(DOMAIN memory.responses),
             fallback_assets |-> Cardinality(DOMAIN memory.fallback_responses)]]

\* The response and its place, or None where the call traps.
RouterHandler(q) ==
  LET item == Router!ServeAsset(q)
  IN  IF q.url = MetricsPath THEN [response |-> ServeMetrics, place |-> MetricsPlace]
      ELSE IF item = None THEN None
      ELSE [response |-> [status |-> item.response.status, cel |-> "Full", body |-> item.response],
            place |-> Place(item.path)]

\* The certifications of the router in the form that GatewayVerification knows: of
\* a request, and of a response with its status.
RouterCertified(tree) ==
  {IF pc[2] = Skip THEN pc
   ELSE <<pc[1], [cel |-> "Full", req |-> "GET",
                  resp |-> [status |-> pc[2].resp.status, body |-> pc[2].resp]]>> : pc \in tree}

-----------------------------------------------------------------------------
(***************************************************************************)
(* skip-certification: one certification for whatever is asked for.        *)
(***************************************************************************)
SkipPlace == Place([exact |-> FALSE, url |-> <<"">>])

SkipMemory == [tree |-> {<<SkipPlace, Skip>>}]

SkipHandler ==
  [response |-> [status |-> "200", cel |-> "Skip", body |-> "balance"], place |-> SkipPlace]

-----------------------------------------------------------------------------
(***************************************************************************)
(* The canister: what is installed, its memory and its rounds.             *)
(***************************************************************************)
\* The memory that init leaves behind, none if it traps: the build needs an index page.
Memories(ex, build) ==
  CASE ex = "custom-assets"      -> IF \E f \in build : f.path = IndexFile THEN {CustomMemory(build)} ELSE {}
    [] ex = "assets"             -> RouterMemories(build)
    [] ex = "skip-certification" -> {SkipMemory}

Init ==
  /\ example \in Examples
  /\ \E build \in Builds(example) : memory \in Memories(example, build)
  /\ certified_data = memory.tree
  /\ history = <<>>

\* Mutant: what is certified stays that of the build before.
UpgradeOnly(build) ==
  /\ memory' \in Memories(example, build)
  /\ UNCHANGED <<example, certified_data, history>>

\* post_upgrade runs init in memory that is empty; if that traps nothing is changed.
Upgrade(build) ==
  /\ memory' \in Memories(example, build)
  /\ certified_data' = memory'.tree
  /\ UNCHANGED <<example, history>>

Handler(q) ==
  CASE example = "custom-assets"      -> AssetHandler(q)
    [] example = "assets"             -> RouterHandler(q)
    [] example = "skip-certification" -> SkipHandler

\* http_request does not change the memory it answers from.
Snapshot ==
  [tree |-> memory.tree, data |-> certified_data, answers |-> [q \in Requests |-> Handler(q)]]

Round ==
  /\ Len(history) < MaxRounds
  /\ history' = Append(history, Snapshot)
  /\ UNCHANGED <<example, memory, certified_data>>

Next == Round \/ \E build \in Builds(example) : Upgrade(build)

Spec == Init /\ [][Next]_vars

-----------------------------------------------------------------------------
(***************************************************************************)
(* Answers and their verification.                                         *)
(***************************************************************************)
CertifiedIn(tree) == IF example = "assets" THEN RouterCertified(tree) ELSE tree

Certificate(round) ==
  LET contents == [p \in {TimePath, CertifiedDataPath(Canister)} |->
                     IF p = TimePath THEN round ELSE history[round].data]
  IN  [tree |-> [contents |-> contents, shown |-> DOMAIN contents],
       signature |-> [by |-> Root, of |-> contents], delegation |-> None]

\* The verdict on an answer to a request with the certificate of one round and a tree
\* of another, by the clock of the last round.
Verdict(q, answer, round, tree) ==
  LET fields == CertificateHeader(Certificate(round), tree, answer.place)
      v2 == V2Verification(q.url, Recomputed(q, answer.response), Certificate(round), tree, CertifiedIn(tree),
                           answer.place, Canister, Root, Len(history), Offset)
  IN  VerifyVersion(fields, answer.response.cel, 2, "Unused", v2)

Fresh(round) == Len(history) - round <= Offset

\* The URL path names a place that a response is certified at, but in another spelling.
Misspelt(q, tree) ==
  \E pc \in tree : pc[1].exact /\ pc[1].segments = Segments(q.url)
                     /\ q.url # <<"">> \o pc[1].segments

NotAGet(q) == example = "assets" /\ q.method # "GET" /\ q.url # MetricsPath

-----------------------------------------------------------------------------
\* Every request the canister answers, with whatever build and in whatever encoding, is
\* answered with what passes verification while the certificate is fresh; but for a
\* URL path that is spelt with empty segments and names an asset, and for a request
\* that is not a GET and asks the router, which certifies no other.
AnswersVerify ==
  \A round \in DOMAIN history, q \in Requests :
    LET tree   == history[round].tree
        answer == history[round].answers[q]
    IN  answer # None =>
          (Verdict(q, answer, round, tree) = "Ok" <=> Fresh(round) /\ ~Misspelt(q, tree) /\ ~NotAGet(q))

\* Two requests that differ in the encodings they accept and in empty segments only.
Alike(p, q) == p.method = q.method /\ Segments(p.url) = Segments(q.url)

\* Whatever build an answer is from and whatever trees and certificates come with it,
\* a gateway takes it for the answer to a request only if a canister with a fresh
\* certificate gives it to that request, however spelt and in some encoding, or has
\* nothing there certified.
AcceptedIsCurrent ==
  LET Served == {history[i].answers[q] : i \in DOMAIN history, q \in Requests} \ {None}
  IN  \A answer \in Served, j, k \in DOMAIN history, q \in Requests :
        Verdict(q, answer, j, history[k].tree) = "Ok" =>
          /\ Fresh(j)
          /\ \/ /\ answer.response.cel = "Skip"
                /\ Segments(q.url) = Segments(MetricsPath) \/ example = "skip-certification"
             \/ \E p \in Requests : Alike(p, q) /\ history[j].answers[p] = answer
=============================================================================
