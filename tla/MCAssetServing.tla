--------------------------- MODULE MCAssetServing ---------------------------
(***************************************************************************)
(* Instances of AssetServing for TLC.  A path is the sequence of strings   *)
(* between its slashes; contents are named for the file and its encoding.  *)
(***************************************************************************)
EXTENDS AssetServing

MCChunks(content) ==
  CASE content = "film" -> 3 [] content = "film_br" -> 2 [] OTHER -> 1

MCConcat(a, b) == a \o b

MCBadHeaders == {"ic-certificateexpression"}

Root  == <<"", "">>              \* "/"
Old   == <<"", "old">>           \* "/old"
Index == <<"", "index.html">>    \* "/index.html"
Film  == <<"", "film">>          \* "/film"
Js    == <<"", "js">>            \* "/js"
JsDir == <<"", "js", "">>        \* "/js/"
Lib   == <<"", "lib.js">>        \* "/lib.js"
App   == <<"", "js", "app.js">>  \* "/js/app.js"
JsAny == <<"", "js", "x", "y">>  \* "/js/x/y"

AssetAt(path, content) == [path |-> path, content |-> content]

Scope(url, status) == [scope |-> url, status |-> status]
Encoded(encoding, postfix) == [encoding |-> encoding, postfix |-> postfix]

FileConfig(path, headers, fallbacks, aliases, encodings) ==
  [kind |-> "File", path |-> path, headers |-> headers, fallbacks |-> fallbacks,
   aliases |-> aliases, encodings |-> encodings]

PatternConfig(matched, headers, encodings) ==
  [kind |-> "Pattern", matched |-> matched, headers |-> headers, fallbacks |-> <<>>,
   aliases |-> <<>>, encodings |-> encodings]

Redirect(from, to) ==
  [kind |-> "Redirect", from |-> from, to |-> to, status |-> "301", headers |-> None]

Batch(assets, configs) == [assets |-> assets, configs |-> configs]

-----------------------------------------------------------------------------
IndexHtml   == AssetAt(<<"index.html">>, "index")
IndexHtmlGz == AssetAt(<<"index.html.gz">>, "index_gz")
AppJs       == AssetAt(<<"js", "app.js">>, "app")
LibJs       == AssetAt(<<"", "lib.js">>, "lib")
BadFile     == AssetAt(<<"bad">>, "bad")
FilmFile    == AssetAt(<<"film">>, "film")
FilmFileBr  == AssetAt(<<"film.br">>, "film_br")

IndexConfig ==
  FileConfig(<<"index.html">>, "html", <<Scope(Root, "200"), Scope(Js, "404")>>, <<Root>>,
             <<Encoded("br", ".br"), Encoded("gzip", ".gz")>>)

AppConfig == FileConfig(<<"js", "app.js">>, "js", <<Scope(JsDir, "200")>>, <<>>, <<>>)

BadConfig == FileConfig(<<"bad">>, "ic-certificateexpression", <<>>, <<>>, <<>>)

FilmConfig == PatternConfig({<<"film">>, <<"film.br">>}, "video", <<Encoded("br", ".br")>>)

IndexBatch    == Batch({IndexHtml, IndexHtmlGz}, <<IndexConfig>>)
AppBatch      == Batch({AppJs}, <<AppConfig>>)
LibBatch      == Batch({LibJs}, <<>>)
FilmBatch     == Batch({FilmFile, FilmFileBr}, <<FilmConfig>>)
RedirectBatch == Batch({}, <<Redirect(Old, Root)>>)

\* One file of an asset only, under all its URLs and scopes.
IndexOnlyBatch == Batch({IndexHtml}, <<IndexConfig>>)
FilmOnlyBatch  == Batch({FilmFile}, <<FilmConfig>>)

\* A list of headers that is refused, among files that are certified in any order.
BrokenBatch ==
  Batch({LibJs, IndexHtml, BadFile}, <<BadConfig, IndexConfig, Redirect(Old, Root)>>)

SiteBatches ==
  {IndexBatch, IndexOnlyBatch, AppBatch, LibBatch, FilmBatch, FilmOnlyBatch, RedirectBatch, BrokenBatch}

\* The assets in chunks are never deleted by configuration.
SmallBatches == {IndexBatch, AppBatch, LibBatch, RedirectBatch}

\* What is deleted by path has no encodings.
PlainPaths == {{Old, Lib}, {App}}
PlainScopes == {{JsDir}}

SiteUrls == {Root, Old, Index, Film, Lib, Js, JsDir, App, JsAny}

\* "bytes=0-", "bytes=1-", "bytes=2-", "bytes=0-1", "bytes=2-1", "bytes=x-" and "bytes=1-,2-".
Ranges ==
  {None, ChunkRange(0), ChunkRange(1), ChunkRange(2), RangeHeader(TRUE, <<0, 1>>), RangeHeader(TRUE, <<2, 1>>),
   RangeHeader(TRUE, <<-1, None>>), RangeHeader(TRUE, <<1, -1, None>>)}

SiteRequests ==
  [url : SiteUrls, accept : {{}, {"gzip"}, {"br", "gzip"}, {"identity", "br"}}, range : Ranges]

-----------------------------------------------------------------------------
(***************************************************************************)
(* What else the canister certifies in the tree: at the place of an asset, *)
(* and as a fallback for the same scope as one.                            *)
(***************************************************************************)
Posted   == [req |-> "post", resp |-> PrepareResponse("200", "posted", None, None, None)]
NotFound == [req |-> None, resp |-> PrepareResponse("404", "not found", None, None, None)]

OtherEntries ==
  {<<Place([exact |-> TRUE, url |-> App]), Posted>>,
   <<Place([exact |-> FALSE, url |-> Root]), NotFound>>}

\* The asset in chunks, to be deleted by configuration.
FilmBatches == {FilmBatch}

\* What the theorems are about, but for the instance that deletes an asset in chunks.
ASSUME SiteAssumption ==
  \/ DeleteBatches = FilmBatches
  \/ WellSpelt /\ Consistent /\ NoChunksDeleted /\ PlainByPath /\ DeletedWhole
=============================================================================
