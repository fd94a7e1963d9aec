--------------------------- MODULE MCAssetCanister --------------------------
(***************************************************************************)
(* Three builds for each of two examples: a page, a script and compressed  *)
(* copies; the same with another page and a second script; no page.        *)
(***************************************************************************)
EXTENDS AssetCanister

MCConcat(a, b) == a \o b

MCGlob(extension) ==
  CASE extension = "js"  -> {<<"assets", "app.js">>, <<"assets", "lib.js">>, <<"old.js">>}
    [] extension = "ico" -> {<<"favicon.ico">>}
    [] OTHER -> {}

File(path, content) == [path |-> path, content |-> content]

\* The name of a compressed copy in the build of an example.
Gzip(ex, name) == IF ex = "assets" THEN name \o ".gz" ELSE name \o ".gzip"

MCBuilds(ex) ==
  IF ex = "skip-certification" THEN {{}}
  ELSE {{File(<<"index.html">>, "page1"), File(<<"index.html.br">>, "page1_br"),
         File(<<"assets", "app.js">>, "app"), File(<<"assets", Gzip(ex, "app.js")>>, "app_gz")},
        {File(<<"index.html">>, "page2"), File(<<Gzip(ex, "index.html")>>, "page2_gz"),
         File(<<"assets", "app.js">>, "app"), File(<<"assets", "lib.js">>, "lib")},
        {File(<<"old.js">>, "old"), File(<<"favicon.ico">>, "icon")}}

SiteUrls ==
  {<<"", "">>, <<"", "index.html">>, <<"", "assets", "app.js">>, <<"", "assets", "lib.js">>,
   <<"", "assets", "", "app.js">>, <<"", "metrics">>, <<"", "metrics", "">>, <<"", "", "metrics">>,
   <<"", "old-url">>, <<"", "unknown">>}

SiteRequests ==
  [method : {"GET", "HEAD"}, url : SiteUrls, accept : {{}, {"gzip"}, {"br", "gzip"}}, range : {None}]
=============================================================================
