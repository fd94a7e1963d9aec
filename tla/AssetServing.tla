---------------------------- MODULE AssetServing ----------------------------
(***************************************************************************)
(* serve_asset: which of the responses an AssetRouter keeps a request is   *)
(* answered with, and whether that answer passes verification.             *)
(***************************************************************************)
EXTENDS AssetRouter

CONSTANT Requests  \* a URL path, the encodings that are accepted and a Range header

\* A Range header: whether it starts with "bytes=", and what stands between its dashes
\* after that, a number, None for nothing, or -1 for what is no number.
RangeHeader(bytes, parts) == [bytes |-> bytes, parts |-> parts]

\* parse_range_header_str.
IsRange(header) ==
  /\ header.bytes
  /\ Len(header.parts) = 2
  /\ header.parts[1] \in Nat
  /\ header.parts[2] \in Nat \cup {None}
  /\ header.parts[2] = None \/ header.parts[1] <= header.parts[2]

\* The request with the start of the range for the range: its end is not looked at.
MaybeGetRangeBegin(q) == IF q.range = None THEN q ELSE [q EXCEPT !.range = q.range.parts[1]]

\* The header that a further chunk is certified for.
ChunkRange(k) == RangeHeader(TRUE, <<k, None>>)

ASSUME RequestAssumption ==
  /\ \A q \in Requests : q = [url |-> q.url, accept |-> q.accept, range |-> q.range]
  /\ \A batch \in Batches : \A a \in batch.assets :
       \A k \in 0 .. Chunks(a.content) : ChunkRange(k) # None

\* default_encoding_quality, in tenths.
Quality(encoding) ==
  CASE encoding = "br"       -> 10
    [] encoding = "zstd"     -> 9
    [] encoding = "gzip"     -> 8
    [] encoding = "deflate"  -> 7
    [] encoding = "identity" -> 5
    [] OTHER                 -> 6

\* The first of the prioritized encodings that a table has a response in.
BestEncoding(encodings) == CHOOSE e \in encodings : \A d \in encodings : Quality(d) <= Quality(e)

Has(table, path, encoding, range) == Key(path, encoding, range) \in DOMAIN table

Get(table, path, encoding, range) ==
  IF Has(table, path, encoding, range) THEN table[Key(path, encoding, range)] ELSE None

\* A response in one chunk stands for itself, a longer one for its first chunk.
BodyIsLarge(item) == item.response.range = None /\ IsLarge(item.response.content)

WholeOrFirstChunk(item, url, encoding) ==
  IF BodyIsLarge(item) THEN Get(responses, url, encoding, 0) ELSE item

Encodings(table, path, q, range) == {e \in q.accept : Has(table, path, e, range)}

GetEncodedAsset(q) ==
  LET es == Encodings(responses, q.url, q, q.range)
      e  == BestEncoding(es)
  IN  IF es = {} THEN None ELSE WholeOrFirstChunk(responses[Key(q.url, e, q.range)], q.url, e)

GetPlainAsset(q) ==
  IF ~Has(responses, q.url, None, q.range) THEN None
  ELSE WholeOrFirstChunk(responses[Key(q.url, None, q.range)], q.url, None)

\* get_encoded_fallback_asset, and else the fallback without an encoding.
GetFallback(scope, q) ==
  LET es == Encodings(fallback_responses, scope, q, None)
  IN  IF es # {} THEN fallback_responses[Key(scope, BestEncoding(es), None)]
      ELSE Get(fallback_responses, scope, None, None)

\* Mutant: the scopes of a directory are tried without the slash first.
ScopesSlashLast(url) ==
  [i \in 1 .. 2 * (Len(url) - 1) |->
     LET directory == SubSeq(url, 1, Len(url) - (i + 1) \div 2)
     IN  IF i % 2 = 0 THEN Append(directory, DirSeparator) ELSE directory]

\* For "/a/b": "/a/", "/a", "/" and the empty string.
Scopes(url) ==
  [i \in 1 .. 2 * (Len(url) - 1) |->
     LET directory == SubSeq(url, 1, Len(url) - (i + 1) \div 2)
     IN  IF i % 2 = 1 THEN Append(directory, DirSeparator) ELSE directory]

FallbackFor(q) ==
  LET i == SelectInSeq(Scopes(q.url), LAMBDA scope : GetFallback(scope, q) # None)
  IN  IF i = 0 THEN None ELSE GetFallback(Scopes(q.url)[i], q)

\* Mutant: encodings are not looked at when a range is asked for.
GetAssetForRequestPlainRanges(q) ==
  LET encoded == IF q.range = None THEN GetEncodedAsset(q) ELSE None
      plain   == GetPlainAsset(q)
  IN  IF encoded # None THEN encoded ELSE IF plain # None THEN plain ELSE FallbackFor(q)

GetAssetForRequest(q) ==
  LET encoded == GetEncodedAsset(q)
      plain   == GetPlainAsset(q)
  IN  IF encoded # None THEN encoded ELSE IF plain # None THEN plain ELSE FallbackFor(q)

\* serve_asset answers with this response, or not at all: with an error where the range
\* is malformed, no asset matches, and the tree makes no witness for so short a request.
WitnessRefused(item, url) ==
  ~item.path.exact /\ Len(Segments(item.path.url)) > Len(Segments(url))

ServeAsset(q) ==
  LET item == GetAssetForRequest(MaybeGetRangeBegin(q))
  IN  IF q.range # None /\ ~IsRange(q.range) THEN None
      ELSE IF item = None \/ WitnessRefused(item, q.url) THEN None ELSE item

-----------------------------------------------------------------------------
CertifiedPlaces == {pc[1] : pc \in tree}

\* What CertifiedHttp shows of the tree, its witnesses and their verification: an
\* entry that is in the tree, answers the request and is not outdone passes.
Verifies(item, q) ==
  /\ Entry(item) \in tree
  /\ Answers(Place(item.path), q.url)
  /\ ~Outdone(CertifiedPlaces, Place(item.path), q.url)
  /\ LET k == Certification(item.response).req IN k = None \/ q.range = ChunkRange(k)

\* A client asks for a range only of what it has been given the first chunk of, and
\* names no end: the answer would be the whole chunk, but certified for another header.
AsksForChunk(q) ==
  q.range # None =>
    /\ IsRange(q.range)
    /\ LET k == q.range.parts[1]
       IN  /\ k = 0 \/ q.range = ChunkRange(k)
           /\ \E e \in q.accept \cup {None} : Has(responses, q.url, e, k)

\* A scope that does not end in a slash covers the URL path it is spelt like, but
\* serve_asset looks only at those of the directories above.
IsScope(url) == ~EndsWithSlash(url) /\ \E k \in DOMAIN fallback_responses : k.path = url

\* Of what others certify in the tree, something answers the request more precisely.
OutdoneByOthers(item, q) ==
  Outdone({pc[1] : pc \in Others \cap tree}, Place(item.path), q.url)

\* Assets and requests name places as the tree spells them.
WellSpelt ==
  \A url \in {x.path.url : x \in AllItems} \cup {q.url : q \in Requests} :
    url \in Seq(STRING \cup {DirSeparator}) /\ Spelt(url)

\* A table has the response without an encoding wherever it has one, and the table of
\* URL paths, of what is in chunks, the whole and all chunks.
WholeAssets ==
  /\ \A k \in DOMAIN responses : Has(responses, k.path, None, None)
  /\ \A k \in DOMAIN fallback_responses : Has(fallback_responses, k.path, None, None)
  /\ \A k \in DOMAIN responses : Has(responses, k.path, k.encoding, None)
  /\ \A k \in DOMAIN responses : BodyIsLarge(responses[k]) =>
       \A r \in 0 .. Chunks(responses[k].response.content) - 1 : Has(responses, k.path, k.encoding, r)

\* Every response that serve_asset chooses passes verification, unless others have
\* certified a better one: what it takes for the best answer, searching its tables by
\* URL, is the best answer in the tree.
ServedVerifies ==
  \A q \in Requests : AsksForChunk(q) /\ ~IsScope(q.url) =>
    LET item == GetAssetForRequest(MaybeGetRangeBegin(q))
    IN  item # None => /\ ~WitnessRefused(item, q.url)
                       /\ Verifies(item, q) \/ OutdoneByOthers(item, q)

\* Once a client is given the first chunk of an asset, each further chunk it asks
\* for with the same headers is of the same content and encoding.
ChunksFitTogether ==
  \A q \in Requests :
    LET first == ServeAsset(q)
    IN  q.range = None /\ first # None /\ first.response.range = 0 =>
          \A k \in 1 .. Chunks(first.response.content) - 1 :
            LET next == ServeAsset([q EXCEPT !.range = ChunkRange(k)])
            IN  next # None /\ next.response = [first.response EXCEPT !.range = k]
=============================================================================
