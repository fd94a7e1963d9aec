------------------------------ MODULE UrlPaths ------------------------------
(***************************************************************************)
(* Paths of the HTTP certification tree: how a URL path becomes one        *)
(* (certification_tree_path.rs), and which of them answer a request.       *)
(*                                                                         *)
(* A URL path is the sequence of strings between its slashes: "/a//b/" is  *)
(* <<"", "a", "", "b", "">> and the empty string is <<"">>.                *)
(***************************************************************************)
EXTENDS Naturals, SequencesExt

PathPrefix         == "http_expr"
DirSeparator       == ""     \* the empty segment, as after a slash at the end
ExactTerminator    == "<$>"
WildcardTerminator == "<*>"

EndsWithSlash(url) == Len(url) > 1 /\ Last(url) = DirSeparator

\* The segments that are not empty, up to the nth.
NotEmpty(url) ==
  LET kept[n \in 0 .. Len(url)] ==
        IF n = 0 THEN <<>>
        ELSE IF url[n] = DirSeparator THEN kept[n - 1] ELSE Append(kept[n - 1], url[n])
  IN  kept

\* One empty segment is left at the end, for a directory.
Segments(url) ==
  NotEmpty(url)[Len(url)] \o IF EndsWithSlash(url) THEN <<DirSeparator>> ELSE <<>>

\* An HttpCertificationPath is a URL path and whether it is exact or a wildcard.
ToTreePath(path) ==
  Append(Segments(path.url), IF path.exact THEN ExactTerminator ELSE WildcardTerminator)

ToExprPath(path) == <<PathPrefix>> \o ToTreePath(path)

\* The place of a path in the tree, which several URLs may name.
Place(path) == [segments |-> Segments(path.url), exact |-> path.exact]

\* Spelt as the tree has it: no segment is empty but the first and, for a directory, the
\* last.
Spelt(url) == url = <<DirSeparator>> \o Segments(url)

EndsWith(path, segment) == path # <<>> /\ Last(path) = segment

IsWildcardPathValidForRequestPath(wildcard, request) ==
  \/ IsPrefix(wildcard, request)
  \/ EndsWith(wildcard, DirSeparator) /\ IsPrefix(Front(wildcard), request)

-----------------------------------------------------------------------------
(***************************************************************************)
(* Which wildcards would answer a request more precisely than a given one, *)
(* code that the canister and the verifier share.  WildcardSearch has the  *)
(* loop of more_specific_wildcards_for step by step.                       *)
(***************************************************************************)
\* Vec::pop, which leaves an empty path alone.
PopSegment(path) == IF path = <<>> THEN <<>> ELSE Front(path)

\* Mutant: the terminator of an exact path is not stripped.
StripPathAffixesKeepsExact(path) ==
  LET p == IF path # <<>> /\ Head(path) = PathPrefix THEN Tail(path) ELSE path
      q == IF EndsWith(p, WildcardTerminator) THEN Front(p) ELSE p
  IN  IF Len(q) > 1 /\ Head(q) = DirSeparator THEN Tail(q) ELSE q

StripPathAffixes(path) ==
  LET p == IF path # <<>> /\ Head(path) = PathPrefix THEN Tail(path) ELSE path
      q == IF EndsWith(p, ExactTerminator) \/ EndsWith(p, WildcardTerminator)
           THEN Front(p) ELSE p
  IN  IF Len(q) > 1 /\ Head(q) = DirSeparator THEN Tail(q) ELSE q

\* `/a/b` is followed by `/a/`, `/a/` by `/a`.
NextPotential(path) ==
  IF EndsWith(path, DirSeparator) THEN Front(path)
  ELSE Append(PopSegment(path), DirSeparator)

\* Mutant: the loop stops at the length of the responding path.
LoopEndsAtLength(path, responding) == Len(path) <= Len(responding)

LoopEnds(path, responding) ==
  /\ Len(path) <= Len(responding)
  /\ path = <<>> <=> responding = <<>>
  /\ path # <<>> => Last(path) = Last(responding)

\* The potential paths, turn by turn.  A turn takes a slash or a name away, so that
\* there are no more than two for each segment and one for the root.
Potentials(path) ==
  LET potential[n \in 0 .. 2 * Len(path) + 1] ==
        IF n = 0 THEN path ELSE NextPotential(potential[n - 1])
  IN  potential

WildcardsDownTo(path, responding) ==
  LET potential == Potentials(path)
      last == CHOOSE n \in DOMAIN potential :
                /\ LoopEnds(potential[n], responding)
                /\ \A m \in 0 .. n - 1 : ~LoopEnds(potential[m], responding)
  IN  [n \in 1 .. last |-> Append(potential[n - 1], WildcardTerminator)]

MoreSpecificWildcardsFor(requested, responding) ==
  LET potential == StripPathAffixes(requested)
      stripped  == StripPathAffixes(responding)
  IN  WildcardsDownTo(potential,
                      IF IsWildcardPathValidForRequestPath(stripped, potential)
                      THEN stripped ELSE <<>>)

-----------------------------------------------------------------------------
(***************************************************************************)
(* The same in terms of URLs, as a reference: a wildcard covers a request  *)
(* if the request's URL path continues it, segment by segment, a slash at  *)
(* the end of the wildcard included; and the longer of two is the more     *)
(* specific, one with a slash at the end before one without.               *)
(***************************************************************************)
IsDirectory(segments) == EndsWith(segments, DirSeparator)

Names(segments) == IF IsDirectory(segments) THEN Front(segments) ELSE segments

\* A request for a file inside the directory, or for the directory itself.
Covers(wildcard, request) ==
  /\ IsPrefix(Names(wildcard), Names(request))
  /\ IsDirectory(wildcard) =>
       Len(Names(request)) > Len(Names(wildcard)) \/ IsDirectory(request)

MoreSpecific(v, w) ==
  \/ Len(Names(v)) > Len(Names(w))
  \/ Names(v) = Names(w) /\ IsDirectory(v) /\ ~IsDirectory(w)

\* A response certified at place p answers a request for url.
Answers(p, url) ==
  IF p.exact THEN p.segments = Segments(url) ELSE Covers(p.segments, Segments(url))

\* One of the places answers the request more precisely than place p does.
Outdone(places, p, url) ==
  LET request == Segments(url)
  IN  /\ ~p.exact
      /\ \E d \in places :
           \/ d.exact /\ d.segments = request
           \/ /\ ~d.exact /\ Covers(d.segments, request)
              /\ MoreSpecific(d.segments, p.segments)
=============================================================================
