--------------------------- MODULE WildcardSearch ---------------------------
(***************************************************************************)
(* more_specific_wildcards_for as it runs, one step per turn of its loop:  *)
(* the canister and the verifier both rely on it to stop, and to list each *)
(* wildcard that would answer a request more precisely.                    *)
(***************************************************************************)
EXTENDS UrlPaths, FiniteSets

CONSTANTS
  Labels,      \* the segments of paths, reserved ones included
  MaxSegments  \* a bound on how many segments a path has

VARIABLES
  requested, responding,  \* the arguments
  potential,              \* potential_path
  start,                  \* responding_wildcard_path, once it has been checked
  found                   \* valid_wildcards

vars == <<requested, responding, potential, start, found>>

\* Paths may end in a slash.
ASSUME LabelsAssumption == DirSeparator \in Labels /\ MaxSegments \in Nat

\* The paths that are asked for and the wildcards that are answered with, without
\* prefix and terminator.
AnyPath == UNION {[1 .. n -> Labels] : n \in 0 .. MaxSegments}

Done ==
  /\ Len(potential) <= Len(start)
  /\ potential = <<>> <=> start = <<>>
  /\ potential # <<>> => Last(potential) = Last(start)

Init ==
  /\ requested \in AnyPath
  /\ responding \in AnyPath
  /\ potential = StripPathAffixes(Append(requested, ExactTerminator))
  /\ LET stripped == StripPathAffixes(Append(responding, WildcardTerminator))
     IN  start = IF IsWildcardPathValidForRequestPath(stripped, potential)
                 THEN stripped ELSE <<>>
  /\ found = <<>>

\* The wildcard ends in a slash: next comes the one without it.
DropSlash ==
  /\ ~Done /\ EndsWith(potential, DirSeparator)
  /\ found' = Append(found, Append(potential, WildcardTerminator))
  /\ potential' = Front(potential)
  /\ UNCHANGED <<requested, responding, start>>

\* Mutant: the slash is only put in the place of a name, so a path that has none
\* left is not changed any more.
DropNameIfAny ==
  /\ ~Done /\ ~EndsWith(potential, DirSeparator) /\ potential # <<>>
  /\ found' = Append(found, Append(potential, WildcardTerminator))
  /\ potential' = Append(Front(potential), DirSeparator)
  /\ UNCHANGED <<requested, responding, start>>

\* It does not: next comes the directory it lies in.
DropName ==
  /\ ~Done /\ ~EndsWith(potential, DirSeparator)
  /\ found' = Append(found, Append(potential, WildcardTerminator))
  /\ potential' = Append(PopSegment(potential), DirSeparator)
  /\ UNCHANGED <<requested, responding, start>>

Next == DropSlash \/ DropName

Spec == Init /\ [][Next]_vars /\ WF_vars(Next)

-----------------------------------------------------------------------------
\* A path as Segments makes it: empty segments only at the end.
Ordinary(path) ==
  \A i \in DOMAIN path : path[i] \notin {PathPrefix, ExactTerminator, WildcardTerminator}
                         /\ (path[i] = "" => i = Len(path))

\* If the responding wildcard covers the request then exactly the wildcards that
\* cover it too and are more specific are listed, each once, the most specific
\* first: the one that answers a request is never among them.
ListsMoreSpecific ==
  Done /\ Ordinary(requested) /\ Ordinary(responding) /\ Covers(responding, requested) =>
    LET listed == [i \in DOMAIN found |-> Front(found[i])]
    IN  /\ ToSet(listed) = {w \in AnyPath : Ordinary(w) /\ Covers(w, requested)
                                                 /\ MoreSpecific(w, responding)}
        /\ \A i, j \in DOMAIN listed : i < j => MoreSpecific(listed[i], listed[j])

\* The loop as it runs and the definition the other modules use agree.
AgreesWithDefinition ==
  Done => found = MoreSpecificWildcardsFor(Append(requested, ExactTerminator),
                                           Append(responding, WildcardTerminator))

\* The loop ends for every pair of paths, whatever segments a URL or the header
\* of a response puts in them.
Terminates == <>Done
=============================================================================
