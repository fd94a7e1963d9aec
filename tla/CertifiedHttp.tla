--------------------------- MODULE CertifiedHttp ----------------------------
(***************************************************************************)
(* A canister and a verifier together: the canister keeps an               *)
(* HttpCertificationTree and answers a request from one of its entries,    *)
(* with the entry's expression path and witness; the verifier, given the   *)
(* canister's certified data, decides by what it is sent.                  *)
(***************************************************************************)
EXTENDS ResponseVerification

CONSTANTS
  Urls,         \* the URL paths that are requested
  ClaimedPaths, \* the paths a response may claim it was certified under
  PrunedUrls,   \* those of them that are requested where parts of the tree are left out
  MaxPruned     \* a bound: every pruning is looked at of trees of up to so many entries

\* What a verifier can meet: the hashes of a request and of a response.
Claims == [cel  : {e.certification.cel : e \in TreeEntries},
           req  : {e.certification.req : e \in TreeEntries},
           resp : {e.certification.resp : e \in TreeEntries}]

\* c certifies a response with these hashes.
Certifies(c, claim) ==
  /\ c.cel = claim.cel
  /\ Kind(c.cel) # "Skip" => c.resp = claim.resp
  /\ Kind(c.cel) = "Full" => c.req = claim.req

StoredPlaces == {Place(e.path) : e \in StoredEntries}

\* The trees a verifier may be sent: the whole tree with any parts left out.
SentTrees ==
  IF Cardinality(StoredEntries) > MaxPruned THEN {}
  ELSE Prunings(Labeled(PathPrefix, ValueAsHashTree(tree)))

-----------------------------------------------------------------------------
\* A response from the entry that answers a request most precisely passes
\* verification: the canister can make the witness, merging does not panic, and
\* the witness shows the verifier all it asks for, absent paths included.
MostSpecificVerifies ==
  \A e \in StoredEntries, url \in Urls :
    Answers(Place(e.path), url) /\ ~Outdone(StoredPlaces, Place(e.path), url) =>
      LET w == WitnessFor(e, url)
      IN  /\ w # None /\ ~HasPanic(w)
          /\ \A claim \in Claims :
               Certifies(e.certification, claim) =>
                 V2Verification(ToExprPath(e.path), url, claim, w, CertifiedData) = "Ok"

=============================================================================
