------------------------ MODULE ResponseVerification ------------------------
(***************************************************************************)
(* Version 2 verification of ic-response-verification: whether a tree that *)
(* came with a response proves that the canister certified the response    *)
(* for the request (validation/, verify_request_response_pair.rs).         *)
(***************************************************************************)
EXTENDS HttpCertificationTree

\* Mutant: what is pruned is taken to be absent.
PathMightExistIfFound(path, w) == LookupSubtree(w, path).kind = "Found"

\* The answers of lookup_subtree after which a path may exist, or exists.
PathMightExistInTree(path, w) == LookupSubtree(w, path).kind # "Absent"
PathExistsInTree(path, w)     == LookupSubtree(w, path).kind = "Found"

\* validate_expr_path: "Ok", or the error it returns, in the order of its checks.
ValidateExprPath(exprPath, url, w) ==
  LET request   == <<PathPrefix>> \o Segments(url)
      exact     == Append(request, ExactTerminator)
      wildcards == MoreSpecificWildcardsFor(request, exprPath)
      MightExist(wildcard) == PathMightExistInTree(<<PathPrefix>> \o wildcard, w)
  IN  IF exprPath = <<>> \/ Head(exprPath) # PathPrefix THEN "UnexpectedExpressionPathPrefix"
      ELSE IF Last(exprPath) \notin {ExactTerminator, WildcardTerminator}
      THEN "UnexpectedExpressionPathSuffix"
      ELSE IF exprPath = exact
      THEN IF PathExistsInTree(exprPath, w) THEN "Ok" ELSE "ExactExpressionPathNotFoundInTree"
      ELSE IF Last(exprPath) = ExactTerminator THEN "ExactExpressionPathMismatch"
      ELSE IF PathMightExistInTree(exact, w) THEN "ExactExpressionPathMightExistInTree"
      ELSE IF ~IsWildcardPathValidForRequestPath(Front(exprPath), request)
      THEN "WildcardExpressionPathMismatch"
      ELSE IF \E i \in DOMAIN wildcards : MightExist(wildcards[i])
      THEN "MoreSpecificWildcardExpressionMightExistInTree"
      ELSE IF PathExistsInTree(exprPath, w) THEN "Ok"
      ELSE "WildcardExpressionPathNotFoundInTree"

ValidateExprHash(exprPath, cel, w) == LookupSubtree(w, Append(exprPath, cel))

\* c holds the hashes the verifier computes from the request and the response.
ValidateHashes(exprPath, c, w) ==
  LET expr    == ValidateExprHash(exprPath, c.cel, w)
      request == IF Kind(c.cel) = "Full" THEN c.req ELSE ""
      found   == LookupSubtree(expr.node, <<request, c.resp>>)
  IN  IF expr.kind # "Found" THEN "InvalidExpressionHash"
      ELSE IF found.kind # "Found" THEN "InvalidRequestAndResponseHashes"
      ELSE IF found.node # Leaf("") THEN "MissingLeafNode"
      ELSE "Ok"


\* v2_verification, of a response whose certificate is good and certifies data.
V2Verification(exprPath, url, c, w, data) ==
  LET atPath == ValidateExprPath(exprPath, url, w)
  IN  IF Digest(w) # data THEN "InvalidTreeRootHash"
      ELSE IF atPath # "Ok" THEN atPath
      ELSE IF Kind(c.cel) = "Skip"
      THEN IF ValidateExprHash(exprPath, c.cel, w).kind = "Found" THEN "Ok"
           ELSE "InvalidExpressionHash"
      ELSE ValidateHashes(exprPath, c, w)
=============================================================================
