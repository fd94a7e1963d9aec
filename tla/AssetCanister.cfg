SPECIFICATION Spec
CONSTANTS
  None = None
  Garbled = Garbled
  MaxU128 = 9
  Concat <- MCConcat
  Glob <- MCGlob
  Examples = {"custom-assets", "assets", "skip-certification"}
  Builds <- MCBuilds
  Requests <- SiteRequests
  Canister = 5
  Root = root
  Offset = 1
  MaxRounds = 3
INVARIANTS AcceptedIsCurrent AnswersVerify
