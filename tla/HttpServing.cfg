SPECIFICATION Spec
CONSTANTS
  None = None
  Less <- LabelLess
  Kind <- MCKind
  TreeEntries <- ManyEntries
  Urls <- ManyUrls
  PrunedUrls <- FewUrls
  ClaimedPaths <- ManyPaths
  MaxPruned = 3
VIEW View
INVARIANTS MostSpecificVerifies 
PROPERTY ImplementsSet
