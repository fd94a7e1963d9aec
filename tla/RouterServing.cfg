SPECIFICATION Spec
CONSTANTS
  None = None
  Chunks <- MCChunks
  Concat <- MCConcat
  BadHeaders <- MCBadHeaders
  CertifyBatches <- SiteBatches
  DeleteBatches <- SmallBatches
  AssetPaths <- PlainPaths
  FallbackPaths <- PlainScopes
  Others <- OtherEntries
  Requests <- SiteRequests
INVARIANTS Certified NoOrphans ServedVerifies ChunksFitTogether
PROPERTY OthersKept
