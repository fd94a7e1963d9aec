SPECIFICATION Spec
CONSTANTS
  None = None
  Chunks <- MCChunks
  Concat <- MCConcat
  BadHeaders <- MCBadHeaders
  CertifyBatches <- FilmBatches
  DeleteBatches <- FilmBatches
  AssetPaths = {}
  FallbackPaths = {}
  Others = {}
  Requests = {}
INVARIANT NoOrphans
