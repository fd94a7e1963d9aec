SPECIFICATION FairSpec
CONSTANTS
  None = None
  Threads = {t1, t2, t3}
  Entries = {good1, good2, good3, bad}
  Valid = {good1, good2, good3}
  MaxSize = 2
INVARIANTS OnlyValidCached RecentlyUsedHeld
PROPERTIES ImplementsOracle 
