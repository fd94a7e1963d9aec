SPECIFICATION Spec
CONSTANTS
  None = None
  Less <- NumberOrder
  Paths <- WidePaths
  Values = {1, 2}
VIEW View
INVARIANTS WellFormed WitnessesSettle
PROPERTY ImplementsPathMap
