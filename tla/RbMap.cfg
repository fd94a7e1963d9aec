SPECIFICATION Spec
CONSTANTS
  None = None
  Less <- InOrder
  Keys <- ManyLabels
  Labels <- SomeLabels
  Values = {1, 2}
VIEW View
INVARIANTS WellFormed WitnessSettlesKey RangesSettled RangesReveal PruningNeverLies
PROPERTY ImplementsMap
