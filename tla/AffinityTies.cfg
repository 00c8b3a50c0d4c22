CONSTANTS
  None = None
  Frozen <- MCFrozen
  Subsample <- MCSubsample
  Swapped <- MCSwapped
  RedoSwapped <- MCRedoSwapped
  Predicted <- MCPredicted
  MaxStops = 0
  Redoable = {}
  MaxRedos = 0
SPECIFICATION Spec
INVARIANTS
  NoBiasNoFlip
