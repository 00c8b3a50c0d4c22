CONSTANTS
  None = None
  Frozen <- MCFrozen
  Subsample <- MCSubsample
  Swapped <- MCSwapped
  RedoSwapped <- MCRedoSwapped
  Predicted <- MCPredicted
  MaxStops = 1
  Redoable = {"p1"}
  MaxRedos = 1
SPECIFICATION Spec
INVARIANTS
  WorkDoneOnce
  RowsCreditTheRightModel
  ControlsSwapThePrimary
