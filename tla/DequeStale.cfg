\* The program keeps using an iterator after reserve or shrink_to_fit.
CONSTANTS
  Values = {v1, v2}
  None = None
  MaxRange = 3
  Raw = Raw
  InitialCapacity = 3
  MaxSize = 5
  KeepsIterators = TRUE
SPECIFICATION DequeSpec
CHECK_DEADLOCK FALSE
INVARIANT IteratorsAreSound
