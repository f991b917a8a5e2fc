SPECIFICATION Spec
CONSTANTS
  MaxObjects = 2
INVARIANTS
  StopLasts
