SPECIFICATION Spec
CONSTANTS
  Half = 7
  WrapWindow = 3
  Header = 1
  MaxWindow = 9
INVARIANTS
  CompareFollowsDistance
  CompareIsTransitiveInWindow
  NeverOvershoots
