\* Blocks of two, three and (too many) six units in two adjacent pages of six.
SPECIFICATION Spec
CONSTANTS
  Unit <- MCUnit
  BaseAddrs <- MCBaseAddrs
  PageAddrs <- MCPageAddrs
  PageUnits = 6
  Sizes = {2, 3, 6}
CHECK_DEADLOCK FALSE
INVARIANTS ListOrdered Tiled SweepMeetsAll FailsOnlyWhenFull
PROPERTIES SweepEnds ImplementsStore
