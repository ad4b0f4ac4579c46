SPECIFICATION FairSpec
CONSTANTS
  AT24CXX_DYNAMIC_SCH_ARR_MAX = 3
  PAGE_SIZE = 2
  Operation <- MCOperation
  Level = {0}
INVARIANTS BytesInPlace
PROPERTIES Refines WorkProceeds
