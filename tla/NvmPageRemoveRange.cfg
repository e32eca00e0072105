\* remove_key, then a linear_search_range(0, 25) on the leaf it left.
CONSTANTS
  Keys <- MCKeys4
  KeyMax <- MCKeyMax
  Cap = 4
  Readers = {r1}
  Writers = {w1}
  NoOwner = NoOwner
  MaxOps = 4
  FreshValues = TRUE
  RawValues = {}
  WriterOps = {"remove"}
  InitKeys = {10, 20, 30, 40}
  InitCounters = {0}
  LeftmostPtr = 0
  SearchKeys <- MCKeys4
  ReaderOps = {"range"}
  RangeBounds <- MCRangeLow
SPECIFICATION Spec
INVARIANTS
  RangeConsistency
