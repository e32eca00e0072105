\* update_key against a lock-free linear_search_range over (10, KeyMax), in both scan directions.
CONSTANTS
  Keys <- MCKeys
  KeyMax <- MCKeyMax
  Cap = 3
  Readers = {r1}
  Writers = {w1}
  NoOwner = NoOwner
  MaxOps = 3
  FreshValues = TRUE
  RawValues = {}
  WriterOps = {"update"}
  InitKeys = {10, 20, 30}
  InitCounters = {0, 1}
  LeftmostPtr = 0
  SearchKeys <- MCKeys
  ReaderOps = {"range"}
  RangeBounds <- MCRangeAbove
SPECIFICATION FairSpec
INVARIANTS
  RangeConsistency
