\* One insert_key into {20} against a forward lock-free linear_search_range over (10, KeyMax): can the scan return a value twice?
CONSTANTS
  Keys <- MCKeys
  KeyMax <- MCKeyMax
  Cap = 3
  Readers = {r1}
  Writers = {w1}
  NoOwner = NoOwner
  MaxOps = 3
  FreshValues = TRUE
  RawValues = {}
  WriterOps = {"insert"}
  InitKeys = {20}
  InitCounters = {0}
  LeftmostPtr = 0
  SearchKeys <- MCKeys
  ReaderOps = {"range"}
  RangeBounds <- MCRangeAbove
SPECIFICATION FairSpec
INVARIANTS
  RangeConsistency
