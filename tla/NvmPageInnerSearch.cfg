\* remove_key on an internal node against a lock-free linear_search for the covering child.
CONSTANTS
  Keys <- MCKeys4
  KeyMax <- MCKeyMax
  Cap = 4
  Readers = {r1}
  Writers = {w1}
  NoOwner = NoOwner
  MaxOps = 4
  FreshValues = TRUE
  RawValues = {}
  WriterOps = {"remove"}
  InitKeys = {10, 20, 30, 40}
  InitCounters = {0}
  LeftmostPtr <- MCLeftmost
  SearchKeys <- MCSearchInner
  ReaderOps = {"search"}
  RangeBounds = {}
SPECIFICATION Spec
INVARIANTS
  ReadConsistency
