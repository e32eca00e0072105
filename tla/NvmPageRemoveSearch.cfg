\* remove_key (single_pmdk.h) against a lock-free linear_search, every interleaving of loads and stores.
CONSTANTS
  Keys <- MCKeys4
  KeyMax <- MCKeyMax
  Cap = 4
  Readers = {r1}
  Writers = {w1}
  NoOwner = NoOwner
  MaxOps = 4
  FreshValues = TRUE
  RawValues = {}
  WriterOps = {"remove"}
  InitKeys = {10, 20, 30, 40}
  InitCounters = {0}
  LeftmostPtr = 0
  SearchKeys <- MCKeys4
  ReaderOps = {"search"}
  RangeBounds = {}
SPECIFICATION FairSpec
INVARIANTS
  ReadConsistency
PROPERTIES
  SearchReturns
