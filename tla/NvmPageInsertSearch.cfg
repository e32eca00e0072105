\* Three inserts into an empty leaf, the counter starting even or odd, racing one lock-free search: does every search return a value its key had?
CONSTANTS
  Keys <- MCKeys
  KeyMax <- MCKeyMax
  Cap = 3
  Readers = {r1}
  Writers = {w1}
  NoOwner = NoOwner
  MaxOps = 3
  FreshValues = TRUE
  RawValues = {}
  WriterOps = {"insert"}
  InitKeys = {}
  InitCounters = {0, 1}
  LeftmostPtr = 0
  SearchKeys <- MCKeys
  ReaderOps = {"search"}
  RangeBounds = {}
SPECIFICATION Spec
INVARIANTS
  ReadConsistency
