\* All writer operations on an internal node, with a lock-free child lookup running: the node stays well formed and implements KVStore.
CONSTANTS
  Keys <- MCKeys
  KeyMax <- MCKeyMax
  Cap = 3
  Readers = {r1}
  Writers = {w1}
  NoOwner = NoOwner
  MaxOps = 3
  FreshValues = TRUE
  RawValues = {}
  WriterOps = {"insert", "remove", "update"}
  InitKeys = {20}
  InitCounters = {0}
  LeftmostPtr <- MCLeftmost
  SearchKeys <- MCSearchInner
  ReaderOps = {"search"}
  RangeBounds = {}
SPECIFICATION Spec
INVARIANTS
  TypeOK
  NodeWellFormed
PROPERTIES
  KVSpec
