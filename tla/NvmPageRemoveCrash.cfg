\* remove_key (single_pmdk.h) with cache lines written back in any order: does the persisted leaf always show a content the node had?
CONSTANTS
  Keys = {10, 20, 30, 40}
  KeyMax = 99
  Cap = 4
  Readers = {}
  Writers = {w1}
  NoOwner = NoOwner
  MaxOps = 1
  FreshValues = TRUE
  RawValues = {}
  WriterOps = {"remove"}
  InitKeys = {10, 20, 30, 40}
  InitCounters = {0}
  LeftmostPtr = 0
  SearchKeys = {}
  ReaderOps = {}
  RangeBounds = {}
  PageOffsets = {0, 16, 32, 48}
SPECIFICATION CSpec
INVARIANTS
  CrashConsistent
CHECK_DEADLOCK FALSE
