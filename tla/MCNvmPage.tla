----------------------------- MODULE MCNvmPage -----------------------------
(***************************************************************************)
(* Model-checking instance of NvmPage: a leaf with three or four entry    *)
(* slots and a sentinel, up to four keys, one writer thread and one       *)
(* lock-free reader, and the (min, max) bounds of its range scans.        *)
(***************************************************************************)
EXTENDS NvmPage

MCKeys == {10, 20, 30}
MCKeys4 == {10, 20, 30, 40}
MCKeyMax == 99
MCLeftmost == 100                 \* an internal node's leftmost child
MCSearchInner == {5, 10, 25, 40}  \* below, at and between separators
MCRangeAll == {<<0, MCKeyMax>>}   \* scan (0, KeyMax): every key
MCRangeLow == {<<0, 25>>}            \* scan (0, 25): keys 10 and 20 only
MCRangeAbove == {<<10, MCKeyMax>>}  \* scan (10, KeyMax): every key above 10
=============================================================================
