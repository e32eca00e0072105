------------------------------ MODULE NvmPage ------------------------------
(***************************************************************************)
(* One leaf nvmpage (src/mysrc/single_pmdk.h): a fixed array of            *)
(* (key, ptr) records read without a lock by any number of threads and    *)
(* written under the node mutex by one thread at a time.                   *)
(*                                                                         *)
(* Writers shift records one store at a time; readers tell a half-shifted *)
(* array apart by three conventions of the code:                           *)
(*   - a NULL ptr ends the array;                                          *)
(*   - records[i].ptr = records[i-1].ptr marks slot i as a transient copy; *)
(*   - switch_counter's parity is the direction of the last shift, and a   *)
(*     reader whose scan saw the counter change starts again.              *)
(*                                                                         *)
(* Every load and store of a shared field is one step; a writer's reads of *)
(* the node it has locked are folded into its next store.  Loads and       *)
(* stores of aligned 8-byte fields are single-copy atomic on x86-64, and   *)
(* x86-TSO keeps one thread's stores and one thread's loads in program     *)
(* order, so with a single writer an interleaving of whole loads and       *)
(* stores is exactly what the build can produce.                           *)
(*                                                                         *)
(* Ghost state: dict is the node's logical content after the writer's      *)
(* current operation, dictPre before it; snaps collects, for reader r,    *)
(* every logical content the node had during r's search.                 *)
(***************************************************************************)
EXTENDS Integers, Sequences, FiniteSets, FiniteSetsExt, Functions

CONSTANTS
  Keys,         \* user keys, ordered integers
  KeyMax,       \* LONG_MAX, the key the constructor writes into every slot
  Cap,          \* entries a leaf holds before it splits (cardinality - 1)
  Readers,      \* threads calling linear_search
  Writers,      \* threads calling insert_key / remove_key / update_key
  NoOwner,      \* the node mutex is free
  MaxOps,       \* bound on writer operations, hence on switch_counter flips
  FreshValues,  \* TRUE: value pointers come from the bump value allocator
  RawValues,    \* FALSE: the caller's raw value is the pointer (NFTree::Put)
  WriterOps,    \* the writer operations callers issue on this leaf
  ReaderOps,    \* "search": linear_search; "range": linear_search_range
  RangeBounds,  \* <<min, max>> pairs a range scan is called with
  InitKeys,     \* keys inserted before the modelled threads start
  InitCounters, \* 0: the setup ended with an insert; 1: with a remove_key
  LeftmostPtr,  \* hdr.leftmost_ptr: NULL for a leaf, a child for an internal node
  SearchKeys    \* keys linear_search is called with

ASSUME /\ Keys \subseteq Int /\ KeyMax \in Int /\ \A k \in Keys : k < KeyMax
       /\ Cap \in Nat \ {0} /\ MaxOps \in Nat
       /\ NoOwner \notin Writers /\ FreshValues \in BOOLEAN
       /\ RawValues \subseteq Nat
       /\ WriterOps \subseteq {"insert", "remove", "update"}
       /\ InitKeys \subseteq Keys /\ Cardinality(InitKeys) <= Cap
       /\ ReaderOps \subseteq {"search", "range"}
       /\ RangeBounds \subseteq Int \X Int
       /\ InitCounters \subseteq {0, 1}
       /\ LeftmostPtr \in Nat /\ SearchKeys \subseteq Int

NULL == 0
Slots == 0 .. Cap               \* records[Cap] is the sentinel that stays NULL
CounterMod == 256               \* uint8_t switch_counter
Unread == -1                    \* a reader's local not loaded yet
leftmost_ptr == LeftmostPtr     \* set by the constructor, never stored again
MaxPtr == Cardinality(InitKeys) + MaxOps   \* last value pointer allocated

VARIABLES
  records,         \* records[i].key, records[i].ptr
  last_index,      \* hdr.last_index
  switch_counter,  \* hdr.switch_counter
  owner,           \* holder of hdr.mtx
  wst,             \* writer thread locals, with its pc
  rst,             \* reader thread locals, with its pc
  next_ptr,        \* bump pointer of value_alloc
  ops,             \* writer operations so far (bound)
  dict, dictPre    \* ghost: logical content after / before the current op

vars == <<records, last_index, switch_counter, owner, wst, rst, next_ptr,
          ops, dict, dictPre>>

IS_FORWARD(c) == c % 2 = 0

(* The slots before the first NULL ptr: what a scan of the node visits.   *)
Used == {i \in Slots : \A j \in 0 .. i : records[j].ptr # NULL}

NumEntries == Cardinality(Used)

(* The map a quiescent node stands for. *)
NodeDict ==
  [k \in Keys |->
     LET hits == {i \in Used : records[i].key = k}
     IN  IF hits = {} THEN NULL ELSE records[Min(hits)].ptr]

WIdle == [pc |-> "idle", key |-> KeyMax, val |-> NULL, i |-> 0, n |-> 0,
          move |-> FALSE]

RIdle == [pc |-> "idle", key |-> KeyMax, fwd |-> TRUE, prev |-> Unread,
          ret |-> NULL, i |-> 0, k |-> KeyMax, t |-> Unread, tp |-> Unread,
          cprev |-> 0, cnt |-> 0, snaps |-> {},
          op |-> "search", lo |-> 0, hi |-> 0, buf |-> <<>>]

(* What linear_search(k) should give for content d: on a leaf the value  *)
(* of k; on an internal node the child covering k, i.e. the pointer of    *)
(* the largest separator <= k, or leftmost_ptr if there is none.          *)
Lookup(d, k) ==
  IF leftmost_ptr = NULL THEN (IF k \in Keys THEN d[k] ELSE NULL)
  ELSE LET below == {j \in Keys : d[j] # NULL /\ j <= k}
       IN  IF below = {} THEN leftmost_ptr ELSE d[Max(below)]

(* nvmentry::constructor: key LONG_MAX, ptr NULL. *)
EmptyEntry == [key |-> KeyMax, ptr |-> NULL]

(* The i-th smallest of InitKeys (i = 0, 1, ...). *)
InitKey(i) == CHOOSE k \in InitKeys :
                Cardinality({j \in InitKeys : j < k}) = i

(* The content those inserts leave: the i-th smallest key maps to i+1. *)
InitDict == [k \in Keys |->
               IF k \in InitKeys
                 THEN 1 + Cardinality({j \in InitKeys : j < k}) ELSE NULL]

(* nvmheader::constructor and nvmpage::constructor(level = 0), then the  *)
(* keys of InitKeys inserted in order with value pointers 1, 2, ...; a  *)
(* remove_key of some other key after them leaves the counter odd.        *)
Init ==
  /\ records = [i \in Slots |->
                  IF i < Cardinality(InitKeys)
                    THEN [key |-> InitKey(i), ptr |-> i + 1]
                    ELSE EmptyEntry]
  /\ last_index = Cardinality(InitKeys) - 1
  /\ switch_counter \in InitCounters
  /\ owner = NoOwner
  /\ wst = [w \in Writers |-> WIdle]
  /\ rst = [r \in Readers |-> RIdle]
  /\ next_ptr = Cardinality(InitKeys) + 1
  /\ ops = 0
  /\ dict = InitDict
  /\ dictPre = dict

(* Ghost: a writer changed the logical content to d while these searches  *)
(* were running, so each may also return what d holds.                    *)
Observe(d) ==
  [r \in Readers |->
     IF rst[r].pc \in {"idle", "done"} THEN rst[r]
     ELSE [rst[r] EXCEPT !.snaps = @ \cup {d}]]

(* The value pointer a writer stores: a fresh value_alloc chunk           *)
(* (NVMBtree::Insert/Update(key, string)) or the caller's raw value.      *)
ValueChoices == IF FreshValues THEN {next_ptr} ELSE RawValues
NextPtr == IF FreshValues THEN next_ptr + 1 ELSE next_ptr

SetW(w, s) == wst' = [wst EXCEPT ![w] = s]
SetR(r, s) == rst' = [rst EXCEPT ![r] = s]

-----------------------------------------------------------------------------
(***************************************************************************)
(* remove_key: lock; make the counter odd; find key; overwrite its ptr by  *)
(* the left neighbour's (NULL at slot 0 of a leaf); then shift every later *)
(* record left, key before ptr; decrement last_index; unlock.              *)
(***************************************************************************)
(* Mutant of SetBackward: the writer never announces a left shift. *)
SetBackwardKeepsParity(c) == c

(* if (IS_FORWARD(hdr.switch_counter)) ++hdr.switch_counter; *)
SetBackward(c) == IF IS_FORWARD(c) THEN (c + 1) % CounterMod ELSE c

remove_key_lock(w, key) ==
  LET hits == {i \in Used : records[i].key = key}
      post == [dict EXCEPT ![key] = NULL]
  IN
  /\ wst[w].pc = "idle"
  /\ ops < MaxOps
  /\ owner = NoOwner
  /\ switch_counter' = SetBackward(switch_counter)
  /\ ops' = ops + 1
  /\ IF hits = {}
       THEN UNCHANGED <<owner, wst, rst, dict, dictPre>>  \* returns false
       ELSE /\ owner' = w
            /\ SetW(w, [WIdle EXCEPT !.pc = "r_first", !.key = key,
                                     !.i = Min(hits)])
            /\ dict' = post
            /\ dictPre' = dict
            /\ rst' = Observe(post)
  /\ UNCHANGED <<records, last_index, next_ptr>>

remove_key_first(w) ==
  LET i == wst[w].i IN
  /\ wst[w].pc = "r_first"
  /\ records' = [records EXCEPT ![i].ptr =
                   IF i = 0 THEN leftmost_ptr ELSE records[i - 1].ptr]
  /\ SetW(w, [wst[w] EXCEPT !.pc = "r_key"])
  /\ UNCHANGED <<last_index, switch_counter, owner, rst, next_ptr, ops,
                 dict, dictPre>>

(* Mutant of remove_key_shift_key: the key store is dropped, only the    *)
(* pointers shift.                                                        *)
remove_key_shift_key_skip(w) ==
  /\ wst[w].pc = "r_key"
  /\ SetW(w, [wst[w] EXCEPT !.pc = "r_ptr"])
  /\ UNCHANGED <<records, last_index, switch_counter, owner, rst, next_ptr,
                 ops, dict, dictPre>>

remove_key_shift_key(w) ==
  LET i == wst[w].i IN
  /\ wst[w].pc = "r_key"
  /\ records' = [records EXCEPT ![i].key = records[i + 1].key]
  /\ SetW(w, [wst[w] EXCEPT !.pc = "r_ptr"])
  /\ UNCHANGED <<last_index, switch_counter, owner, rst, next_ptr, ops,
                 dict, dictPre>>

remove_key_shift_ptr(w) ==
  LET i == wst[w].i IN
  /\ wst[w].pc = "r_ptr"
  /\ records' = [records EXCEPT ![i].ptr = records[i + 1].ptr]
  /\ SetW(w, [wst[w] EXCEPT !.i = i + 1,
                            !.pc = IF records[i + 1].ptr # NULL
                                     THEN "r_key" ELSE "r_end"])
  /\ UNCHANGED <<last_index, switch_counter, owner, rst, next_ptr, ops,
                 dict, dictPre>>

(* Mutants of remove_key_end: --hdr.last_index dropped, or done twice. *)
remove_key_end_stale(w) ==
  /\ wst[w].pc = "r_end"
  /\ owner' = NoOwner
  /\ SetW(w, WIdle)
  /\ dictPre' = dict
  /\ UNCHANGED <<records, last_index, switch_counter, rst, next_ptr, ops,
                 dict>>

remove_key_end_twice(w) ==
  /\ wst[w].pc = "r_end"
  /\ last_index' = last_index - 2
  /\ owner' = NoOwner
  /\ SetW(w, WIdle)
  /\ dictPre' = dict
  /\ UNCHANGED <<records, switch_counter, rst, next_ptr, ops, dict>>

remove_key_end(w) ==
  /\ wst[w].pc = "r_end"
  /\ last_index' = last_index - 1
  /\ owner' = NoOwner
  /\ SetW(w, WIdle)
  /\ dictPre' = dict
  /\ UNCHANGED <<records, switch_counter, rst, next_ptr, ops, dict>>

-----------------------------------------------------------------------------
(***************************************************************************)
(* insert_key into a leaf with room (a full leaf is split by store()):    *)
(* lock; change the counter and leave it even; copy the NULL terminator one slot right;   *)
(* from the last entry down, move each larger record one slot right (ptr, *)
(* key, ptr) until the slot for key is found, then write ptr copy, key,    *)
(* new ptr; if every entry moved, slot 0 gets leftmost_ptr, key, ptr;     *)
(* last_index := old count; unlock.                                        *)
(***************************************************************************)
(* Mutant of SetForward: the counter changes only when the direction     *)
(* does, as remove_key's does.                                             *)
SetForwardOnTurn(c) == IF IS_FORWARD(c) THEN c ELSE (c + 1) % CounterMod

(* spec.md 4.1: insert flips the counter before its shift begins, so that *)
(* a reader that sees it change retries, and its parity is "forward" for  *)
(* a right shift: the next value of even parity after c.                  *)
SetForward(c) == IF IS_FORWARD(c) THEN (c + 2) % CounterMod
                 ELSE (c + 1) % CounterMod

insert_key_lock(w, key) ==
  /\ wst[w].pc = "idle"
  /\ ops < MaxOps
  /\ owner = NoOwner
  /\ dict[key] = NULL
  /\ NumEntries < Cap
  /\ \E v \in ValueChoices :
       LET post == [dict EXCEPT ![key] = v] IN
       /\ owner' = w
       /\ switch_counter' = SetForward(switch_counter)
       /\ SetW(w, [WIdle EXCEPT !.pc = "i_tail", !.key = key, !.val = v,
                                !.n = NumEntries, !.i = NumEntries - 1])
       /\ dict' = post
       /\ dictPre' = dict
       /\ rst' = Observe(post)
  /\ next_ptr' = NextPtr
  /\ ops' = ops + 1
  /\ UNCHANGED <<records, last_index>>

insert_key_tail(w) ==
  LET n == wst[w].n IN
  /\ wst[w].pc = "i_tail"
  /\ records' = [records EXCEPT ![n + 1].ptr = records[n].ptr]
  /\ SetW(w, [wst[w] EXCEPT !.pc = "i_slot"])
  /\ UNCHANGED <<last_index, switch_counter, owner, rst, next_ptr, ops,
                 dict, dictPre>>

(* First store into slot i+1: a copy of slot i's ptr, or leftmost_ptr.   *)
insert_key_slot(w) ==
  LET i == wst[w].i IN
  /\ wst[w].pc = "i_slot"
  /\ records' = [records EXCEPT ![i + 1].ptr =
                   IF i = -1 THEN leftmost_ptr ELSE records[i].ptr]
  /\ SetW(w, [wst[w] EXCEPT !.pc = "i_key",
                            !.move = i # -1 /\ wst[w].key < records[i].key])
  /\ UNCHANGED <<last_index, switch_counter, owner, rst, next_ptr, ops,
                 dict, dictPre>>

insert_key_key(w) ==
  LET s == wst[w] IN
  /\ s.pc = "i_key"
  /\ records' = [records EXCEPT ![s.i + 1].key =
                   IF s.move THEN records[s.i].key ELSE s.key]
  /\ SetW(w, [s EXCEPT !.pc = "i_ptr"])
  /\ UNCHANGED <<last_index, switch_counter, owner, rst, next_ptr, ops,
                 dict, dictPre>>

insert_key_ptr(w) ==
  LET s == wst[w] IN
  /\ s.pc = "i_ptr"
  /\ records' = [records EXCEPT ![s.i + 1].ptr =
                   IF s.move THEN records[s.i].ptr ELSE s.val]
  /\ SetW(w, IF s.move THEN [s EXCEPT !.i = @ - 1, !.pc = "i_slot"]
                       ELSE [s EXCEPT !.pc = "i_end"])
  /\ UNCHANGED <<last_index, switch_counter, owner, rst, next_ptr, ops,
                 dict, dictPre>>

insert_key_end(w) ==
  /\ wst[w].pc = "i_end"
  /\ last_index' = wst[w].n
  /\ owner' = NoOwner
  /\ SetW(w, WIdle)
  /\ dictPre' = dict
  /\ UNCHANGED <<records, switch_counter, rst, next_ptr, ops, dict>>

(***************************************************************************)
(* update_key of a present key: one pointer store under the lock, no       *)
(* shift and no counter change.                                            *)
(***************************************************************************)
update_key(w, key) ==
  LET hits == {i \in Used : records[i].key = key} IN
  /\ wst[w].pc = "idle"
  /\ ops < MaxOps
  /\ owner = NoOwner
  /\ hits # {}
  /\ \E v \in ValueChoices :
       LET post == [dict EXCEPT ![key] = v] IN
       /\ records' = [records EXCEPT ![Min(hits)].ptr = v]
       /\ dict' = post
       /\ dictPre' = post
       /\ rst' = Observe(post)
  /\ next_ptr' = NextPtr
  /\ ops' = ops + 1
  /\ UNCHANGED <<last_index, switch_counter, owner, wst>>

-----------------------------------------------------------------------------
(***************************************************************************)
(* linear_search(key) on a leaf, lock-free.  Each pass loads the counter  *)
(* into previous_switch_counter and scans forward if it is even, else     *)
(* backward from count() - 1; a candidate at slot i is accepted only if    *)
(* its ptr differs from slot i-1's (and, backward, is non-NULL) and its    *)
(* key still reads the same.  The pass repeats while the counter differs. *)
(* The two operands of records[i - 1].ptr != records[i].ptr are loaded in *)
(* an order C++ leaves unspecified: both orders are allowed.              *)
(***************************************************************************)
UNCHANGED_R == UNCHANGED <<records, last_index, switch_counter, owner, wst,
                           next_ptr, ops, dict, dictPre>>

linear_search_begin(r, key) ==
  /\ rst[r].pc = "idle"
  /\ SetR(r, [RIdle EXCEPT !.pc = "start", !.key = key,
                           !.snaps = {dict, dictPre}])
  /\ UNCHANGED_R

(* Mutant of linear_search_pass: previous_switch_counter loaded once,    *)
(* before the do-while, so a pass that saw a change retries forever.      *)
linear_search_pass_stale(r) ==
  LET s == rst[r] IN
  LET c == IF s.prev = Unread THEN switch_counter ELSE s.prev IN
  /\ s.pc = "start" /\ s.op = "search" /\ leftmost_ptr = NULL
  /\ SetR(r, [s EXCEPT !.prev = c, !.ret = NULL, !.fwd = IS_FORWARD(c),
                       !.pc = IF IS_FORWARD(c) THEN "z_key" ELSE "c_start"])
  /\ UNCHANGED_R

linear_search_pass(r) ==
  LET s == rst[r] IN
  /\ s.pc = "start" /\ s.op = "search" /\ leftmost_ptr = NULL
  /\ SetR(r, [s EXCEPT !.prev = switch_counter, !.ret = NULL,
                       !.fwd = IS_FORWARD(switch_counter),
                       !.pc = IF IS_FORWARD(switch_counter)
                                THEN "z_key" ELSE "c_start"])
  /\ UNCHANGED_R

(* The next candidate after slot i is rejected: i+1 forward, i-1 backward. *)
Skip(s) == IF s.fwd THEN [s EXCEPT !.i = @ + 1, !.pc = "f_cond"]
                    ELSE [s EXCEPT !.i = @ - 1, !.pc = "b_loop"]

(* Slot 0 is tested on its own: first forward, last backward (if !ret).  *)
(* A miss there goes on to slot 1 forward and ends the pass backward.     *)
Slot0Miss(s) == IF s.fwd THEN [s EXCEPT !.i = 1, !.pc = "f_cond"]
                         ELSE [s EXCEPT !.pc = "check"]

Slot0Key(s) ==
  [s EXCEPT !.k = records[0].key,
            !.pc = IF records[0].key = s.key THEN "z_ptr" ELSE @]

linear_search_slot0_key(r) ==
  LET s == rst[r] IN
  /\ s.pc = "z_key"
  /\ SetR(r, IF records[0].key = s.key THEN Slot0Key(s) ELSE Slot0Miss(s))
  /\ UNCHANGED_R

linear_search_slot0_ptr(r) ==
  LET s == rst[r] IN
  /\ s.pc = "z_ptr"
  /\ SetR(r, IF records[0].ptr # NULL
               THEN [s EXCEPT !.t = records[0].ptr, !.pc = "z_rekey"]
               ELSE Slot0Miss(s))
  /\ UNCHANGED_R

linear_search_slot0_rekey(r) ==
  LET s == rst[r] IN
  /\ s.pc = "z_rekey"
  /\ SetR(r, IF records[0].key = s.k
               THEN [s EXCEPT !.ret = s.t, !.pc = "check"]
               ELSE Slot0Miss(s))
  /\ UNCHANGED_R

(* Forward loop condition: records[i].ptr != NULL. *)
linear_search_fwd_cond(r) ==
  LET s == rst[r] IN
  /\ s.pc = "f_cond"
  /\ SetR(r, [s EXCEPT !.pc = IF records[s.i].ptr # NULL
                                THEN "f_key" ELSE "check"])
  /\ UNCHANGED_R

linear_search_fwd_key(r) ==
  LET s == rst[r] IN
  /\ s.pc = "f_key"
  /\ SetR(r, IF records[s.i].key = s.key
               THEN [s EXCEPT !.k = records[s.i].key, !.pc = "pair",
                              !.t = Unread, !.tp = Unread]
               ELSE Skip(s))
  /\ UNCHANGED_R

(* Backward loop for (i = count() - 1; i > 0; --i); past it, slot 0. *)
linear_search_bwd_key(r) ==
  LET s == rst[r] IN
  /\ s.pc = "b_loop"
  /\ SetR(r, IF s.i > 0
               THEN IF records[s.i].key = s.key
                      THEN [s EXCEPT !.k = records[s.i].key, !.pc = "pair",
                                     !.t = Unread, !.tp = Unread]
                      ELSE Skip(s)
               ELSE IF records[0].key = s.key THEN Slot0Key(s)
                    ELSE Slot0Miss(s))
  /\ UNCHANGED_R

(* Load one operand of records[i - 1].ptr != (t = records[i].ptr). *)
linear_search_pair(r) ==
  LET s == rst[r] IN
  /\ s.pc = "pair"
  /\ \E which \in {"prev", "cur"} :
       /\ IF which = "prev" THEN s.tp = Unread ELSE s.t = Unread
       /\ LET s1 == IF which = "prev"
                      THEN [s EXCEPT !.tp = records[s.i - 1].ptr]
                      ELSE [s EXCEPT !.t = records[s.i].ptr]
              accept == s1.tp # s1.t /\ (s.fwd \/ s1.t # NULL)
          IN SetR(r, IF s1.tp = Unread \/ s1.t = Unread THEN s1
                     ELSE IF accept THEN [s1 EXCEPT !.pc = "rekey"]
                     ELSE Skip(s1))
  /\ UNCHANGED_R

linear_search_rekey(r) ==
  LET s == rst[r] IN
  /\ s.pc = "rekey"
  /\ SetR(r, IF records[s.i].key = s.k
               THEN [s EXCEPT !.ret = s.t, !.pc = "check"]
               ELSE Skip(s))
  /\ UNCHANGED_R

(* while (hdr.switch_counter != previous_switch_counter) *)
linear_search_check(r) ==
  LET s == rst[r] IN
  /\ s.pc = "check"
  /\ SetR(r, IF switch_counter # s.prev THEN [s EXCEPT !.pc = "start"]
             ELSE [s EXCEPT !.pc = "done",
                            !.ret = IF s.ret = NULL /\ s.op = "search"
                                      THEN leftmost_ptr ELSE @])
  /\ UNCHANGED_R

linear_search_return(r) ==
  /\ rst[r].pc = "done"
  /\ SetR(r, RIdle)
  /\ UNCHANGED_R

(***************************************************************************)
(* linear_search(key) on an internal node (leftmost_ptr non-NULL): the   *)
(* child covering key.  Forward: leftmost_ptr if key < records[0].key and *)
(* slot 0 is not its copy; else records[i-1].ptr at the first i <=        *)
(* last_index with key < records[i].key and a distinct pair; else a       *)
(* fresh load of records[i-1].ptr past the loop.  Backward: from count()-1 *)
(* down to 0, records[i].ptr at the first key >= records[i].key with a    *)
(* distinct pair (slot 0 against leftmost_ptr).  The check turns a NULL   *)
(* ret into leftmost_ptr.                                                  *)
(***************************************************************************)
linear_search_inner_pass(r) ==
  LET s == rst[r] IN
  /\ s.pc = "start" /\ s.op = "search" /\ leftmost_ptr # NULL
  /\ SetR(r, [s EXCEPT !.prev = switch_counter, !.ret = NULL,
                       !.fwd = IS_FORWARD(switch_counter),
                       !.pc = IF IS_FORWARD(switch_counter)
                                THEN "n0_key" ELSE "c_start"])
  /\ UNCHANGED_R

(* key < (k = records[0].key), then (t = leftmost_ptr) != records[0].ptr. *)
linear_search_inner_slot0_key(r) ==
  LET s == rst[r] IN
  /\ s.pc = "n0_key"
  /\ SetR(r, [s EXCEPT !.i = 1, !.pc = IF s.key < records[0].key
                                         THEN "n0_ptr" ELSE "n_cond"])
  /\ UNCHANGED_R

linear_search_inner_slot0_ptr(r) ==
  LET s == rst[r] IN
  /\ s.pc = "n0_ptr"
  /\ SetR(r, IF leftmost_ptr # records[0].ptr
               THEN [s EXCEPT !.ret = leftmost_ptr, !.pc = "check"]
               ELSE [s EXCEPT !.pc = "n_cond"])
  /\ UNCHANGED_R

(* i <= hdr.last_index && records[i].ptr != NULL, left operand first. *)
linear_search_inner_cond(r) ==
  LET s == rst[r] IN
  /\ s.pc = "n_cond"
  /\ SetR(r, [s EXCEPT !.pc = IF s.i <= last_index THEN "n_cptr" ELSE "n_tail"])
  /\ UNCHANGED_R

linear_search_inner_cond_ptr(r) ==
  LET s == rst[r] IN
  /\ s.pc = "n_cptr"
  /\ SetR(r, [s EXCEPT !.pc = IF records[s.i].ptr # NULL THEN "n_key"
                              ELSE "n_tail"])
  /\ UNCHANGED_R

linear_search_inner_key(r) ==
  LET s == rst[r] IN
  /\ s.pc = "n_key"
  /\ SetR(r, IF s.key < records[s.i].key
               THEN [s EXCEPT !.t = Unread, !.tp = Unread, !.pc = "n_pair"]
               ELSE [s EXCEPT !.i = @ + 1, !.pc = "n_cond"])
  /\ UNCHANGED_R

(* Backward loop for (i = count() - 1; i >= 0; --i), key >= records[i].key. *)
linear_search_inner_bkey(r) ==
  LET s == rst[r] IN
  /\ s.pc = "n_bloop"
  /\ SetR(r, IF s.i < 0 THEN [s EXCEPT !.pc = "check"]
             ELSE IF s.key >= records[s.i].key
               THEN [s EXCEPT !.t = Unread, !.tp = Unread, !.pc = "n_pair"]
             ELSE [s EXCEPT !.i = @ - 1])
  /\ UNCHANGED_R

(* Load one operand of the pair test: forward (t = records[i-1].ptr) !=   *)
(* records[i].ptr yields t; backward records[i-1].ptr (leftmost_ptr at    *)
(* slot 0, a register load) != (t = records[i].ptr) yields t.             *)
linear_search_inner_pair(r) ==
  LET s == rst[r]
      left == IF s.i = 0 THEN leftmost_ptr ELSE records[s.i - 1].ptr
  IN
  /\ s.pc = "n_pair"
  /\ \E which \in {"prev", "cur"} :
       /\ IF which = "prev" THEN s.tp = Unread ELSE s.t = Unread
       /\ LET s1 == IF which = "prev" THEN [s EXCEPT !.tp = left]
                    ELSE [s EXCEPT !.t = records[s.i].ptr]
              hit == IF s.fwd THEN s1.tp ELSE s1.t
          IN SetR(r, IF s1.tp = Unread \/ s1.t = Unread THEN s1
                     ELSE IF s1.tp # s1.t
                       THEN [s1 EXCEPT !.ret = hit,
                                       !.pc = IF s.fwd THEN "n_tail"
                                              ELSE "check"]
                     ELSE IF s.fwd THEN [s1 EXCEPT !.i = @ + 1, !.pc = "n_cond"]
                     ELSE [s1 EXCEPT !.i = @ - 1, !.pc = "n_bloop"])
  /\ UNCHANGED_R

(* if (!ret) ret = records[i - 1].ptr; *)
linear_search_inner_tail(r) ==
  LET s == rst[r] IN
  /\ s.pc = "n_tail"
  /\ SetR(r, [s EXCEPT !.ret = IF @ = NULL THEN records[s.i - 1].ptr ELSE @,
                       !.pc = "check"])
  /\ UNCHANGED_R

(***************************************************************************)
(* linear_search_range(min, max, buf) on one leaf (its sibling_ptr is     *)
(* NULL, so the outer while runs once).  Each pass loads the counter and  *)
(* restarts buf at 0; forward it tests slot 0 and then slots 1.. while    *)
(* the ptr is non-NULL, backward slots count()-1 .. 1 and then slot 0.    *)
(* A slot is taken if min < key < max, its ptr differs from the left      *)
(* neighbour's (slot 0: is non-NULL) and the key reads the same again.    *)
(* A key >= max returns at once, without the counter check.               *)
(***************************************************************************)
linear_search_range_begin(r, lo, hi) ==
  /\ rst[r].pc = "idle"
  /\ SetR(r, [RIdle EXCEPT !.pc = "start", !.op = "range", !.lo = lo,
                           !.hi = hi, !.snaps = {dict, dictPre}])
  /\ UNCHANGED_R

linear_search_range_pass(r) ==
  LET s == rst[r] IN
  /\ s.pc = "start" /\ s.op = "range"
  /\ SetR(r, [s EXCEPT !.prev = switch_counter, !.buf = <<>>, !.i = 0,
                       !.fwd = IS_FORWARD(switch_counter),
                       !.pc = IF IS_FORWARD(switch_counter)
                                THEN "g_key" ELSE "c_start"])
  /\ UNCHANGED_R

(* Past slot i: forward to i+1, backward to i-1; past slot 0 backward,    *)
(* the pass ends.                                                         *)
RangeNext(s) ==
  IF s.fwd THEN [s EXCEPT !.i = @ + 1, !.pc = "g_cond"]
  ELSE IF s.i = 0 THEN [s EXCEPT !.pc = "check"]
  ELSE [s EXCEPT !.i = @ - 1, !.pc = "g_bloop"]

(* Forward loop condition: records[i].ptr != NULL. *)
linear_search_range_cond(r) ==
  LET s == rst[r] IN
  /\ s.pc = "g_cond"
  /\ SetR(r, [s EXCEPT !.pc = IF records[s.i].ptr # NULL
                                THEN "g_key" ELSE "check"])
  /\ UNCHANGED_R

(* Backward loop for (i = count() - 1; i > 0; --i); past it, slot 0. *)
linear_search_range_bloop(r) ==
  LET s == rst[r] IN
  /\ s.pc = "g_bloop"
  /\ SetR(r, [s EXCEPT !.i = IF s.i > 0 THEN @ ELSE 0, !.pc = "g_key"])
  /\ UNCHANGED_R

(* Mutant: the lower bound tested as tmp_key >= min. *)
linear_search_range_key_min(r) ==
  LET s == rst[r]
      k == records[s.i].key
  IN
  /\ s.pc = "g_key"
  /\ SetR(r, IF k < s.lo THEN RangeNext(s)
             ELSE IF k >= s.hi THEN [s EXCEPT !.pc = "done"]
             ELSE [s EXCEPT !.k = k, !.t = Unread, !.tp = Unread,
                            !.pc = "g_pair"])
  /\ UNCHANGED_R

(* tmp_key = records[i].key; > min and < max goes on, >= max returns:    *)
(* the same test opens slot 0 and each loop turn, in both directions.    *)
linear_search_range_key(r) ==
  LET s == rst[r]
      k == records[s.i].key
  IN
  /\ s.pc = "g_key"
  /\ SetR(r, IF k <= s.lo THEN RangeNext(s)
             ELSE IF k >= s.hi THEN [s EXCEPT !.pc = "done"]
             ELSE [s EXCEPT !.k = k, !.t = Unread, !.tp = Unread,
                            !.pc = "g_pair"])
  /\ UNCHANGED_R

(* Load one operand of (tmp_ptr = records[i].ptr) != records[i - 1].ptr; *)
(* at slot 0 the other operand is NULL.                                   *)
linear_search_range_pair(r) ==
  LET s == rst[r] IN
  /\ s.pc = "g_pair"
  /\ \E which \in {"prev", "cur"} :
       /\ IF which = "prev" THEN s.tp = Unread ELSE s.t = Unread
       /\ LET s1 == IF which = "prev"
                      THEN [s EXCEPT !.tp = IF s.i = 0 THEN NULL
                                            ELSE records[s.i - 1].ptr]
                      ELSE [s EXCEPT !.t = records[s.i].ptr]
          IN SetR(r, IF s1.tp = Unread \/ s1.t = Unread THEN s1
                     ELSE IF s1.t # s1.tp THEN [s1 EXCEPT !.pc = "g_rekey"]
                     ELSE RangeNext(s1))
  /\ UNCHANGED_R

(* tmp_key == records[i].key, and tmp_ptr non-NULL: buf[off++] = tmp_ptr. *)
linear_search_range_rekey(r) ==
  LET s == rst[r] IN
  /\ s.pc = "g_rekey"
  /\ SetR(r, RangeNext(IF records[s.i].key = s.k /\ s.t # NULL
                         THEN [s EXCEPT !.buf = Append(@, <<s.k, s.t>>)] ELSE s))
  /\ UNCHANGED_R

(***************************************************************************)
(* count(): load the counter and last_index; walk from last_index + 1 in  *)
(* the counter's direction while the ptr is non-NULL; if that ran below   *)
(* 0, count forward from 0; repeat while the counter changed.             *)
(***************************************************************************)
count_start(r) ==
  LET s == rst[r] IN
  /\ s.pc = "c_start"
  /\ SetR(r, [s EXCEPT !.cprev = switch_counter, !.pc = "c_last"])
  /\ UNCHANGED_R

count_last(r) ==
  LET s == rst[r] IN
  /\ s.pc = "c_last"
  /\ SetR(r, [s EXCEPT !.cnt = last_index + 1, !.pc = "c_loop"])
  /\ UNCHANGED_R

count_walk(r) ==
  LET s == rst[r] IN
  /\ s.pc = "c_loop"
  /\ SetR(r, IF s.cnt < 0 THEN [s EXCEPT !.cnt = 0, !.pc = "c_fwd"]
             ELSE IF records[s.cnt].ptr = NULL THEN [s EXCEPT !.pc = "c_check"]
             ELSE [s EXCEPT !.cnt = IF IS_FORWARD(s.cprev) THEN @ + 1
                                    ELSE @ - 1])
  /\ UNCHANGED_R

count_from_zero(r) ==
  LET s == rst[r] IN
  /\ s.pc = "c_fwd"
  /\ SetR(r, IF records[s.cnt].ptr # NULL THEN [s EXCEPT !.cnt = @ + 1]
             ELSE [s EXCEPT !.pc = "c_check"])
  /\ UNCHANGED_R

count_check(r) ==
  LET s == rst[r] IN
  /\ s.pc = "c_check"
  /\ SetR(r, IF switch_counter = s.cprev
               THEN [s EXCEPT !.i = s.cnt - 1,
                              !.pc = CASE s.op = "range" -> "g_bloop"
                                       [] leftmost_ptr # NULL -> "n_bloop"
                                       [] OTHER -> "b_loop"]
               ELSE [s EXCEPT !.pc = "c_start"])
  /\ UNCHANGED_R

-----------------------------------------------------------------------------
WriterNext(w) ==
  \/ \E k \in Keys :
       \/ "remove" \in WriterOps /\ remove_key_lock(w, k)
       \/ "insert" \in WriterOps /\ insert_key_lock(w, k)
       \/ "update" \in WriterOps /\ update_key(w, k)
  \/ remove_key_first(w) \/ remove_key_shift_key(w) \/ remove_key_shift_ptr(w)
  \/ remove_key_end(w)
  \/ insert_key_tail(w) \/ insert_key_slot(w) \/ insert_key_key(w)
  \/ insert_key_ptr(w) \/ insert_key_end(w)

ReaderNext(r) ==
  \/ "search" \in ReaderOps /\ \E k \in SearchKeys : linear_search_begin(r, k)
  \/ linear_search_pass(r)
  \/ linear_search_slot0_key(r) \/ linear_search_slot0_ptr(r)
  \/ linear_search_slot0_rekey(r)
  \/ linear_search_fwd_cond(r) \/ linear_search_fwd_key(r)
  \/ linear_search_bwd_key(r) \/ linear_search_pair(r)
  \/ linear_search_rekey(r) \/ linear_search_check(r)
  \/ linear_search_return(r)
  \/ count_start(r) \/ count_last(r) \/ count_walk(r) \/ count_from_zero(r)
  \/ count_check(r)
  \/ linear_search_inner_pass(r)
  \/ linear_search_inner_slot0_key(r) \/ linear_search_inner_slot0_ptr(r)
  \/ linear_search_inner_cond(r) \/ linear_search_inner_cond_ptr(r)
  \/ linear_search_inner_key(r) \/ linear_search_inner_bkey(r)
  \/ linear_search_inner_pair(r) \/ linear_search_inner_tail(r)
  \/ "range" \in ReaderOps /\ \E b \in RangeBounds : linear_search_range_begin(r, b[1], b[2])
  \/ linear_search_range_pass(r) \/ linear_search_range_cond(r)
  \/ linear_search_range_bloop(r) \/ linear_search_range_key(r)
  \/ linear_search_range_pair(r) \/ linear_search_range_rekey(r)

Next ==
  \/ \E w \in Writers : WriterNext(w)
  \/ \E r \in Readers : ReaderNext(r)

Spec == Init /\ [][Next]_vars

(* Reader threads are OS threads that keep running when they can: weak   *)
(* fairness for each.  Writers need none; their operations are bounded.  *)
FairSpec == Spec /\ \A r \in Readers : WF_vars(ReaderNext(r))

-----------------------------------------------------------------------------
TypeOK ==
  /\ records \in [Slots -> [key : Keys \cup {KeyMax},
                            ptr : {NULL, leftmost_ptr} \cup RawValues
                                  \cup 1 .. MaxPtr]]
  /\ last_index \in -1 .. Cap - 1
  /\ switch_counter \in 0 .. CounterMod - 1
  /\ owner \in Writers \cup {NoOwner}
  /\ next_ptr \in 1 .. MaxPtr + 1
  /\ ops \in 0 .. MaxOps

(* Read consistency (spec.md 5, 8): a linear_search for k returns a value *)
(* k had at some moment of the search -- never a pointer of another key,  *)
(* and never NULL for a key present throughout -- whatever loads of the   *)
(* reader interleave with the stores of remove_key / insert_key shifts.   *)
ReadConsistency ==
  \A r \in Readers : rst[r].pc = "done" /\ rst[r].op = "search" =>
    rst[r].ret \in {Lookup(d, rst[r].key) : d \in rst[r].snaps}

(* Range consistency (spec.md 5, 8): a linear_search_range(min, max)     *)
(* that returns has put in buf only values some key in (min, max) had     *)
(* during the scan, none twice, and every value that a key in (min, max)  *)
(* held, unchanged and non-NULL, for the whole scan -- whatever shifts of *)
(* remove_key / insert_key its loads interleave with.                     *)
RangeConsistency ==
  \A r \in Readers : rst[r].pc = "done" /\ rst[r].op = "range" =>
    LET s == rst[r]
        vals == [j \in DOMAIN s.buf |-> s.buf[j][2]]
        InRange == {k \in Keys : s.lo < k /\ k < s.hi}
        Held(k) == {d[k] : d \in s.snaps}
    IN
    /\ IsInjective(vals)
    /\ \A j \in DOMAIN vals : \E k \in InRange : vals[j] \in Held(k)
    /\ \A k \in InRange :
         \A v \in Held(k) : Held(k) = {v} /\ v # NULL => v \in Range(vals)


(* A search ends: the retry loops of linear_search and count() stop      *)
(* once the writers stop changing the direction of their shifts.          *)
SearchReturns == \A r \in Readers : rst[r].pc = "start" ~> rst[r].pc = "done"

(* Whenever the mutex is free, the node is well formed: the entries are  *)
(* sorted with distinct keys, last_index is the last entry (count() and   *)
(* the backward scan start from it), and every slot past the first NULL   *)
(* ptr is NULL, the sentinel slot included.                               *)
NodeWellFormed ==
  owner = NoOwner =>
    /\ \A i, j \in Used : i < j => records[i].key < records[j].key
    /\ last_index = NumEntries - 1
    /\ \A i \in Slots \ Used : records[i].ptr = NULL

(* Refinement: the node implements KVStore.  While the mutex is free the  *)
(* records stand for NodeDict; while a writer holds it, for the content  *)
(* before its operation.  So each completed remove_key / insert_key /     *)
(* update_key leaves exactly the abstract operation's result.             *)
AbsDict == IF owner = NoOwner THEN NodeDict ELSE dictPre

KV == INSTANCE KVStore WITH dict <- AbsDict, Values <- 1 .. MaxPtr

KVSpec == KV!Spec
=============================================================================
