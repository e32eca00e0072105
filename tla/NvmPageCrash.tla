---------------------------- MODULE NvmPageCrash ----------------------------
(***************************************************************************)
(* What of a leaf nvmpage survives a power failure (src/mysrc/single_pmdk.h)*)
(*                                                                         *)
(* Stores of remove_key go to the CPU cache.  A dirty cache line reaches   *)
(* persistent memory either when the code persists it (pmemobj_persist,    *)
(* i.e. clflush + fence) or when the cache evicts it, which hardware may   *)
(* do to any dirty line at any moment.  A line is written back whole, so   *)
(* the persisted copy of a line is always a prefix of the stores to it;    *)
(* lines reach memory in no particular order.                              *)
(*                                                                         *)
(* Addresses: the page starts at base (pmemobj data is 16-byte aligned, so *)
(* base % 64 is one of PageOffsets).  sizeof(nvmheader) is 40 -- three     *)
(* pointers, level, switch_counter, is_deleted, last_index, one pointer -- *)
(* so records[i] starts at base + 40 + 16 * i, its key at +0, its ptr at   *)
(* +8; switch_counter and last_index lie at +28 .. +31.                     *)
(*                                                                         *)
(* Only what recovery would read is persisted: the records, the counter   *)
(* and last_index.  A crash may come in any state, so the properties are   *)
(* invariants over the persisted copy; no crash step is needed.           *)
(***************************************************************************)
EXTENDS NvmPage

CONSTANT PageOffsets   \* possible values of (address of the page) % 64

ASSUME PageOffsets \subseteq {0, 16, 32, 48}

VARIABLES
  base,      \* address of the page, modulo CACHE_LINE_SIZE * (lines used)
  precords,  \* persisted records
  psc,       \* persisted hdr.switch_counter
  pli,       \* persisted hdr.last_index
  pending,   \* lines of the pmemobj_persist the writer is about to issue
  contents   \* ghost: every logical content the node has had

pvars == <<base, precords, psc, pli, pending, contents>>
allvars == <<vars, pvars>>

CACHE_LINE_SIZE == 64
HeaderSize == 40            \* sizeof(nvmheader)
EntrySize == 16             \* sizeof(nvmentry)

RecordAddr(i) == base + HeaderSize + EntrySize * i
FieldAddr(i, f) == RecordAddr(i) + (IF f = "key" THEN 0 ELSE 8)
CounterAddr == base + 28
LineOf(a) == a \div CACHE_LINE_SIZE

(* Write back the lines in L: each persisted field of such a line takes   *)
(* its current (cached) value.                                             *)
WriteBack(L) ==
  /\ precords' = [i \in Slots |->
                    [f \in {"key", "ptr"} |->
                       IF LineOf(FieldAddr(i, f)) \in L
                         THEN records'[i][f] ELSE precords[i][f]]]
  /\ psc' = IF LineOf(CounterAddr) \in L THEN switch_counter' ELSE psc
  /\ pli' = IF LineOf(CounterAddr) \in L THEN last_index' ELSE pli

(* pmemobj_persist(pop, p, CACHE_LINE_SIZE): every line of [p, p + 64). *)
PersistLines(p) == LineOf(p) .. LineOf(p + CACHE_LINE_SIZE - 1)

(* remove_key's do_flush: the record starts a line, or crosses into the   *)
(* next one without ending exactly at its boundary.                       *)
do_flush(i) ==
  LET remainder == RecordAddr(i) % CACHE_LINE_SIZE IN
  \/ remainder = 0
  \/ /\ (remainder + EntrySize) \div CACHE_LINE_SIZE = 1
     /\ (remainder + EntrySize) % CACHE_LINE_SIZE # 0

Lines == {LineOf(FieldAddr(i, f)) : i \in Slots, f \in {"key", "ptr"}}
           \cup {LineOf(CounterAddr)}

CInit ==
  /\ Init
  /\ base \in PageOffsets
  /\ precords = records
  /\ psc = switch_counter
  /\ pli = last_index
  /\ pending = {}
  /\ contents = {dict}

(* The cache evicts a dirty line. *)
Evict ==
  \E l \in Lines :
    /\ UNCHANGED <<vars, base, pending, contents>>
    /\ WriteBack({l})
    /\ <<precords, psc, pli>> # <<precords', psc', pli'>>

(* The ptr store of one shift step and the do_flush test that follows. *)
remove_key_shift_ptr_flush(w) ==
  LET i == wst[w].i IN
  /\ remove_key_shift_ptr(w)
  /\ pending' = IF do_flush(i) THEN PersistLines(RecordAddr(i)) ELSE {}
  /\ UNCHANGED <<base, precords, psc, pli, contents>>

(* pmemobj_persist(pop, records_ptr, CACHE_LINE_SIZE): the flush the   *)
(* writer issues before its next store.                                 *)
remove_key_persist ==
  /\ pending # {}
  /\ UNCHANGED <<vars, base, contents>>
  /\ WriteBack(pending)
  /\ pending' = {}

RemoveStep(w) ==
  \/ /\ pending = {}
     /\ \E k \in Keys : remove_key_lock(w, k)
     /\ contents' = contents \cup {dict'}
     /\ UNCHANGED <<base, precords, psc, pli, pending>>
  \/ /\ pending = {}
     /\ remove_key_first(w) \/ remove_key_shift_key(w) \/ remove_key_end(w)
     /\ UNCHANGED pvars
  \/ pending = {} /\ remove_key_shift_ptr_flush(w)
  \/ remove_key_persist

CNext ==
  \/ \E w \in Writers : RemoveStep(w)
  \/ Evict

CSpec == CInit /\ [][CNext]_allvars

-----------------------------------------------------------------------------
(* linear_search(key) and count() of a leaf, run on the persisted copy by *)
(* the first search after restart (no writer, so the retry loop ends at  *)
(* once).                                                                  *)
ImageCount ==
  LET start == pli + 1
      nulls == {j \in Slots : precords[j].ptr = NULL}
      down == {j \in nulls : j <= start}
  IN  IF IS_FORWARD(psc) THEN Min({j \in nulls : j >= start})
      ELSE IF down # {} THEN Max(down) ELSE Min(nulls)

ImageSearch(k) ==
  LET P == precords
      slot0 == P[0].key = k /\ P[0].ptr # NULL
      fwd == {i \in 1 .. Cap : \A j \in 1 .. i : P[j].ptr # NULL}
      valid(i) == P[i].key = k /\ P[i - 1].ptr # P[i].ptr /\ P[i].ptr # NULL
      fhits == {i \in fwd : valid(i)}
      bhits == {i \in 1 .. ImageCount - 1 : valid(i)}
  IN  IF IS_FORWARD(psc)
        THEN IF slot0 THEN P[0].ptr
             ELSE IF fhits = {} THEN NULL ELSE P[Min(fhits)].ptr
        ELSE IF bhits # {} THEN P[Max(bhits)].ptr
             ELSE IF slot0 THEN P[0].ptr ELSE NULL

(* Crash atomicity of remove_key (spec.md 5, 7): whatever lines the cache *)
(* has written back and whatever flushes remove_key has issued, a search  *)
(* of the persisted node after a crash sees, for all keys at once, a      *)
(* content the node really had -- never a key lost that was not removed, *)
(* nor a key paired with another key's value.                            *)
CrashConsistent ==
  \E d \in contents : \A k \in Keys : ImageSearch(k) = d[k]
=============================================================================
