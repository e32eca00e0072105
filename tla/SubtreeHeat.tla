---------------------------- MODULE SubtreeHeat ----------------------------
(***************************************************************************)
(* Heat accounting of a subtree (src/mysrc/single_pmdk.h, class subtree).  *)
(*                                                                         *)
(* Worker threads call increaseHeat(), a plain numa_visit[n] += 1 on the   *)
(* NUMA node my_thread_id % NUMACOUNT: a load and a store, with no atomic  *)
(* and no lock.  The policy thread calls refreshHeat(): for each node it   *)
(* halves numa_heat + numa_visit into numa_heat and resets numa_visit,     *)
(* sums the total heat, then classifies the first node holding at least    *)
(* (heat / 5) * 3 as the hotspot.  newSubtreeRoot() creates a subtree from *)
(* a split with part of its predecessor's heat; the constructors never set *)
(* numa_heat, numa_visit or hotspot_numa, so they hold whatever the heap   *)
(* held: a value of Uninit.                                                 *)
(***************************************************************************)
EXTENDS Integers, FiniteSets, Functions

CONSTANTS
  NUMACOUNT,      \* number of NUMA nodes
  Threads,        \* worker threads calling increaseHeat
  ThreadId,       \* my_thread_id of each worker
  Uninit,         \* values an uninitialised uint64 / int32 field may hold
  MaxSubtrees,    \* bound on subtrees created
  MaxCalls        \* bound on increaseHeat calls

ASSUME /\ NUMACOUNT \in Nat \ {0}
       /\ ThreadId \in [Threads -> Nat]
       /\ Uninit \subseteq Nat /\ 0 \in Uninit
       /\ MaxSubtrees \in Nat \ {0} /\ MaxCalls \in Nat

Numa == 0 .. NUMACOUNT - 1
Subtrees == 1 .. MaxSubtrees
NoHotspot == -1
Kinds == {"dram", "nvm"}          \* the two newSubtreeRoot overloads

(* The node increaseHeat charges: numa_visit[my_thread_id % NUMACOUNT]. *)
VisitNuma(t) == ThreadId[t] % NUMACOUNT

VARIABLES
  alive,          \* subtrees created so far
  flag,           \* subtree::flag: "dram" (true) or "nvm" (false)
  heat,           \* subtree::heat
  numa_heat,      \* subtree::numa_heat[NUMACOUNT]
  numa_visit,     \* subtree::numa_visit[NUMACOUNT]
  hotspot_numa,   \* subtree::hotspot_numa
  tst,            \* worker: idle, or between the load and store of += 1
  pst,            \* policy thread inside refreshHeat
  calls,          \* ghost: increaseHeat calls completed, per subtree/node
  classified      \* ghost: hotspot_numa was set by a completed refreshHeat

vars == <<alive, flag, heat, numa_heat, numa_visit, hotspot_numa, tst, pst,
          calls, classified>>

TIdle == [pc |-> "idle", s |-> 1, v |-> 0]
PIdle == [pc |-> "idle", s |-> 1, i |-> 0, new_heat |-> 0]

(* All increaseHeat calls completed, over every subtree and node. *)
CallsSum == SumFunction([p \in Subtrees \X Numa |-> calls[p[1]][p[2]]])

(***************************************************************************)
(* subtree::constructor: flag, the roots, heat, kv_nums, pop, nvm_numa,    *)
(* log_off / log_alloc, rt, change, lock, transing and the sibling and     *)
(* pre links are set; numa_heat, numa_visit and hotspot_numa are not.      *)
(***************************************************************************)
Construct(s, kind, h) ==
  /\ flag' = [flag EXCEPT ![s] = kind]
  /\ heat' = [heat EXCEPT ![s] = h]
  /\ \E nh \in [Numa -> Uninit], nv \in [Numa -> Uninit],
        hs \in Uninit \cup {NoHotspot} :
       /\ numa_heat' = [numa_heat EXCEPT ![s] = nh]
       /\ numa_visit' = [numa_visit EXCEPT ![s] = nv]
       /\ hotspot_numa' = [hotspot_numa EXCEPT ![s] = hs]

(* The first subtree: newSubtreeRoot(pop, numa, root) with pre == nullptr, *)
(* so the constructor's default heat 0.  Subtrees not created yet carry   *)
(* the same fields; Construct overwrites them when they are created.      *)
Init ==
  /\ alive = {1}
  /\ heat = [s \in Subtrees |-> 0]
  /\ \E kind \in Kinds, nh \in [Numa -> Uninit], nv \in [Numa -> Uninit],
        hs \in Uninit \cup {NoHotspot} :
       /\ flag = [s \in Subtrees |-> kind]
       /\ numa_heat = [s \in Subtrees |-> nh]
       /\ numa_visit = [s \in Subtrees |-> nv]
       /\ hotspot_numa = [s \in Subtrees |-> hs]
  /\ tst = [t \in Threads |-> TIdle]
  /\ pst = PIdle
  /\ calls = [s \in Subtrees |-> [n \in Numa |-> 0]]
  /\ classified = [s \in Subtrees |-> FALSE]

(* A split's share of the predecessor's heat: heat * 2 / 3 for a DRAM     *)
(* subtree root, heat / 2 for an NVM one.                                 *)
InheritedHeat(kind, h) == IF kind = "dram" THEN (h * 2) \div 3 ELSE h \div 2

(* newSubtreeRoot(pop, numa, root, pre) with pre != nullptr. *)
(* subtree::getHeat(). *)
getHeat(s) == heat[s]

newSubtreeRoot(pre, kind) ==
  LET s == Cardinality(alive) + 1 IN
  /\ pre \in alive
  /\ s \in Subtrees
  /\ alive' = alive \cup {s}
  /\ Construct(s, kind, InheritedHeat(kind, getHeat(pre)))
  /\ classified' = [classified EXCEPT ![s] = FALSE]
  /\ UNCHANGED <<tst, pst, calls>>

-----------------------------------------------------------------------------
(***************************************************************************)
(* increaseHeat(): numa_visit[my_thread_id % NUMACOUNT] += 1, compiled to *)
(* a load and a store with no lock prefix (a data race on the counter).   *)
(***************************************************************************)
increaseHeat_load(t, s) ==
  /\ tst[t].pc = "idle"
  /\ s \in alive
  /\ CallsSum < MaxCalls
  /\ tst' = [tst EXCEPT ![t] = [pc |-> "store", s |-> s,
                                v |-> numa_visit[s][VisitNuma(t)]]]
  /\ UNCHANGED <<alive, flag, heat, numa_heat, numa_visit, hotspot_numa, pst,
                 calls, classified>>

increaseHeat_store(t) ==
  LET s == tst[t].s
      n == VisitNuma(t)
  IN
  /\ tst[t].pc = "store"
  /\ numa_visit' = [numa_visit EXCEPT ![s][n] = tst[t].v + 1]
  /\ calls' = [calls EXCEPT ![s][n] = @ + 1]
  /\ tst' = [tst EXCEPT ![t] = TIdle]
  /\ UNCHANGED <<alive, flag, heat, numa_heat, hotspot_numa, pst,
                 classified>>

-----------------------------------------------------------------------------
(***************************************************************************)
(* refreshHeat(), run by the policy thread on one subtree at a time:      *)
(*   for i: numa_heat[i] = (numa_heat[i] + numa_visit[i]) / 2;             *)
(*          numa_visit[i] = 0; new_heat += numa_heat[i];                   *)
(*   heat = new_heat; hotspot_numa = -1;                                   *)
(*   for i: if (numa_heat[i] >= (heat / 5) * 3) { hotspot_numa = i; break; } *)
(* Only the policy thread writes numa_heat, heat and hotspot_numa, so the *)
(* classification is one step; numa_visit is shared with the workers, so  *)
(* its load (in the first statement) and its reset are separate steps.    *)
(***************************************************************************)
refreshHeat_begin(s) ==
  /\ pst.pc = "idle"
  /\ s \in alive
  /\ pst' = [PIdle EXCEPT !.pc = "fold", !.s = s]
  /\ classified' = [classified EXCEPT ![s] = FALSE]
  /\ UNCHANGED <<alive, flag, heat, numa_heat, numa_visit, hotspot_numa, tst,
                 calls>>

refreshHeat_fold ==
  LET s == pst.s
      i == pst.i
      v == numa_visit[s][i]
  IN
  /\ pst.pc = "fold"
  /\ numa_heat' = [numa_heat EXCEPT ![s][i] = (@ + v) \div 2]
  /\ pst' = [pst EXCEPT !.pc = "reset"]
  /\ UNCHANGED <<alive, flag, heat, numa_visit, hotspot_numa, tst, calls,
                 classified>>

refreshHeat_reset ==
  LET s == pst.s
      i == pst.i
  IN
  /\ pst.pc = "reset"
  /\ numa_visit' = [numa_visit EXCEPT ![s][i] = 0]
  /\ pst' = [pst EXCEPT !.new_heat = @ + numa_heat[s][i], !.i = @ + 1,
                        !.pc = IF i + 1 < NUMACOUNT THEN "fold" ELSE "class"]
  /\ UNCHANGED <<alive, flag, heat, numa_heat, hotspot_numa, tst, calls,
                  classified>>

(* Mutants of Hotspot: a strict comparison, and the loop index left in   *)
(* hotspot_numa when no node qualifies.                                   *)
HotspotStrict(nh, h) ==
  LET hot == {i \in Numa : nh[i] > (h \div 5) * 3} IN
  IF hot = {} THEN NoHotspot ELSE CHOOSE i \in hot : \A j \in hot : i <= j

HotspotLeak(nh, h) ==
  LET hot == {i \in Numa : nh[i] >= (h \div 5) * 3} IN
  IF hot = {} THEN NUMACOUNT ELSE CHOOSE i \in hot : \A j \in hot : i <= j

(* The node the classification loop stops at, or -1. *)
Hotspot(nh, h) ==
  LET hot == {i \in Numa : nh[i] >= (h \div 5) * 3} IN
  IF hot = {} THEN NoHotspot ELSE CHOOSE i \in hot : \A j \in hot : i <= j

refreshHeat_classify ==
  LET s == pst.s IN
  /\ pst.pc = "class"
  /\ heat' = [heat EXCEPT ![s] = pst.new_heat]
  /\ hotspot_numa' = [hotspot_numa EXCEPT ![s] =
                        Hotspot(numa_heat[s], pst.new_heat)]
  /\ classified' = [classified EXCEPT ![s] = TRUE]
  /\ pst' = PIdle
  /\ UNCHANGED <<alive, flag, numa_heat, numa_visit, tst, calls>>

-----------------------------------------------------------------------------
Next ==
  \/ \E pre \in alive, kind \in Kinds : newSubtreeRoot(pre, kind)
  \/ \E t \in Threads : \/ \E s \in alive : increaseHeat_load(t, s)
                        \/ increaseHeat_store(t)
  \/ \E s \in alive : refreshHeat_begin(s)
  \/ refreshHeat_fold \/ refreshHeat_reset \/ refreshHeat_classify

Spec == Init /\ [][Next]_vars

-----------------------------------------------------------------------------
TypeOK ==
  /\ alive \subseteq Subtrees
  /\ flag \in [Subtrees -> Kinds]
  /\ heat \in [Subtrees -> Nat]
  /\ numa_heat \in [Subtrees -> [Numa -> Nat]]
  /\ numa_visit \in [Subtrees -> [Numa -> Nat]]
  /\ hotspot_numa \in [Subtrees -> Uninit \cup Numa \cup {NoHotspot}]
  /\ pst.i \in 0 .. NUMACOUNT


(* refreshHeat's classification misses no hotspot: once a subtree has    *)
(* been refreshed, a NUMA node holding at least 60% of its heat is the    *)
(* hotspot, or an earlier node is -- whatever increaseHeat calls of the   *)
(* workers interleave with the policy thread's fold and reset.            *)
NoMissedHotspot ==
  \A s \in alive : classified[s] =>
    \A i \in Numa : 5 * numa_heat[s][i] >= 3 * heat[s] =>
                      hotspot_numa[s] \in 0 .. i

(* spec.md 4.3: a NUMA node is the hotspot only if it holds at least 60% *)
(* of the subtree's heat.  refreshHeat compares numa_heat[i] with         *)
(* (heat / 5) * 3, rounded down before the multiplication.                *)
HotspotHasShare ==
  \A s \in alive : classified[s] /\ hotspot_numa[s] \in Numa =>
    5 * numa_heat[s][hotspot_numa[s]] >= 3 * heat[s]

====
