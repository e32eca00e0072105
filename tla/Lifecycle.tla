----------------------------- MODULE Lifecycle -----------------------------
(***************************************************************************)
(* Opening and closing the store: AllocatorInit / AllocatorExit           *)
(* (nvm_allocator.cpp), MyBtree::getInitial (single_pmdk.h), and the two  *)
(* front ends that call them, NVMBtree::Init / ~NVMBtree (nvm_btree.cpp)  *)
(* and NFTree's constructor, Init and destructor (nftree_nap.cpp).        *)
(*                                                                         *)
(* What survives a crash is the persistent state: which pmemobj pool      *)
(* files exist (one per NUMA node) and the root object of pool 0, the     *)
(* MyBtree that getInitial either constructs or recovers.  Everything     *)
(* else (allocator handles, pool handles, the static mybt, the front      *)
(* end's bt) is DRAM and is lost.  Startup runs on one thread, so the     *)
(* only interleaving is a crash between two persistent writes.            *)
(***************************************************************************)
EXTENDS Naturals, FiniteSets

CONSTANTS
  NUMACOUNT,     \* number of NUMA nodes, one pool file each
  Frontend,      \* "NVMBtree" or "NFTree"
  HasValue,      \* NVMBtree::Init's has_value (NFTree always opens values)
  MaxBoots,      \* bound on the number of process starts
  CrashPoints,   \* the pcs at which the process may crash
  LogSlots,      \* 32- or 16-byte records one subtree's log has room for
  MaxValues      \* bound on the value chunks Allocate hands out

ASSUME NUMACOUNT \in Nat \ {0}
ASSUME Frontend \in {"NVMBtree", "NFTree"}
ASSUME HasValue \in BOOLEAN
ASSUME MaxBoots \in Nat \ {0}
ASSUME LogSlots \in Nat \ {0}
ASSUME MaxValues \in Nat

Nodes == 0 .. NUMACOUNT - 1

PCs == {"start", "gi_check", "gi_create", "gi_root_c", "gi_construct",
        "gi_open", "gi_root_o", "gi_recover", "init_bt", "running",
        "stopped", "fault", "segv"}

ASSUME CrashPoints \subseteq PCs

VARIABLES
  poolFile,   \* persistent: pool file i exists
  root,       \* persistent: "none", "zeroed" (POBJ_ROOT) or "built"
  pc,         \* the startup thread's position
  i,          \* index of a getInitial loop
  logPool,    \* log_alloc_pool[i] # nullptr
  valueAlloc, \* value_alloc[i] # nullptr
  nodeAlloc,  \* node_alloc[i] # nullptr
  pop,        \* getInitial's pop[i] # NULL
  mybt,       \* the static MyBtree::mybt # nullptr
  bt,         \* getBt(): the btree the root object hands out
  boots,      \* process starts so far
  logNvm,     \* persistent: each log record "empty", "torn" or "whole"
  logCache,   \* log records stored but possibly still in the CPU cache
  logTail,    \* persistent: records AllocateAligned has handed out
  logAcked,   \* ghost: records whose append call has returned
  wpc,        \* the worker appending a record: "idle" or "flush"
  valueUsed   \* persistent: value chunks handed out by the value pools

logVars == <<logNvm, logCache, logTail, logAcked, wpc>>
vars == <<poolFile, root, pc, i, logPool, valueAlloc, nodeAlloc, pop,
          mybt, bt, boots, logVars, valueUsed>>
volatile == <<pc, i, logPool, valueAlloc, nodeAlloc, pop, mybt, bt>>

NoHandles == [n \in Nodes |-> FALSE]

(* A fresh process: the global allocator arrays are zero-initialised and *)
(* MyBtree::mybt is nullptr.                                              *)
Boot ==
  /\ pc' = "start"
  /\ i' = 0
  /\ logPool' = NoHandles /\ valueAlloc' = NoHandles /\ nodeAlloc' = NoHandles
  /\ pop' = NoHandles
  /\ mybt' = FALSE /\ bt' = FALSE

Init ==
  /\ poolFile = NoHandles
  /\ root = "none"
  /\ boots = 1
  /\ pc = "start"
  /\ i = 0
  /\ logPool = NoHandles /\ valueAlloc = NoHandles /\ nodeAlloc = NoHandles
  /\ pop = NoHandles
  /\ mybt = FALSE /\ bt = FALSE
  /\ logNvm = [s \in 1 .. LogSlots |-> "empty"]
  /\ logCache = [s \in 1 .. LogSlots |-> FALSE]
  /\ logTail = 0
  /\ logAcked = {}
  /\ wpc = "idle"
  /\ valueUsed = 0

(* The front end opens the value pools: NFTree always uses the six-      *)
(* argument AllocatorInit, NVMBtree::Init only when has_value is true.    *)
UsesValues == Frontend = "NFTree" \/ HasValue

(* AllocatorInit, either overload: for every node a log pool, a value     *)
(* allocator (six-argument form only) and a node allocator.  `new` throws *)
(* rather than return nullptr, so the `return -1` branches never run.     *)
(* Called by NFTree's constructor and at the top of NVMBtree::Init.       *)
AllocatorInit ==
  /\ pc = "start"
  /\ logPool' = [n \in Nodes |-> TRUE]
  /\ valueAlloc' = [n \in Nodes |-> UsesValues]
  /\ nodeAlloc' = [n \in Nodes |-> TRUE]
  /\ pc' = "gi_check"
  /\ UNCHANGED <<poolFile, root, i, pop, mybt, bt, boots>>

(* getInitial: a store is new exactly when pool file 0 is missing         *)
(* (file_exists_ returns nonzero); no other pool file is looked at.       *)
getInitial_check ==
  /\ pc = "gi_check"
  /\ pc' = IF poolFile[0] THEN "gi_open" ELSE "gi_create"
  /\ i' = 0
  /\ UNCHANGED <<poolFile, root, logPool, valueAlloc, nodeAlloc, pop, mybt,
                 bt, boots>>

(* The create loop with its exit test one turn late. *)
getInitial_create_late ==
  /\ pc = "gi_create"
  /\ pop' = [pop EXCEPT ![i] = ~poolFile[i]]
  /\ poolFile' = [poolFile EXCEPT ![i] = TRUE]
  /\ i' = i + 1
  /\ pc' = IF i = NUMACOUNT THEN "gi_root_c" ELSE "gi_create"
  /\ UNCHANGED <<root, logPool, valueAlloc, nodeAlloc, mybt, bt, boots>>

(* One turn of the create loop: pmemobj_create makes file i, or returns   *)
(* NULL when the file is already there.                                    *)
getInitial_create ==
  /\ pc = "gi_create"
  /\ pop' = [pop EXCEPT ![i] = ~poolFile[i]]
  /\ poolFile' = [poolFile EXCEPT ![i] = TRUE]
  /\ i' = i + 1
  /\ pc' = IF i + 1 = NUMACOUNT THEN "gi_root_c" ELSE "gi_create"
  /\ UNCHANGED <<root, logPool, valueAlloc, nodeAlloc, mybt, bt, boots>>

(* POBJ_ROOT(pop[0], MyBtree): the root object of pool 0, allocated       *)
(* zero-filled and persisted the first time it is asked for.              *)
POBJ_ROOT == IF root = "none" THEN "zeroed" ELSE root

getInitial_root_create ==
  /\ pc = "gi_root_c"
  /\ root' = POBJ_ROOT
  /\ pc' = "gi_construct"
  /\ UNCHANGED <<poolFile, i, logPool, valueAlloc, nodeAlloc, pop, mybt, bt,
                 boots>>

(* MyBtree::constructor(pop) builds the btree and its first subtree in    *)
(* the root; then mybt = D_RW(nvmbt).                                      *)
getInitial_construct ==
  /\ pc = "gi_construct"
  /\ root' = "built"
  /\ bt' = TRUE
  /\ mybt' = TRUE
  /\ pc' = "init_bt"
  /\ UNCHANGED <<poolFile, i, logPool, valueAlloc, nodeAlloc, pop, boots>>

(* The same loop as create, off by one: the last pool is never opened.    *)
getInitial_open_short ==
  /\ pc = "gi_open"
  /\ pop' = [pop EXCEPT ![i] = poolFile[i]]
  /\ i' = i + 1
  /\ pc' = IF i + 2 >= NUMACOUNT THEN "gi_root_o" ELSE "gi_open"
  /\ UNCHANGED <<poolFile, root, logPool, valueAlloc, nodeAlloc, mybt, bt,
                 boots>>

(* One turn of the open loop: pmemobj_open returns NULL for a missing     *)
(* file; the loop goes on regardless.                                      *)
getInitial_open ==
  /\ pc = "gi_open"
  /\ pop' = [pop EXCEPT ![i] = poolFile[i]]
  /\ i' = i + 1
  /\ pc' = IF i + 1 = NUMACOUNT THEN "gi_root_o" ELSE "gi_open"
  /\ UNCHANGED <<poolFile, root, logPool, valueAlloc, nodeAlloc, mybt, bt,
                 boots>>

getInitial_root_open ==
  /\ pc = "gi_root_o"
  /\ root' = POBJ_ROOT
  /\ pc' = "gi_recover"
  /\ UNCHANGED <<poolFile, i, logPool, valueAlloc, nodeAlloc, pop, mybt, bt,
                 boots>>

(* The root was constructed and every pool is open. *)
StoreSound == root = "built" /\ \A n \in Nodes : pop[n]

(* MyBtree::Recover(pop), then mybt = D_RW(nvmbt).  Its body is not in    *)
(* this tree: on a sound store it replays the logs and hands out the      *)
(* btree; on a zero-filled root or with a NULL pool its outcome is        *)
(* unknown, so it may abort or return with either bt it finds there.      *)
getInitial_recover ==
  /\ pc = "gi_recover"
  /\ \E outcome \in IF StoreSound THEN {"bt"} ELSE {"bt", "null", "abort"} :
       /\ pc' = IF outcome = "abort" THEN "fault" ELSE "init_bt"
       /\ bt' = (outcome = "bt")
       /\ mybt' = (outcome # "abort")
  /\ UNCHANGED <<poolFile, root, i, logPool, valueAlloc, nodeAlloc, pop, boots>>

(* NFTree::Init keeps tree_ = mybt->getBt() unchecked; NVMBtree::Init     *)
(* asserts that bt is non-NULL.                                            *)
AcceptsBt == bt \/ Frontend = "NFTree"

(* ~NFTree calls exitBtree and AllocatorExit unconditionally; ~NVMBtree   *)
(* only if (bt).                                                           *)
ExitsOnDestroy == bt \/ Frontend = "NFTree"

(* NVMBtree::Init: bt = mybt->getBt(); assert on NULL.  NFTree::Init      *)
(* keeps tree_ = getBt() without a check.                                  *)
Init_getBt ==
  /\ pc = "init_bt"
  /\ pc' = IF AcceptsBt THEN "running" ELSE "fault"
  /\ UNCHANGED <<poolFile, root, i, logPool, valueAlloc, nodeAlloc, pop, mybt,
                 bt, boots>>

(* AllocatorExit: delete every allocator of every node, when the front   *)
(* end's destructor gets that far.                                         *)
AllocatorExit(handles) == IF ExitsOnDestroy THEN NoHandles ELSE handles

(* ~NVMBtree: if (bt) { exitBtree(); AllocatorExit(); }.  ~NFTree calls   *)
(* both unconditionally.  AllocatorExit deletes every handle; exitBtree's *)
(* body is not in this tree and is taken to write nothing persistent.     *)
Destructor ==
  /\ pc = "running"
  /\ wpc = "idle"
  /\ logPool' = AllocatorExit(logPool)
  /\ valueAlloc' = AllocatorExit(valueAlloc)
  /\ nodeAlloc' = AllocatorExit(nodeAlloc)
  /\ pc' = "stopped"
  /\ UNCHANGED <<poolFile, root, i, pop, mybt, bt, boots, logVars>>

(* LogAllocator::writeKv, updateKv, deleteKey and operateTree, in the     *)
(* 32-byte form (pmem_memcpy_persist) and the 16-byte form (memcpy, then  *)
(* nvm_persist): AllocateAligned hands out the next record and the copy   *)
(* leaves it in the CPU cache.  Subtree operations call them while the    *)
(* store is running.                                                       *)
log_store ==
  /\ pc = "running"
  /\ wpc = "idle"
  /\ logTail < LogSlots
  /\ logTail' = logTail + 1
  /\ logCache' = [logCache EXCEPT ![logTail + 1] = TRUE]
  /\ wpc' = "flush"
  /\ UNCHANGED <<logNvm, logAcked>>
  /\ UNCHANGED <<poolFile, root, pc, i, logPool, valueAlloc, nodeAlloc, pop, mybt, bt,
                 boots>>

(* The batched flush the code has commented out, log_persist: the call   *)
(* returns and the record is flushed later with its batch.                *)
nvm_persist_deferred ==
  /\ wpc = "flush"
  /\ logAcked' = logAcked \cup {logTail}
  /\ wpc' = "idle"
  /\ UNCHANGED <<logNvm, logCache, logTail>>
  /\ UNCHANGED <<poolFile, root, pc, i, logPool, valueAlloc, nodeAlloc, pop, mybt, bt,
                 boots>>

(* nvm_persist / the flush in nvm_memcpy_persist (pmem_persist of the     *)
(* record), after which the append call returns.                          *)
nvm_persist ==
  /\ wpc = "flush"
  /\ logNvm' = [logNvm EXCEPT ![logTail] = "whole"]
  /\ logCache' = [logCache EXCEPT ![logTail] = FALSE]
  /\ logAcked' = logAcked \cup {logTail}
  /\ wpc' = "idle"
  /\ UNCHANGED logTail
  /\ UNCHANGED <<poolFile, root, pc, i, logPool, valueAlloc, nodeAlloc, pop, mybt, bt,
                 boots>>

LogAppend == log_store \/ nvm_persist

(* A clean exit leaves the machine up: whatever the cache still holds of *)
(* the log is written back.                                               *)
WriteBack == [s \in 1 .. LogSlots |->
                IF logCache[s] THEN "whole" ELSE logNvm[s]]

(* The process exits or aborts and is started again; the machine stays   *)
(* up, so the cache is eventually written back.                          *)
Restart ==
  /\ pc \in {"stopped", "fault", "segv"}
  /\ boots < MaxBoots
  /\ Boot
  /\ boots' = boots + 1
  /\ logNvm' = WriteBack
  /\ logCache' = [s \in 1 .. LogSlots |-> FALSE]
  /\ wpc' = "idle"
  /\ UNCHANGED <<poolFile, root, logTail, logAcked>>

(* Power fails or the process is killed: DRAM is lost, the pool files     *)
(* and whatever was persisted in them stay; a record still in the cache  *)
(* may be lost, torn or whole.                                             *)
Crash ==
  /\ pc \in CrashPoints \ {"stopped", "fault", "segv"}
  /\ boots < MaxBoots
  /\ Boot
  /\ boots' = boots + 1
  /\ \E part \in [1 .. LogSlots -> {"empty", "torn", "whole"}] :
       logNvm' = [s \in 1 .. LogSlots |->
                    IF logCache[s] THEN part[s] ELSE logNvm[s]]
  /\ logCache' = [s \in 1 .. LogSlots |-> FALSE]
  /\ wpc' = "idle"
  /\ UNCHANGED <<poolFile, root, logTail, logAcked>>

Startup ==
  \/ AllocatorInit
  \/ getInitial_check
  \/ getInitial_create
  \/ getInitial_root_create
  \/ getInitial_construct
  \/ getInitial_open
  \/ getInitial_root_open
  \/ getInitial_recover
  \/ Init_getBt

StartupStep == Startup /\ UNCHANGED <<logVars, valueUsed>>

(* NVMBtree::Insert and Update(key, string): if (bt), take a chunk from   *)
(* value_alloc[my_thread_id % NUMACOUNT], copy the value into it and      *)
(* persist it, then insert the pointer into the tree.  A NULL allocator   *)
(* is dereferenced and the process dies.  The tree itself, and the calls  *)
(* that only touch it -- Insert(key, pvalue), Delete, Get, GetRange --  *)
(* are the NvmPage model's.                                                *)
Insert_value ==
  /\ pc = "running"
  /\ Frontend = "NVMBtree"
  /\ bt
  /\ valueUsed < MaxValues
  /\ \E n \in Nodes :
       /\ pc' = IF valueAlloc[n] THEN pc ELSE "segv"
       /\ valueUsed' = IF valueAlloc[n] THEN valueUsed + 1 ELSE valueUsed
  /\ UNCHANGED <<poolFile, root, i, logPool, valueAlloc, nodeAlloc, pop,
                 mybt, bt, boots, logVars>>

Next ==
  \/ StartupStep
  \/ (LogAppend \/ Destructor \/ Restart \/ Crash) /\ UNCHANGED valueUsed
  \/ Insert_value

Spec == Init /\ [][Next]_vars

TypeOK ==
  /\ poolFile \in [Nodes -> BOOLEAN]
  /\ root \in {"none", "zeroed", "built"}
  /\ pc \in PCs
  /\ i \in 0 .. NUMACOUNT
  /\ logPool \in [Nodes -> BOOLEAN]
  /\ valueAlloc \in [Nodes -> BOOLEAN]
  /\ nodeAlloc \in [Nodes -> BOOLEAN]
  /\ pop \in [Nodes -> BOOLEAN]
  /\ mybt \in BOOLEAN /\ bt \in BOOLEAN
  /\ boots \in 1 .. MaxBoots
  /\ logNvm \in [1 .. LogSlots -> {"empty", "torn", "whole"}]
  /\ logCache \in [1 .. LogSlots -> BOOLEAN]
  /\ logTail \in 0 .. LogSlots
  /\ logAcked \subseteq 1 .. logTail
  /\ wpc \in {"idle", "flush"}
  /\ valueUsed \in 0 .. MaxValues

(* getInitial only runs MyBtree::Recover on a store whose root object     *)
(* MyBtree::constructor finished and with every NUMA pool open: the       *)
(* reopen path of section 4.5, never a half-created store.                *)
RecoverSound == pc = "gi_recover" => StoreSound

(* A log record whose writeKv / updateKv / deleteKey / operateTree call   *)
(* has returned is whole on the media after any later crash, power loss  *)
(* or restart: the structural change it records can be replayed.         *)
LogDurable == \A s \in logAcked : logNvm[s] = "whole"

=============================================================================
