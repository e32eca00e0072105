--------------------------- MODULE MCSubtreeHeat ---------------------------
(* SubtreeHeat for TLC: two NUMA nodes and worker threads with fixed ids. *)
EXTENDS SubtreeHeat

\* Workers on different NUMA nodes (my_thread_id 0 and 1).
MCThreadIdSplit == [t \in Threads |-> IF t = "t1" THEN 0 ELSE 1]

\* Workers on the same NUMA node (my_thread_id 0 and 2).
MCThreadIdShared == [t \in Threads |-> IF t = "t1" THEN 0 ELSE 2]
====
