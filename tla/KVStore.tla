------------------------------ MODULE KVStore ------------------------------
(***************************************************************************)
(* What one leaf node of the index promises its callers (spec.md 4.1): a   *)
(* map from keys to value pointers in which insert adds an absent key,     *)
(* update swaps the pointer of a present key and remove takes a present    *)
(* key out.  A key that is absent maps to NULL.  NvmPage implements it.    *)
(***************************************************************************)
CONSTANTS Keys, Values, NULL,
          InitDict   \* the content the node holds when the threads start

ASSUME NULL \notin Values /\ InitDict \in [Keys -> Values \cup {NULL}]

VARIABLE dict

TypeOK == dict \in [Keys -> Values \cup {NULL}]

Init == dict = InitDict

Insert(k, v) ==
  /\ dict[k] = NULL
  /\ dict' = [dict EXCEPT ![k] = v]

Update(k, v) ==
  /\ dict[k] # NULL
  /\ dict' = [dict EXCEPT ![k] = v]

Remove(k) ==
  /\ dict[k] # NULL
  /\ dict' = [dict EXCEPT ![k] = NULL]

Next ==
  \E k \in Keys :
    \/ Remove(k)
    \/ \E v \in Values : Insert(k, v) \/ Update(k, v)

Spec == Init /\ [][Next]_dict
=============================================================================
