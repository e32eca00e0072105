---------------------------- MODULE MCLifecycle ----------------------------
EXTENDS Lifecycle

(* Every position of the startup thread. *)
MCAnyPoint == PCs

(* Every position except the create path of getInitial, between the       *)
(* first pmemobj_create and the end of MyBtree::constructor.              *)
MCAfterCreate == PCs \ {"gi_create", "gi_root_c", "gi_construct"}
=============================================================================
