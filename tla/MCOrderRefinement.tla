-------------------------- MODULE MCOrderRefinement --------------------------
(* OrderRefinement on the instances of MCOrderLifecycle. *)
EXTENDS OrderRefinement, MCOrderLifecycle
=============================================================================
