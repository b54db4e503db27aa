----------------------------- MODULE MCCronJobs -----------------------------
(* CronJobs on the instances of MCOrderLifecycle. *)
EXTENDS CronJobs, MCOrderLifecycle
=============================================================================
