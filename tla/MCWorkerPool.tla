---------------------------- MODULE MCWorkerPool ----------------------------
(***************************************************************************)
(* An instance of WorkerPool for TLC: one goroutine or both may panic, and *)
(* there are more messages than the prefetch window holds.                 *)
(***************************************************************************)
EXTENDS WorkerPool
=============================================================================
