---------------------------- MODULE MCThreadPool -----------------------------
(* The thread pool with a few workers, clients and tasks.  Liveness is     *)
(* checked, which rules symmetry out.                                      *)
EXTENDS ThreadPool
==============================================================================
