---------------------------- MODULE MCThreadPool ----------------------------
(* ThreadPool as TLC checks it: every parameter is given by ThreadPool.cfg. *)
EXTENDS ThreadPool
=============================================================================
