----------------------------- MODULE MCEventLoop -----------------------------
(* EventLoop.tla on small instances.                                           *)
EXTENDS EventLoop
=============================================================================
