----------------------------- MODULE MCTcpClient -----------------------------
(* TcpClient.tla on small instances.                                           *)
EXTENDS TcpClient
=============================================================================
