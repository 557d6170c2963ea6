-------------------------------- MODULE MCQuic --------------------------------
(* Quic.tla on small instances. Its descriptors are interchangeable.           *)
EXTENDS Quic, TLC

AnyFd == Permutations(Fds)
===============================================================================
