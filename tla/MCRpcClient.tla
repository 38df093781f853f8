----------------------------- MODULE MCRpcClient -----------------------------
(* Small instances of RpcClient for TLC.                                   *)
EXTENDS RpcClient, TLC

Symmetry == Permutations(Calls) \cup Permutations(GoCalls)
=============================================================================
