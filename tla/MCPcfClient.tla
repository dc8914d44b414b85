---------------------------- MODULE MCPcfClient ----------------------------
(* Instances of PcfClient for TLC: three addresses, used again.             *)
EXTENDS PcfClient, TLC

AddrSymmetry == Permutations(Addr)
=============================================================================
