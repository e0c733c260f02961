---------------------------- MODULE MCVendorTool ----------------------------
(* The whole tool in mode "all", for TLC. *)
EXTENDS VendorTool, TLC

Symm == Permutations(Txs)
=============================================================================
