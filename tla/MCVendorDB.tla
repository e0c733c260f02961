----------------------------- MODULE MCVendorDB -----------------------------
(* The record store, for TLC. *)
EXTENDS VendorDB, TLC

Symm == Permutations(Keys)
=============================================================================
