----------------------------- MODULE MCObserver -----------------------------
(* Observer alone, for TLC: the signer and the chain are its environment.  *)
EXTENDS Observer, TLC

Symm == Permutations(Txs)
=============================================================================
