---------------------------- MODULE MCGovernance ----------------------------
(* Two vendors and their multisig, for TLC. *)
EXTENDS Governance, TLC

CONSTANTS v1, v2, c1

(* They may not type the keys in the same order. *)
MCKeyLists == {<<v1, v2>>, <<v2, v1>>}

(* One of the contracts is as long as a number, so that its message is     *)
(* that of the parameters.                                                 *)
MCContractForms ==
    [kind : {"contract"}, contract : {c1}, chainid : {2}, ver : {1, BadNum}]
        \cup [kind : {"contract"}, contract : {1}, chainid : {2}, ver : {0}]

MCParamForms == [kind : {"param"}, fr : {1}, mc : {2}, ver : {0}]

Symm == Permutations({v1, v2})
=============================================================================
