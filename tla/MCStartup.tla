----------------------------- MODULE MCStartup -----------------------------
(* The start of the tool with and without the console, for TLC. *)
EXTENDS Startup

(* A form is given by the fields filled in; the others are left empty. *)
Form(filled) == [f \in Fields |-> IF f \in DOMAIN filled THEN filled[f] ELSE Blank]

(* A complete configuration... *)
Good ==
    [rpc |-> "rpc1", wallet |-> "w1", pwd |-> "p1", bwallet |-> "w2", bpwd |-> "p1",
     net |-> "test", db |-> "db1", wait |-> 2, redeem |-> "rdm1"]

(* ...and that of a vendor still to be set up. *)
Fresh == [Good EXCEPT !.pwd = Blank, !.redeem = Blank, !.net = Blank]

MCConfs == {Good, Fresh}
MCGoodConf == {Good}

MCWallets == {[w1 |-> "p1", w2 |-> "p1"]}

MCInitForms ==
    {Form([pwd |-> "p1"]), [Form([wallet |-> "w2"]) EXCEPT !.net = Absent]}

MCStatusForms ==
    {Form(<<>>),
     Form([rpc |-> "rpc2", wallet |-> "w2", net |-> "regtest", db |-> "db2", wait |-> BadNum]),
     Form([wait |-> 0, redeem |-> "nonhex", pwd |-> "bad"])}

MCBlankForm == {Form(<<>>)}

MCFuncForms == {Form([wallet |-> "w2", pwd |-> "p1"])}

MCKeyForms ==
    {[path |-> "w3", pwd |-> "p2", pwd2 |-> "p2"], [path |-> "w3", pwd |-> "p2", pwd2 |-> "p1"]}

MCFlags ==
    {[web |-> TRUE, mode |-> "all", polypwd |-> Blank, btcpwd |-> Blank],
     [web |-> FALSE, mode |-> "onlyob", polypwd |-> Blank, btcpwd |-> Blank],
     [web |-> FALSE, mode |-> "onlysig", polypwd |-> "p1", btcpwd |-> Blank],
     [web |-> FALSE, mode |-> "wrong", polypwd |-> Blank, btcpwd |-> "p1"]}

MCWebOnly == {[web |-> TRUE, mode |-> "all", polypwd |-> Blank, btcpwd |-> Blank]}
=============================================================================
