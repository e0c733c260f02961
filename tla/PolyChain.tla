----------------------------- MODULE PolyChain -----------------------------
(***************************************************************************)
(* The Poly chain as the vendor tool sees it through the Poly SDK.  The    *)
(* chain is not part of the repository: this module is what the code in    *)
(* observer/ and signer/ relies on (GetCurrentBlockHeight,                 *)
(* GetSmartContractEventByBlock, BtcMultiSign).                            *)
(*                                                                         *)
(* A block is the sequence of its contract notifications.  The two that    *)
(* matter to a vendor are makeBtcTx (an unlock transaction was created and *)
(* waits for signatures) and btcTxToRelay (enough signatures arrived);     *)
(* every other notification, another vendor's and an undecodable one       *)
(* included, is the single value Noise.                                    *)
(***************************************************************************)
EXTENDS Integers, Sequences

CONSTANTS
    Txs,            \* the unlock transactions Poly may create for this vendor
    NoTx,           \* the transaction of a notification that has none
    OthersQuorum,   \* those the other signers of the multisig can complete alone
    MaxHeight,      \* bound: blocks the chain grows to
    MaxEvents       \* bound: notifications in a block

ASSUME ChainAssumption ==
    /\ NoTx \notin Txs
    /\ OthersQuorum \subseteq Txs
    /\ MaxHeight \in Nat
    /\ MaxEvents \in Nat

VARIABLES
    chain,          \* the blocks 1 .. Len(chain); block 0 is empty
    posted          \* hashes for which Poly holds this vendor's signatures

chainVars == <<chain, posted>>

-----------------------------------------------------------------------------
(***************************************************************************)
(* Bitcoin transactions.  A MsgTx is known by its outpoints and outputs    *)
(* (tx) and by what its SignatureScripts hold: the pkScripts of the spent  *)
(* outputs ("pk", as makeBtcTx carries it), the collected signatures       *)
(* ("sig", as btcTxToRelay carries it) or nothing ("nil").  The hash       *)
(* covers the scripts, so the three forms have three hashes.               *)
(***************************************************************************)
Scripts == {"pk", "sig", "nil"}

MsgTxs == [tx : Txs, scripts : Scripts]

Hashes == Txs \X Scripts

TxHash(mtx) == <<mtx.tx, mtx.scripts>>

StripScripts(mtx) == [mtx EXCEPT !.scripts = "nil"]

(* What makeBtcTx and btcTxToRelay decode to for transaction t. *)
ToSignTx(t) == [tx |-> t, scripts |-> "pk"]
SignedTx(t) == [tx |-> t, scripts |-> "sig"]

-----------------------------------------------------------------------------
Make(t)  == [name |-> "makeBtcTx", tx |-> t]
Relay(t) == [name |-> "btcTxToRelay", tx |-> t]
Noise    == [name |-> "other", tx |-> NoTx]

Notifications == {Make(t) : t \in Txs} \cup {Relay(t) : t \in Txs} \cup {Noise}

(* Notification e is in one of the first n blocks. *)
InFirst(e, n) == \E b \in 1 .. n : b <= Len(chain) /\ \E i \in DOMAIN chain[b] : chain[b][i] = e

OnChain(e) == InFirst(e, Len(chain))

(* Poly creates a transaction once, and announces it as signed once, in a  *)
(* later block, when the quorum of signatures is there.                    *)
Announceable ==
    {Make(t)  : t \in {u \in Txs : ~OnChain(Make(u))}} \cup
    {Relay(t) : t \in {u \in Txs : /\ OnChain(Make(u))
                                   /\ ~OnChain(Relay(u))
                                   /\ u \in OthersQuorum \/ TxHash(ToSignTx(u)) \in posted}} \cup
    {Noise}

Blocks == UNION {[1 .. n -> Announceable] : n \in 0 .. MaxEvents}

ChainInit ==
    /\ chain = <<>>
    /\ posted = {}

(* Poly commits one more block. *)
CommitBlock ==
    /\ Len(chain) < MaxHeight
    /\ \E block \in Blocks :
         /\ \A i, j \in DOMAIN block : i # j /\ block[i] = block[j] => block[i] = Noise
         /\ chain' = Append(chain, block)
    /\ UNCHANGED posted

(* Poly takes this vendor's signatures for the transaction hashed k. *)
AcceptSigs(k) ==
    /\ posted' = posted \cup {k}
    /\ UNCHANGED chain

ChainTypeOK ==
    /\ chain \in Seq(Seq(Notifications))
    /\ posted \subseteq Hashes
=============================================================================
