------------------------------- MODULE Signer -------------------------------
(***************************************************************************)
(* signer/signer.go : the goroutine (Signing) that takes items from the    *)
(* channel, signs their inputs (getSigs), posts the signatures to Poly     *)
(* (BtcMultiSign) and records what it posted (PutSignedTx).                *)
(*                                                                         *)
(* sgPc names the point Signing has reached:                               *)
(*   "off"     the goroutine does not run (yet)                            *)
(*   "recv"    waiting for an item                                         *)
(*   "post"    at RETRY, about to call BtcMultiSign                        *)
(*   "record"  Poly answered, about to call PutSignedTx                    *)
(* A post that fails on the way (client.PostErr, nothing delivered) is     *)
(* tried again without any change of state: a stuttering step.             *)
(***************************************************************************)
EXTENDS PolyChain, TxChan

CONSTANTS
    Unsignable,     \* transactions with an input getSigs cannot sign
    Refusable       \* transactions Poly may refuse for no fault of the tool

ASSUME SignerAssumption ==
    /\ Unsignable \subseteq Txs
    /\ Refusable \subseteq Txs

VARIABLES
    sgPc,
    cur,            \* item.Mtx, its scripts cleared by getSigs
    txHash          \* its hash, taken before getSigs

sgVars == <<sgPc, cur, txHash>>

NoItem == [tx |-> NoTx, scripts |-> "nil"]

SgIdle(pc) ==
    /\ sgPc' = pc
    /\ cur' = NoItem
    /\ txHash' = TxHash(NoItem)

SgInit ==
    /\ sgPc = "off"
    /\ cur = NoItem
    /\ txHash = TxHash(NoItem)

(* startSigner: the wallet and the key file were opened. *)
SgStart ==
    /\ sgPc = "off"
    /\ SgIdle("recv")
    /\ UNCHANGED <<txchan, chainVars>>

(* An item is received and getSigs signs it, clearing its scripts. *)
Take ==
    /\ sgPc = "recv"
    /\ Recv
    /\ Head(txchan).tx \notin Unsignable
    /\ txHash' = TxHash(Head(txchan))
    /\ cur' = StripScripts(Head(txchan))
    /\ sgPc' = "post"
    /\ UNCHANGED chainVars

(* An item is received and getSigs fails: it is dropped. *)
TakeUnsignable ==
    /\ sgPc = "recv"
    /\ Recv
    /\ Head(txchan).tx \in Unsignable
    /\ UNCHANGED <<sgVars, chainVars>>

(* Mutant: a post that failed on the way is taken for a success. *)
PostAssumed ==
    /\ sgPc = "post"
    /\ sgPc' = "record"
    /\ UNCHANGED <<cur, txHash, txchan, chainVars>>

(* BtcMultiSign returns the id of the Poly transaction. *)
PostOk ==
    /\ sgPc = "post"
    /\ AcceptSigs(txHash)
    /\ sgPc' = "record"
    /\ UNCHANGED <<cur, txHash, txchan>>

(* BtcMultiSign is delivered and its answer lost: PostErr, goto RETRY. *)
PostLost ==
    /\ sgPc = "post"
    /\ AcceptSigs(txHash)
    /\ UNCHANGED <<sgVars, txchan>>

(* Mutant: the item is dropped on any error, without a retry. *)
PostGivenUp ==
    /\ sgPc = "post"
    /\ SgIdle("recv")
    /\ UNCHANGED <<txchan, chainVars>>

(* BtcMultiSign fails otherwise: the item is dropped and not recorded.     *)
(* Poly answers so to a second set of signatures from the same vendor and  *)
(* to signatures for a transaction that has its quorum.                    *)
PostRefused ==
    /\ sgPc = "post"
    /\ \/ txHash \in posted
       \/ OnChain(Relay(cur.tx))
       \/ cur.tx \in Refusable
    /\ SgIdle("recv")
    /\ UNCHANGED <<txchan, chainVars>>

(* The key under which the item is recorded: its hash without scripts. *)
RecordKey == TxHash(StripScripts(cur))

(* The item is done with.  The call of PutSignedTx(RecordKey) is conjoined *)
(* where a store is composed.                                              *)
Record ==
    /\ sgPc = "record"
    /\ SgIdle("recv")
    /\ UNCHANGED <<txchan, chainVars>>

SgTypeOK ==
    /\ sgPc \in {"off", "recv", "post", "record"}
    /\ cur \in MsgTxs \cup {NoItem}
    /\ txHash \in Hashes \cup {TxHash(NoItem)}
=============================================================================
