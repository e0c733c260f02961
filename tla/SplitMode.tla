------------------------------ MODULE SplitMode ------------------------------
(***************************************************************************)
(* The modes "onlyob" and "onlysig" (cmd/run.go): observer and signer are  *)
(* two processes, and checkEvents calls SendToSign, an HTTP request to the *)
(* signer's REST server, in place of a send on the channel.  The request   *)
(* is repeated until SendToSign succeeds (RETRY in checkEvents).  Each     *)
(* request runs in a goroutine of the server (SignTx, Sign), which goes on *)
(* when the client has given up waiting for it.                            *)
(*                                                                         *)
(* The module follows one pass of the observer over the unlock             *)
(* transactions 1 .. NumItems, in the order in which they are on the       *)
(* chain.  No height is saved before a pass ends, so an observer that dies *)
(* begins the pass again.  A request that does not reach the handler (the  *)
(* server is down, or ServeHTTP answers a foreign host with nothing) is    *)
(* waited out and repeated: a stuttering step.                             *)
(***************************************************************************)
EXTENDS Integers, FiniteSets

CONSTANTS
    NumItems,       \* unlock transactions in the pass
    Handlers,       \* bound: goroutines of the server at a time
    NoHandler,
    OthersQuorum,   \* those the other signers of the multisig can complete alone
    MaxCrashes      \* bound: crashes of either process

ASSUME SplitAssumption ==
    /\ NumItems \in Nat \ {0}
    /\ NoHandler \notin Handlers
    /\ OthersQuorum \subseteq 1 .. NumItems
    /\ MaxCrashes \in Nat

VARIABLES
    unsignable,     \* those with an input getSigs cannot sign; never changes
    pos,            \* the transaction checkEvents is at
    waitFor,        \* the handler whose response SendToSign waits for
    handler,        \* the goroutines: what they work on and how far they are
    posted,         \* transactions for which Poly has this vendor's signatures
    completed,      \* those that got their quorum from the others
    crashes

splitVars == <<unsignable, pos, waitFor, handler, posted, completed, crashes>>

SUCCESS == 0
INTERNAL_ERROR == 42004

Response == [error : {SUCCESS, INTERNAL_ERROR}, desc : {"", "sign failed"}]

(* SignTx's responses: the success leaves Desc empty. *)
SignTxOk     == [error |-> SUCCESS, desc |-> ""]
SignTxFailed == [error |-> INTERNAL_ERROR, desc |-> "sign failed"]

Free == [pc |-> "free", item |-> 0, resp |-> SignTxFailed]

(* SendToSign: which responses it takes for a success. *)
Accepts(resp) == resp.error = SUCCESS /\ resp.desc = "SUCCESS"

SplitInit ==
    /\ unsignable \in SUBSET (1 .. NumItems)
    /\ pos = 1
    /\ waitFor = NoHandler
    /\ handler = [g \in Handlers |-> Free]
    /\ posted = {}
    /\ completed = {}
    /\ crashes = 0

-----------------------------------------------------------------------------
(* SendToSign posts the item; the server starts a goroutine for it. *)
SendToSign(g) ==
    /\ pos <= NumItems
    /\ waitFor = NoHandler
    /\ handler[g].pc = "free"
    /\ handler' = [handler EXCEPT ![g] = [pc |-> "sign", item |-> pos, resp |-> SignTxFailed]]
    /\ waitFor' = g
    /\ UNCHANGED <<unsignable, pos, posted, completed, crashes>>

(* The client's 300 s are over: an error, and the request is repeated.     *)
(* The goroutine does not learn of it.                                     *)
ClientTimeout ==
    /\ waitFor # NoHandler
    /\ waitFor' = NoHandler
    /\ UNCHANGED <<unsignable, pos, handler, posted, completed, crashes>>

(* SignTx answers: the success, or the failure of Sign.  Its answers to a   *)
(* body that does not decode do not occur: SendToSign posts an item it has *)
(* serialised itself.                                                      *)
Finish(g, resp) == handler' = [handler EXCEPT ![g].pc = "reply", ![g].resp = resp]

(* Sign: getSigs fails. *)
SignFails(g) ==
    /\ handler[g].pc = "sign"
    /\ handler[g].item \in unsignable
    /\ Finish(g, SignTxFailed)
    /\ UNCHANGED <<unsignable, pos, waitFor, posted, completed, crashes>>

(* Mutant: the signer answers before it has posted, and never posts. *)
PostSkipped(g) ==
    /\ handler[g].pc = "sign"
    /\ handler[g].item \notin unsignable
    /\ Finish(g, SignTxOk)
    /\ UNCHANGED <<unsignable, pos, waitFor, posted, completed, crashes>>

(* Sign: BtcMultiSign returns the id of the Poly transaction. *)
PostOk(g) ==
    /\ handler[g].pc = "sign"
    /\ handler[g].item \notin unsignable
    /\ posted' = posted \cup {handler[g].item}
    /\ Finish(g, SignTxOk)
    /\ UNCHANGED <<unsignable, pos, waitFor, completed, crashes>>

(* Sign: BtcMultiSign is delivered, its answer lost: PostErr, goto RETRY. *)
PostLost(g) ==
    /\ handler[g].pc = "sign"
    /\ handler[g].item \notin unsignable
    /\ posted' = posted \cup {handler[g].item}
    /\ UNCHANGED <<unsignable, pos, waitFor, handler, completed, crashes>>

(* Sign: BtcMultiSign fails otherwise, and nothing is posted: Poly has     *)
(* these signatures already, or its quorum, or the node could not make,    *)
(* take or run the transaction.                                            *)
PostRefused(g) ==
    /\ handler[g].pc = "sign"
    /\ handler[g].item \notin unsignable
    /\ Finish(g, SignTxFailed)
    /\ UNCHANGED <<unsignable, pos, waitFor, posted, completed, crashes>>

(* Mutant: the response is not looked at, nor whose it is. *)
ReplyAdvances(g) ==
    /\ handler[g].pc = "reply"
    /\ handler' = [handler EXCEPT ![g] = Free]
    /\ waitFor' = NoHandler
    /\ pos' = pos + 1
    /\ UNCHANGED <<unsignable, posted, completed, crashes>>

(* The response is written.  If SendToSign still waits for it, it decides  *)
(* between the next notification and RETRY; if not, nobody reads it.       *)
Reply(g) ==
    /\ handler[g].pc = "reply"
    /\ handler' = [handler EXCEPT ![g] = Free]
    /\ IF waitFor = g
       THEN /\ waitFor' = NoHandler
            /\ pos' = IF Accepts(handler[g].resp) THEN pos + 1 ELSE pos
       ELSE UNCHANGED <<waitFor, pos>>
    /\ UNCHANGED <<unsignable, posted, completed, crashes>>

(* The signer's process dies with its goroutines; the client sees an error. *)
SignerCrash ==
    /\ crashes < MaxCrashes
    /\ crashes' = crashes + 1
    /\ handler' = [g \in Handlers |-> Free]
    /\ waitFor' = NoHandler
    /\ UNCHANGED <<unsignable, pos, posted, completed>>

(* The observer's process dies; Listen begins again at the saved height,   *)
(* which is that before the pass.                                          *)
ObserverCrash ==
    /\ crashes < MaxCrashes
    /\ crashes' = crashes + 1
    /\ pos' = 1
    /\ waitFor' = NoHandler
    /\ UNCHANGED <<unsignable, handler, posted, completed>>

(* The other signers of the multisig complete a transaction. *)
OthersComplete(i) ==
    /\ i \in OthersQuorum \ completed
    /\ completed' = completed \cup {i}
    /\ UNCHANGED <<unsignable, pos, waitFor, handler, posted, crashes>>

Handle(g) == SignFails(g) \/ PostOk(g) \/ PostRefused(g)

SplitNext ==
    \/ \E g \in Handlers : SendToSign(g) \/ Handle(g) \/ PostLost(g) \/ Reply(g)
    \/ ClientTimeout
    \/ SignerCrash
    \/ ObserverCrash
    \/ \E i \in 1 .. NumItems : OthersComplete(i)

SplitSpec == SplitInit /\ [][SplitNext]_splitVars

(* The observer repeats its request; a goroutine runs, its retried post is *)
(* eventually answered and its response written; and a node's failures     *)
(* pass: signatures that are posted again and again are at some time       *)
(* accepted, unless Poly has the quorum.  Nothing is assumed of timeouts,  *)
(* of crashes and of the others.                                           *)
SplitFair ==
    /\ WF_splitVars(\E g \in Handlers : SendToSign(g))
    /\ \A g \in Handlers : WF_splitVars(Handle(g)) /\ WF_splitVars(Reply(g))
    /\ SF_splitVars(\E g \in Handlers : handler[g].item \notin completed /\ PostOk(g))

SplitFairSpec == SplitSpec /\ SplitFair

-----------------------------------------------------------------------------
(* The variables keep their types. *)
SplitTypeOK ==
    /\ unsignable \subseteq 1 .. NumItems
    /\ pos \in 1 .. NumItems + 1
    /\ waitFor \in Handlers \cup {NoHandler}
    /\ handler \in [Handlers -> [pc : {"free", "sign", "reply"}, item : 0 .. NumItems, resp : Response]]
    /\ posted \subseteq 1 .. NumItems
    /\ completed \subseteq OthersQuorum
    /\ crashes \in 0 .. MaxCrashes

(* What SendToSign reads is the answer to the item it has sent, whatever   *)
(* earlier requests outlived a timeout or a crash of the observer; and     *)
(* when SignTx answers with a success, Poly has the signatures.  A failure *)
(* says nothing: an earlier request may have posted them.                  *)
ReplyTruthful ==
    /\ waitFor # NoHandler => handler[waitFor].item = pos
    /\ \A g \in Handlers :
         handler[g].pc = "reply" /\ handler[g].resp.error = SUCCESS => handler[g].item \in posted

(* The transaction at the head of the pass, if it can be signed, is posted *)
(* or gets its quorum from the others, whatever timeouts, refusals and     *)
(* crashes do to its requests.                                             *)
HeadSigned == <>(1 \in unsignable \cup posted \cup completed)

(* In a pass of which every transaction can be signed, every one is signed *)
(* or gets its quorum from the others, in split mode as well ("sign every  *)
(* unlock transaction created by Poly automaticly", README.md).            *)
EveryItemSigned ==
    unsignable = {} => \A i \in 1 .. NumItems : <>(i \in posted \cup completed)
=============================================================================
