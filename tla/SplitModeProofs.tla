-------------------------- MODULE SplitModeProofs --------------------------
(***************************************************************************)
(* Proofs about SplitMode, for passes of any length, any number of         *)
(* goroutines of the server and any number of crashes.                     *)
(***************************************************************************)
EXTENDS SplitMode, TLAPS

USE SplitAssumption

(* A goroutine that is not free works on one of the pass's transactions.   *)
Busy == \A g \in Handlers : handler[g].pc # "free" => handler[g].item \in 1 .. NumItems

SplitInv == SplitTypeOK /\ Busy /\ ReplyTruthful

(* What a goroutine is given is a goroutine's state. *)
LEMMA HandlerStates ==
  /\ Free \in [pc : {"free", "sign", "reply"}, item : 0 .. NumItems, resp : Response]
  /\ SignTxOk \in Response /\ SignTxFailed \in Response
  /\ \A resp \in Response : ~Accepts(resp)
  /\ Free.pc = "free"
  /\ SignTxFailed.error # SUCCESS
<1>1. SignTxOk \in Response /\ SignTxFailed \in Response
  BY DEF SignTxOk, SignTxFailed, Response
<1>2. \A resp \in Response : ~Accepts(resp)
  BY DEF Response, Accepts
<1>3. 0 \in 0 .. NumItems
  OBVIOUS
<1>4. SignTxFailed.error # SUCCESS
  BY DEF SignTxFailed, SUCCESS, INTERNAL_ERROR
<1> QED
  BY <1>1, <1>2, <1>3, <1>4 DEF Free

(* Sign ends with a response: a failure, or the success for a transaction  *)
(* whose signatures Poly has now.                                          *)
LEMMA FinishInv ==
  ASSUME SplitInv, NEW g \in Handlers, NEW resp \in Response,
         handler[g].pc = "sign", Finish(g, resp),
         posted' = posted \/ posted' = posted \cup {handler[g].item},
         resp.error # SUCCESS \/ handler[g].item \in posted',
         UNCHANGED <<unsignable, pos, waitFor, completed, crashes>>
  PROVE  SplitInv'
<1>1. handler[g].item \in 1 .. NumItems
  BY DEF SplitInv, Busy
<1>2. posted \subseteq posted' /\ posted' \subseteq 1 .. NumItems
  BY <1>1 DEF SplitInv, SplitTypeOK
<1>3. /\ handler' \in [Handlers -> [pc : {"free", "sign", "reply"}, item : 0 .. NumItems, resp : Response]]
      /\ \A q \in Handlers : handler'[q].item = handler[q].item
      /\ \A q \in Handlers : q # g => handler'[q] = handler[q]
      /\ handler'[g].resp = resp
  BY DEF Finish, SplitInv, SplitTypeOK
<1>4. SplitTypeOK'
  BY <1>2, <1>3 DEF SplitInv, SplitTypeOK
<1>5. Busy'
  BY <1>1, <1>3 DEF SplitInv, Busy
<1>6. ReplyTruthful'
  <2>1. waitFor' # NoHandler => handler'[waitFor'].item = pos'
    BY <1>3 DEF SplitInv, SplitTypeOK, ReplyTruthful
  <2>2. ASSUME NEW q \in Handlers, handler'[q].pc = "reply", handler'[q].resp.error = SUCCESS
        PROVE  handler'[q].item \in posted'
    <3>1. CASE q = g
      BY <1>3, <2>2, <3>1
    <3>2. CASE q # g
      BY <1>2, <1>3, <2>2, <3>2 DEF SplitInv, ReplyTruthful
    <3> QED
      BY <3>1, <3>2
  <2> QED
    BY <2>1, <2>2 DEF ReplyTruthful
<1> QED
  BY <1>4, <1>5, <1>6 DEF SplitInv

(* Every step keeps the invariant. *)
LEMMA SplitStep ==
  ASSUME SplitInv, [SplitNext]_splitVars
  PROVE  SplitInv'
<1> USE DEF SplitInv
<1>1. ASSUME NEW g \in Handlers, SendToSign(g)
      PROVE  SplitInv'
  <2> DEFINE new == [pc |-> "sign", item |-> pos, resp |-> SignTxFailed]
  <2>1. pos \in 1 .. NumItems
    BY <1>1 DEF SendToSign, SplitTypeOK
  <2>2. new \in [pc : {"free", "sign", "reply"}, item : 0 .. NumItems, resp : Response]
    BY <2>1, HandlerStates
  <2>3. new.pc = "sign" /\ new.item = pos
    OBVIOUS
  <2>4. handler' = [handler EXCEPT ![g] = new] /\ waitFor' = g /\ UNCHANGED <<unsignable, pos, posted, completed, crashes>>
    BY <1>1 DEF SendToSign
  <2> HIDE DEF new
  <2>5. SplitTypeOK'
    BY <2>2, <2>4 DEF SplitTypeOK
  <2>6. Busy'
    BY <2>1, <2>3, <2>4 DEF SplitTypeOK, Busy
  <2>7. ReplyTruthful'
    BY <2>3, <2>4 DEF SplitTypeOK, ReplyTruthful
  <2> QED
    BY <2>5, <2>6, <2>7
<1>2. ASSUME NEW g \in Handlers, Handle(g)
      PROVE  SplitInv'
  <2>1. CASE SignFails(g)
    BY <2>1, HandlerStates, FinishInv DEF SignFails
  <2>2. CASE PostOk(g)
    BY <2>2, HandlerStates, FinishInv DEF PostOk
  <2>3. CASE PostRefused(g)
    BY <2>3, HandlerStates, FinishInv DEF PostRefused
  <2> QED
    BY <1>2, <2>1, <2>2, <2>3 DEF Handle
<1>3. ASSUME NEW g \in Handlers, PostLost(g)
      PROVE  SplitInv'
  BY <1>3 DEF PostLost, SplitTypeOK, Busy, ReplyTruthful
<1>4. ASSUME NEW g \in Handlers, Reply(g)
      PROVE  SplitInv'
  <2>1. handler[g].resp \in Response
    BY DEF SplitTypeOK
  <2>2. /\ handler' = [handler EXCEPT ![g] = Free]
        /\ waitFor' \in {waitFor, NoHandler}
        /\ waitFor = g => waitFor' = NoHandler
        /\ UNCHANGED <<unsignable, pos, posted, completed, crashes>>
    BY <1>4, <2>1, HandlerStates DEF Reply
  <2>3. SplitTypeOK'
    BY <2>2, HandlerStates DEF SplitTypeOK
  <2> QED
    BY <2>2, <2>3, HandlerStates DEF SplitTypeOK, Busy, ReplyTruthful
<1>5. CASE ClientTimeout
  BY <1>5 DEF ClientTimeout, SplitTypeOK, Busy, ReplyTruthful
<1>6. CASE SignerCrash
  BY <1>6, HandlerStates DEF SignerCrash, SplitTypeOK, Busy, ReplyTruthful
<1>7. CASE ObserverCrash
  BY <1>7 DEF ObserverCrash, SplitTypeOK, Busy, ReplyTruthful
<1>8. ASSUME NEW i \in 1 .. NumItems, OthersComplete(i)
      PROVE  SplitInv'
  BY <1>8 DEF OthersComplete, SplitTypeOK, Busy, ReplyTruthful
<1>9. CASE UNCHANGED splitVars
  BY <1>9 DEF splitVars, SplitTypeOK, Busy, ReplyTruthful
<1> QED
  BY <1>1, <1>2, <1>3, <1>4, <1>5, <1>6, <1>7, <1>8, <1>9 DEF SplitNext

(* The invariant holds throughout, of the specification without fairness   *)
(* and so of the one with it.                                              *)
THEOREM SplitInvariant == SplitSpec => []SplitInv
<1>1. SplitInit => SplitInv
  BY HandlerStates DEF SplitInit, SplitInv, SplitTypeOK, Busy, ReplyTruthful
<1>2. SplitInv /\ [SplitNext]_splitVars => SplitInv'
  BY SplitStep
<1> QED
  BY <1>1, <1>2, PTL DEF SplitSpec

(* The variables of both processes keep their types, in spite of timeouts, *)
(* repeated requests and crashes.                                          *)
THEOREM SplitTypeCorrect == SplitSpec => []SplitTypeOK
BY SplitInvariant, PTL DEF SplitInv

(* What SendToSign reads answers what it has sent, and once SignTx answers *)
(* with a success, Poly has the signatures.                                *)
THEOREM SplitReplyTruthful == SplitSpec => []ReplyTruthful
BY SplitInvariant, PTL DEF SplitInv

-----------------------------------------------------------------------------
(* No response is one that SendToSign accepts, so the observer never gets  *)
(* past the first transaction and no goroutine ever works on another.      *)
OnlyFirst ==
    /\ pos = 1
    /\ \A g \in Handlers : handler[g].pc # "free" => handler[g].item = 1
    /\ posted \subseteq {1}

(* In split mode nothing but the first unlock transaction of a pass is     *)
(* ever posted: the run split_stuck shows it of two transactions, this of  *)
(* any number, whatever is signable, repeated, timed out or crashes.       *)
THEOREM SplitPostsOnlyFirst == SplitSpec => [](posted \subseteq {1})
<1>1. SplitInit => OnlyFirst
  BY HandlerStates DEF SplitInit, OnlyFirst
<1>2. SplitInv /\ OnlyFirst /\ [SplitNext]_splitVars => OnlyFirst'
  <2> SUFFICES ASSUME SplitInv, OnlyFirst, [SplitNext]_splitVars PROVE OnlyFirst'
    OBVIOUS
  <2>0. handler \in [Handlers -> [pc : {"free", "sign", "reply"}, item : 0 .. NumItems, resp : Response]]
    BY DEF SplitInv, SplitTypeOK
  <2>1. ASSUME NEW g \in Handlers, SendToSign(g)
        PROVE  OnlyFirst'
    BY <2>0, <2>1 DEF SendToSign, OnlyFirst
  <2>2. ASSUME NEW g \in Handlers, Handle(g) \/ PostLost(g)
        PROVE  OnlyFirst'
    <3>1. /\ handler[g].item = 1 /\ posted' \subseteq posted \cup {1} /\ pos' = pos
          /\ \A q \in Handlers : handler'[q].item = handler[q].item
          /\ \A q \in Handlers : q # g => handler'[q] = handler[q]
      BY <2>0, <2>2 DEF Handle, PostLost, SignFails, PostOk, PostRefused, Finish, OnlyFirst
    <3> QED
      BY <3>1 DEF OnlyFirst
  <2>3. ASSUME NEW g \in Handlers, Reply(g)
        PROVE  OnlyFirst'
    <3>1. handler[g].resp \in Response
      BY <2>0
    <3>2. handler' = [handler EXCEPT ![g] = Free] /\ UNCHANGED <<pos, posted>>
      BY <2>3, <3>1, HandlerStates DEF Reply
    <3> QED
      BY <2>0, <3>2, HandlerStates DEF OnlyFirst
  <2>4. CASE ClientTimeout
    BY <2>4 DEF ClientTimeout, OnlyFirst
  <2>5. CASE SignerCrash \/ ObserverCrash
    BY <2>5, HandlerStates DEF SignerCrash, ObserverCrash, OnlyFirst
  <2>6. ASSUME NEW i \in 1 .. NumItems, OthersComplete(i)
        PROVE  OnlyFirst'
    BY <2>6 DEF OthersComplete, OnlyFirst
  <2>7. CASE UNCHANGED splitVars
    BY <2>7 DEF splitVars, OnlyFirst
  <2> QED
    BY <2>1, <2>2, <2>3, <2>4, <2>5, <2>6, <2>7 DEF SplitNext
<1>3. OnlyFirst => posted \subseteq {1}
  BY DEF OnlyFirst
<1> QED
  BY <1>1, <1>2, <1>3, SplitInvariant, PTL DEF SplitSpec
=============================================================================
