------------------------------- MODULE TxChan -------------------------------
(***************************************************************************)
(* The Go channel between the observer's and the signer's goroutine in     *)
(* mode "all" (cmd/run.go).  It lives in memory: a crash empties it.       *)
(***************************************************************************)
EXTENDS Integers, Sequences

CONSTANT ChanCap    \* 100 in cmd/run.go

ASSUME ChanAssumption == ChanCap \in Nat \ {0}

VARIABLE txchan

ChanInit == txchan = <<>>

(* Mutant: the send does not wait for room. *)
SendUnbounded(item) == txchan' = Append(txchan, item)

(* ob.txchan <- item : blocks while the buffer is full. *)
Send(item) ==
    /\ Len(txchan) < ChanCap
    /\ txchan' = Append(txchan, item)

(* item := <-signer.txchan : blocks while the buffer is empty. *)
Recv ==
    /\ txchan # <<>>
    /\ txchan' = Tail(txchan)

(* What is in flight, as a set. *)
InChan == {txchan[i] : i \in DOMAIN txchan}
=============================================================================
