------------------------------ MODULE Observer ------------------------------
(***************************************************************************)
(* observer/alliaob.go : the goroutine that scans the Poly chain (Listen), *)
(* hands every unlock transaction to the signer and marks the announced    *)
(* ones done (checkEvents), and keeps its position in the file             *)
(* <dbPath>/last_height (getLastHeight, setLastHeight).                    *)
(*                                                                         *)
(* obPc names the point Listen has reached:                                *)
(*   "down"   the process does not run                                     *)
(*   "tick"   waiting for the ticker                                       *)
(*   "scan"   in the loop over the blocks top+1 .. newTop                  *)
(*   "save"   about to call setLastHeight                                  *)
(*   "write"  in setLastHeight, the file truncated and not yet written     *)
(* A failed RPC is waited out and tried again without any change of state, *)
(* so it is a stuttering step.                                             *)
(***************************************************************************)
EXTENDS PolyChain, TxChan

CONSTANTS
    StartHeight,    \* conf.PolyStartHeight
    WaitingCircle,  \* conf.CircleToSaveHeight
    UintMod,        \* 2^32, the modulus of the code's height arithmetic
    MaxLag,         \* blocks by which the reported height may trail the chain
    DiskFails       \* whether writing last_height may fail

ASSUME ObserverAssumption ==
    /\ StartHeight \in Nat
    /\ WaitingCircle \in Nat
    /\ UintMod \in Nat
    /\ StartHeight + 1 < UintMod
    /\ MaxHeight + 1 < UintMod
    /\ MaxLag \in Nat
    /\ DiskFails \in BOOLEAN

VARIABLES
    obPc, top, newTop, h, idx, toSign, lastRecorded,
    lastHeight,     \* content of the file last_height
    scanned         \* history: heights whose notifications were all handled

obVars == <<obPc, top, newTop, h, idx, toSign, lastRecorded, lastHeight, scanned>>

(* The file is missing, or was truncated and never written. *)
NoHeight == -1

(* Subtraction of uint32 heights. *)
Sub(a, b) == IF a >= b THEN a - b ELSE a - b + UintMod

(* A missing, empty or unparsable file reads as 0. *)
getLastHeight == IF lastHeight = NoHeight THEN 0 ELSE lastHeight

(* What GetCurrentBlockHeight may answer. *)
ReportedHeights == {n \in 0 .. Len(chain) : n + MaxLag >= Len(chain)}

ObInit ==
    /\ obPc = "down"
    /\ top = 0 /\ newTop = 0 /\ h = 1 /\ idx = 1 /\ toSign = 0 /\ lastRecorded = 0
    /\ lastHeight = NoHeight
    /\ scanned = {}

-----------------------------------------------------------------------------
(* Mutant: the snapshot, when there is one, wins over PolyStartHeight. *)
ObStartFromFile ==
    /\ obPc = "down"
    /\ obPc' = "tick"
    /\ top' = IF lastHeight # NoHeight THEN lastHeight ELSE StartHeight
    /\ lastRecorded' = top'
    /\ UNCHANGED <<newTop, h, idx, toSign, lastHeight, scanned, txchan, chainVars>>

(* Listen, up to its loop. *)
ObStart ==
    /\ obPc = "down"
    /\ obPc' = "tick"
    /\ top' = IF StartHeight # 0 THEN StartHeight ELSE getLastHeight
    /\ lastRecorded' = top'
    /\ UNCHANGED <<newTop, h, idx, toSign, lastHeight, scanned, txchan, chainVars>>

(* A tick that finds no new height: newTop-top <= 0 on uint32 is equality. *)
Idle ==
    /\ obPc = "tick"
    /\ \E n \in ReportedHeights : ~(Sub(n, top) > 0)
    /\ UNCHANGED <<obVars, txchan, chainVars>>

(* Mutant: the pass starts one block too late. *)
TickSkips(n) ==
    /\ obPc = "tick"
    /\ n \in ReportedHeights
    /\ Sub(n, top) > 0
    /\ obPc' = "scan"
    /\ toSign' = 0
    /\ newTop' = n
    /\ h' = top + 2
    /\ idx' = 1
    /\ UNCHANGED <<top, lastRecorded, lastHeight, scanned, txchan, chainVars>>

(* A tick that finds a different height n starts a pass. *)
Tick(n) ==
    /\ obPc = "tick"
    /\ n \in ReportedHeights
    /\ Sub(n, top) > 0
    /\ obPc' = "scan"
    /\ toSign' = 0
    /\ newTop' = n
    /\ h' = top + 1
    /\ idx' = 1
    /\ UNCHANGED <<top, lastRecorded, lastHeight, scanned, txchan, chainVars>>

(* The notification checkEvents looks at, while there is one. *)
AtNotification(name) ==
    /\ obPc = "scan"
    /\ h <= newTop
    /\ idx <= Len(chain[h])
    /\ chain[h][idx].name = name

NextNotification ==
    /\ idx' = idx + 1
    /\ UNCHANGED <<obPc, top, newTop, h, lastRecorded, lastHeight, scanned, chainVars>>

(* checkEvents, makeBtcTx: the item goes to the signer. *)
CheckToSign ==
    /\ AtNotification("makeBtcTx")
    /\ Send(ToSignTx(chain[h][idx].tx))
    /\ toSign' = toSign + 1
    /\ NextNotification

(* Mutant: the signatures are left in the hashed transaction. *)
SignedKeyRaw == TxHash(SignedTx(chain[h][idx].tx))

(* The key under which checkEvents looks an announced transaction up: its  *)
(* hash without the signatures.                                            *)
SignedKey == TxHash(StripScripts(SignedTx(chain[h][idx].tx)))

(* checkEvents, btcTxToRelay.  The call of SetTxDone(SignedKey) is         *)
(* conjoined where a store is composed.                                    *)
CheckSigned ==
    /\ AtNotification("btcTxToRelay")
    /\ NextNotification
    /\ UNCHANGED <<toSign, txchan>>

(* checkEvents: a notification that is skipped. *)
CheckOther ==
    /\ AtNotification("other")
    /\ NextNotification
    /\ UNCHANGED <<toSign, txchan>>

(* checkEvents returned for block h. *)
EndBlock ==
    /\ obPc = "scan"
    /\ h <= newTop
    /\ idx > Len(chain[h])
    /\ h' = h + 1
    /\ idx' = 1
    /\ scanned' = scanned \cup {h}
    /\ UNCHANGED <<obPc, top, newTop, toSign, lastRecorded, lastHeight, txchan, chainVars>>

(* Mutants: the height is saved only every CircleToSaveHeight blocks, and  *)
(* one block late.                                                         *)
EndPassEvery(save) ==
    /\ obPc = "scan"
    /\ h > newTop
    /\ top' = newTop
    /\ obPc' = IF save THEN "save" ELSE "tick"
    /\ UNCHANGED <<newTop, h, idx, toSign, lastRecorded, lastHeight, scanned, txchan, chainVars>>
EndPassCircleOnly == EndPassEvery(Sub(newTop, lastRecorded) >= WaitingCircle)
EndPassLate == EndPassEvery(toSign > 0 \/ Sub(newTop, lastRecorded) > WaitingCircle)

(* The loop over the blocks is done: save the height, or not. *)
EndPass ==
    /\ obPc = "scan"
    /\ h > newTop
    /\ top' = newTop
    /\ obPc' = IF toSign > 0 \/ Sub(newTop, lastRecorded) >= WaitingCircle
               THEN "save" ELSE "tick"
    /\ UNCHANGED <<newTop, h, idx, toSign, lastRecorded, lastHeight, scanned, txchan, chainVars>>

(* setLastHeight: ioutil.WriteFile truncates the file, then writes it.     *)
(* lastRecorded moves on whether or not the height was written.            *)
SaveOpen ==
    /\ obPc = "save"
    /\ obPc' = "write"
    /\ lastHeight' = NoHeight
    /\ UNCHANGED <<top, newTop, h, idx, toSign, lastRecorded, scanned, txchan, chainVars>>

SaveWrite ==
    /\ obPc = "write"
    /\ obPc' = "tick"
    /\ lastHeight' = top
    /\ lastRecorded' = top
    /\ UNCHANGED <<top, newTop, h, idx, toSign, scanned, txchan, chainVars>>

SaveFails ==
    /\ DiskFails
    /\ obPc \in {"save", "write"}
    /\ obPc' = "tick"
    /\ lastRecorded' = top
    /\ UNCHANGED <<top, newTop, h, idx, toSign, lastHeight, scanned, txchan, chainVars>>

(* The process dies: only the file survives. *)
ObCrash ==
    /\ obPc # "down"
    /\ obPc' = "down"
    /\ txchan' = <<>>
    /\ top' = 0 /\ newTop' = 0 /\ h' = 1 /\ idx' = 1 /\ toSign' = 0 /\ lastRecorded' = 0
    /\ UNCHANGED <<lastHeight, scanned, chainVars>>

-----------------------------------------------------------------------------
(* The scan of one pass, and the saving of its height. *)
ObPass ==
    \/ CheckToSign \/ CheckSigned \/ CheckOther
    \/ EndBlock \/ EndPass
    \/ SaveOpen \/ SaveWrite \/ SaveFails

ObListen == ObStart \/ Idle \/ (\E n \in ReportedHeights : Tick(n)) \/ ObPass

(* What the rest of the system does to the variables the observer shares:  *)
(* the chain grows, the signer takes items and posts signatures.           *)
ObEnv ==
    \/ CommitBlock /\ UNCHANGED <<obVars, txchan>>
    \/ Recv /\ UNCHANGED <<obVars, chainVars>>
    \/ \E t \in Txs : AcceptSigs(TxHash(ToSignTx(t))) /\ UNCHANGED <<obVars, txchan>>

ObsInit == ChainInit /\ ChanInit /\ ObInit

ObsNext == ObListen \/ ObCrash \/ ObEnv

ObsSpec == ObsInit /\ [][ObsNext]_<<obVars, txchan, chainVars>>

-----------------------------------------------------------------------------
(* The observer's variables keep their types. *)
ObsTypeOK ==
    /\ ChainTypeOK
    /\ txchan \in Seq(MsgTxs)
    /\ Len(txchan) <= ChanCap
    /\ obPc \in {"down", "tick", "scan", "save", "write"}
    /\ top \in Nat /\ newTop \in Nat /\ h \in Nat \ {0} /\ idx \in Nat \ {0}
    /\ toSign \in Nat /\ lastRecorded \in Nat
    /\ lastHeight \in Nat \cup {NoHeight}
    /\ scanned \subseteq Nat

(* The snapshot in last_height, from which the next process resumes, never *)
(* runs ahead of the scan: every block above PolyStartHeight up to it was  *)
(* handled to its last notification, by this process or an earlier one,    *)
(* whatever heights the node reported and wherever a crash fell.           *)
ScannedTo(n) == \A b \in (StartHeight + 1) .. n : b \in scanned

CheckpointSound == ScannedTo(lastHeight)

(* What makes CheckpointSound inductive: the same of the position in       *)
(* memory, and of the part of a pass that is done.                         *)
ObsInv ==
    /\ ObsTypeOK
    /\ newTop <= Len(chain)
    /\ CheckpointSound
    /\ obPc \in {"tick", "scan", "save", "write"} => ScannedTo(top)
    /\ obPc = "scan" => ScannedTo(h - 1)

(* Between passes, as long as the file holds the height the process        *)
(* believes it recorded, every block with an unlock transaction that the   *)
(* observer has passed is covered by it, so a restart does not hand it to  *)
(* the signer again: Listen saves at the end of a pass that captured       *)
(* something, not only every CircleToSaveHeight blocks.                    *)
UnlocksCheckpointed ==
    obPc = "tick" /\ lastHeight = lastRecorded =>
        \A b \in (StartHeight + 1) .. top :
            (\E i \in DOMAIN chain[b] : chain[b][i].name = "makeBtcTx") => b <= lastHeight

(* Between passes the position is less than CircleToSaveHeight blocks past *)
(* the one last recorded, also when the node's height went backwards       *)
(* ("save a snapshot height every n heights", README.md).                  *)
SavedEveryCircle ==
    obPc = "tick" /\ WaitingCircle > 0 => Sub(top, lastRecorded) < WaitingCircle

(* Which blocks were scanned: those above the configured start height only *)
(* ("start scanning from this height", README.md).                         *)
NeverBelowStart == \A b \in scanned : b >= StartHeight
=============================================================================
