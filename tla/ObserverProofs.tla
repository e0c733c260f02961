--------------------------- MODULE ObserverProofs ---------------------------
(***************************************************************************)
(* Proofs about Observer, for every value of its constants: any number of  *)
(* transactions and blocks, any start height, saving period, lag of the    *)
(* node and channel capacity.                                              *)
(***************************************************************************)
EXTENDS Observer, TLAPS

USE ChainAssumption, ChanAssumption, ObserverAssumption

obsVars == <<obVars, txchan, chainVars>>

(* The empty chain, channel and file satisfy the invariant. *)
LEMMA ObsInitInv == ObsInit => ObsInv
  BY DEF ObsInit, ChainInit, ChanInit, ObInit, ObsInv, ObsTypeOK, ChainTypeOK,
         CheckpointSound, ScannedTo, NoHeight

(* What checkEvents looks at is a notification of a block of the chain. *)
LEMMA AtNotificationType ==
  ASSUME ObsTypeOK, newTop <= Len(chain), NEW name, AtNotification(name)
  PROVE  /\ h \in 1 .. Len(chain)
         /\ idx \in DOMAIN chain[h]
         /\ chain[h][idx] \in Notifications
         /\ chain[h][idx].name = name
<1>1. /\ chain \in Seq(Seq(Notifications))
      /\ h \in Nat \ {0} /\ newTop \in Nat /\ idx \in Nat \ {0}
      /\ h <= newTop /\ idx <= Len(chain[h]) /\ chain[h][idx].name = name
  BY DEF ObsTypeOK, ChainTypeOK, AtNotification
<1>2. h \in 1 .. Len(chain)
  BY <1>1
<1>3. chain[h] \in Seq(Notifications)
  BY <1>1, <1>2
<1> QED
  BY <1>1, <1>2, <1>3

(* A notification that announces an unlock, or a signed transaction,       *)
(* carries one of the vendor's transactions.                               *)
LEMMA NotificationTx ==
  ASSUME NEW e \in Notifications, e.name # "other"
  PROVE  /\ e.tx \in Txs
         /\ e.name = "btcTxToRelay" => e = Relay(e.tx)
         /\ e.name = "makeBtcTx" => e = Make(e.tx)
  BY DEF Notifications, Make, Relay, Noise

(* An unlock transaction is sent to the signer as such. *)
LEMMA AtMakeType ==
  ASSUME ObsTypeOK, newTop <= Len(chain), AtNotification("makeBtcTx")
  PROVE  /\ chain[h][idx].tx \in Txs
         /\ ToSignTx(chain[h][idx].tx) \in MsgTxs
<1>1. chain[h][idx].tx \in Txs
  BY AtNotificationType, NotificationTx
<1> QED
  BY <1>1 DEF ToSignTx, MsgTxs, Scripts

(* Committing a block, an append, keeps the chain's type and its length    *)
(* only grows.                                                             *)
LEMMA CommitBlockType ==
  ASSUME ChainTypeOK, CommitBlock
  PROVE  ChainTypeOK' /\ Len(chain') = Len(chain) + 1
<1>1. Announceable \subseteq Notifications
  BY DEF Announceable, Notifications
<1>2. PICK block \in Blocks : chain' = Append(chain, block)
  BY DEF CommitBlock
<1>3. block \in Seq(Notifications)
  <2>1. PICK n \in 0 .. MaxEvents : block \in [1 .. n -> Announceable]
    BY <1>2 DEF Blocks
  <2> QED
    BY <2>1, <1>1
<1> QED
  BY <1>2, <1>3 DEF ChainTypeOK, CommitBlock

(* The hash a signer posts is a hash. *)
LEMMA ToSignHash ==
  ASSUME NEW t \in Txs
  PROVE  TxHash(ToSignTx(t)) \in Hashes
  BY DEF TxHash, ToSignTx, Hashes, Scripts

(* A step of the observer, of the chain or of the signer, and a crash,     *)
(* preserve the invariant.                                                 *)
LEMMA ObsStepInv == ObsInv /\ [ObsNext]_obsVars => ObsInv'
<1> SUFFICES ASSUME ObsInv, [ObsNext]_obsVars
             PROVE  ObsInv'
  OBVIOUS
<1> USE DEF ObsInv, ObsTypeOK, CheckpointSound, ScannedTo, NoHeight
<1>1. CASE ObStart
  BY <1>1 DEF ObStart, getLastHeight, chainVars, ChainTypeOK
<1>2. CASE Idle
  BY <1>2 DEF Idle, obVars, chainVars, ChainTypeOK
<1>3. ASSUME NEW n \in ReportedHeights, Tick(n)
      PROVE  ObsInv'
  BY <1>3 DEF Tick, ReportedHeights, chainVars, ChainTypeOK
<1>4. CASE CheckToSign
  <2>1. ToSignTx(chain[h][idx].tx) \in MsgTxs
    BY <1>4, AtMakeType DEF CheckToSign
  <2>2. txchan' \in Seq(MsgTxs) /\ Len(txchan') <= ChanCap
    BY <1>4, <2>1 DEF CheckToSign, Send
  <2> QED
    BY <1>4, <2>2 DEF CheckToSign, NextNotification, chainVars, ChainTypeOK
<1>5. CASE CheckSigned
  BY <1>5 DEF CheckSigned, NextNotification, chainVars, ChainTypeOK
<1>6. CASE CheckOther
  BY <1>6 DEF CheckOther, NextNotification, chainVars, ChainTypeOK
<1>7. CASE EndBlock
  BY <1>7 DEF EndBlock, chainVars, ChainTypeOK
<1>8. CASE EndPass
  BY <1>8 DEF EndPass, chainVars, ChainTypeOK
<1>9. CASE SaveOpen
  BY <1>9 DEF SaveOpen, chainVars, ChainTypeOK
<1>10. CASE SaveWrite
  BY <1>10 DEF SaveWrite, chainVars, ChainTypeOK
<1>11. CASE SaveFails
  BY <1>11 DEF SaveFails, chainVars, ChainTypeOK
<1>12. CASE ObCrash
  BY <1>12 DEF ObCrash, chainVars, ChainTypeOK
<1>13. CASE CommitBlock /\ UNCHANGED <<obVars, txchan>>
  <2>1. ChainTypeOK' /\ Len(chain') = Len(chain) + 1
    BY <1>13, CommitBlockType
  <2>2. Len(chain) \in Nat
    BY DEF ChainTypeOK
  <2> QED
    BY <1>13, <2>1, <2>2 DEF obVars
<1>14. CASE Recv /\ UNCHANGED <<obVars, chainVars>>
  <2>1. txchan' \in Seq(MsgTxs) /\ Len(txchan') <= ChanCap
    BY <1>14 DEF Recv
  <2> QED
    BY <1>14, <2>1 DEF obVars, chainVars, ChainTypeOK
<1>15. ASSUME NEW t \in Txs, AcceptSigs(TxHash(ToSignTx(t))), UNCHANGED <<obVars, txchan>>
       PROVE  ObsInv'
  BY <1>15, ToSignHash DEF AcceptSigs, obVars, ChainTypeOK
<1>16. CASE UNCHANGED obsVars
  BY <1>16 DEF obsVars, obVars, chainVars, ChainTypeOK
<1> QED
  BY <1>1, <1>2, <1>3, <1>4, <1>5, <1>6, <1>7, <1>8, <1>9, <1>10, <1>11, <1>12, <1>13,
     <1>14, <1>15, <1>16 DEF ObsNext, ObListen, ObPass, ObEnv

(* The observer keeps its types and bounds: the channel never holds more   *)
(* than its capacity, whatever the signer does.                            *)
THEOREM ObsTypeCorrect == ObsSpec => []ObsTypeOK
<1>1. ObsInv => ObsTypeOK
  BY DEF ObsInv
<1> QED
  BY ObsInitInv, ObsStepInv, <1>1, PTL DEF ObsSpec, obsVars

(* The height in last_height never runs ahead of the scan: with any lag of *)
(* the node, any failure of the disk and a crash at any step.              *)
THEOREM ObsCheckpoint == ObsSpec => []CheckpointSound
<1>1. ObsInv => CheckpointSound
  BY DEF ObsInv
<1> QED
  BY ObsInitInv, ObsStepInv, <1>1, PTL DEF ObsSpec, obsVars
-----------------------------------------------------------------------------
(* Blocks are final: a step changes the chain only by appending to it. *)
LEMMA ChainGrows ==
  ASSUME ObsTypeOK, [ObsNext]_obsVars
  PROVE  /\ Len(chain) \in Nat /\ Len(chain') \in Nat
         /\ Len(chain) <= Len(chain')
         /\ \A b \in 1 .. Len(chain) : chain'[b] = chain[b]
<1>1. CASE UNCHANGED chain
  BY <1>1 DEF ObsTypeOK, ChainTypeOK
<1>2. CASE CommitBlock
  <2>1. PICK block \in Blocks : chain' = Append(chain, block)
    BY <1>2 DEF CommitBlock
  <2> QED
    BY <2>1 DEF ObsTypeOK, ChainTypeOK
<1>3. UNCHANGED chain \/ CommitBlock
  BY DEF ObsNext, ObListen, ObPass, ObEnv, ObStart, Idle, Tick, CheckToSign, CheckSigned,
         CheckOther, NextNotification, EndBlock, EndPass, SaveOpen, SaveWrite, SaveFails, ObCrash,
         AcceptSigs, chainVars, obsVars
<1> QED
  BY <1>1, <1>2, <1>3

(* The file is as far as the process believes it to be. *)
Recorded == lastHeight = lastRecorded

(* The first n notifications of block b hold an unlock transaction. *)
UnlockIn(b, n) == \E i \in DOMAIN chain[b] : i <= n /\ chain[b][i].name = "makeBtcTx"

HasUnlock(b) == \E i \in DOMAIN chain[b] : chain[b][i].name = "makeBtcTx"

(* The file covers the unlock transactions of the blocks up to n. *)
Covered(n) == \A b \in (StartHeight + 1) .. n : HasUnlock(b) => b <= lastHeight

(* Blocks up to n that are of interest are on the chain. *)
Known(n) == n <= StartHeight \/ n <= Len(chain)

(* The position in memory and the one in the file lie on the chain, or are *)
(* the configured start, and a pass is inside a block only while there is  *)
(* one to read.                                                            *)
HeightsKnown ==
    /\ Known(lastHeight)
    /\ obPc # "down" => Known(top)
    /\ obPc = "scan" => Known(h - 1) /\ (h > newTop => idx = 1)

(* Between passes the file covers what was passed, and so it does in a     *)
(* pass that has captured nothing yet.                                     *)
PassedCovered ==
    /\ obPc \in {"tick", "scan"} /\ Recorded => Covered(top)
    /\ obPc = "scan" /\ toSign = 0 /\ Recorded =>
         Covered(h - 1) /\ (h <= newTop => ~UnlockIn(h, idx - 1))

SaveInv == ObsInv /\ HeightsKnown /\ PassedCovered /\ SavedEveryCircle

(* The position is at most CircleToSaveHeight blocks past the record when  *)
(* a pass ends without a save.                                             *)
LEMMA CircleStep ==
  ASSUME ObsInv, SavedEveryCircle, [ObsNext]_obsVars
  PROVE  SavedEveryCircle'
<1> USE DEF ObsInv, ObsTypeOK, SavedEveryCircle, Sub
<1>1. CASE ObStart \/ SaveWrite \/ SaveFails
  <2>1. lastRecorded' = top' /\ top' \in Nat
    BY <1>1 DEF ObStart, SaveWrite, SaveFails, getLastHeight, NoHeight
  <2>2. \A n \in Nat : Sub(n, n) = 0
    OBVIOUS
  <2>3. Sub(top', lastRecorded') = 0
    BY <2>1, <2>2
  <2> QED
    BY <2>3
<1>2. CASE EndPass
  BY <1>2 DEF EndPass
<1>3. obPc' # "tick" \/ UNCHANGED <<obPc, top, lastRecorded>>
      \/ ObStart \/ SaveWrite \/ SaveFails \/ EndPass
  BY DEF ObsNext, ObListen, ObPass, ObEnv, Idle, Tick, CheckToSign, CheckSigned, CheckOther,
         AtNotification, NextNotification, EndBlock, SaveOpen, ObCrash, obVars, obsVars
<1> QED
  BY <1>1, <1>2, <1>3

(* Every step leaves the position and the file on the chain. *)
LEMMA HeightsStep ==
  ASSUME ObsInv, HeightsKnown, [ObsNext]_obsVars
  PROVE  HeightsKnown'
<1> USE DEF ObsInv, ObsTypeOK, HeightsKnown, Known, NoHeight
<1>0. /\ Len(chain) \in Nat /\ Len(chain') \in Nat /\ Len(chain) <= Len(chain')
  BY ChainGrows
<1>1. CASE ObStart
  BY <1>0, <1>1 DEF ObStart, getLastHeight
<1>2. ASSUME NEW n \in ReportedHeights, Tick(n)
      PROVE  HeightsKnown'
  BY <1>0, <1>2 DEF Tick
<1>3. CASE CheckToSign \/ CheckSigned \/ CheckOther
  <2>1. h <= newTop /\ UNCHANGED <<obPc, top, newTop, h, lastHeight>>
    BY <1>3 DEF CheckToSign, CheckSigned, CheckOther, AtNotification, NextNotification
  <2> QED
    BY <1>0, <2>1
<1>4. CASE EndBlock
  BY <1>0, <1>4 DEF EndBlock
<1>5. CASE EndPass
  BY <1>0, <1>5 DEF EndPass
<1>6. CASE SaveOpen \/ SaveWrite \/ SaveFails
  BY <1>0, <1>6 DEF SaveOpen, SaveWrite, SaveFails
<1>7. CASE ObCrash
  BY <1>0, <1>7 DEF ObCrash
<1>8. CASE UNCHANGED obVars
  BY <1>0, <1>8 DEF obVars
<1> QED
  BY <1>1, <1>2, <1>3, <1>4, <1>5, <1>6, <1>7, <1>8
     DEF ObsNext, ObListen, ObPass, ObEnv, Idle, obsVars

(* What the file covers it covers also when the chain grows. *)
LEMMA CoveredStable ==
  ASSUME ObsInv, [ObsNext]_obsVars, NEW n \in Int, Known(n), Covered(n), lastHeight' = lastHeight
  PROVE  \A b \in (StartHeight + 1) .. n : HasUnlock(b)' => b <= lastHeight'
<1>1. /\ Len(chain) \in Nat
      /\ \A b \in 1 .. Len(chain) : chain'[b] = chain[b]
  BY ChainGrows DEF ObsInv
<1>2. \A b \in (StartHeight + 1) .. n : b \in 1 .. Len(chain)
  BY <1>1 DEF Known
<1> QED
  BY <1>1, <1>2 DEF Covered, HasUnlock

(* Every step keeps the file level with what was passed, or apart from     *)
(* what the process believes it recorded.                                  *)
LEMMA PassedStep ==
  ASSUME ObsInv, HeightsKnown, PassedCovered, [ObsNext]_obsVars
  PROVE  PassedCovered'
<1>0. /\ Len(chain) \in Nat
      /\ \A b \in 1 .. Len(chain) : chain'[b] = chain[b]
      /\ chain \in Seq(Seq(Notifications))
      /\ top \in Nat /\ h \in Nat \ {0} /\ idx \in Nat \ {0} /\ newTop \in Nat /\ toSign \in Nat
      /\ newTop <= Len(chain)
      /\ lastHeight \in Int
  BY ChainGrows DEF ObsInv, ObsTypeOK, ChainTypeOK, NoHeight
<1>1. CASE ObStart \/ SaveWrite \/ SaveFails
  <2>1. obPc' = "tick" /\ lastRecorded' = top'
    BY <1>1 DEF ObStart, SaveWrite, SaveFails
  <2>2. (top' = lastHeight' => Covered(top)')
    BY DEF Covered
  <2> QED
    BY <2>1, <2>2 DEF PassedCovered, Recorded
<1>2. ASSUME NEW n \in ReportedHeights, Tick(n)
      PROVE  PassedCovered'
  <2>1. /\ obPc = "tick" /\ h' = top + 1 /\ idx' = 1
        /\ UNCHANGED <<top, lastRecorded, lastHeight, chain>>
    BY <1>2 DEF Tick, chainVars
  <2>2. Recorded => Covered(top)
    BY <2>1 DEF PassedCovered
  <2>3. h' <= newTop' => ~UnlockIn(h, idx - 1)'
    <3>1. newTop' \in Nat /\ newTop' <= Len(chain)
      BY <1>0, <1>2 DEF Tick, ReportedHeights
    <3>2. h' <= newTop' => chain'[h'] \in Seq(Notifications)
      BY <1>0, <2>1, <3>1
    <3> QED
      BY <2>1, <3>2 DEF UnlockIn
  <2>4. Recorded' = Recorded /\ Covered(top)' = Covered(top) /\ Covered(h - 1)' = Covered(top)
    BY <1>0, <2>1 DEF Recorded, Covered, HasUnlock
  <2> QED
    BY <2>2, <2>3, <2>4 DEF PassedCovered
<1>3. CASE CheckToSign \/ CheckSigned \/ CheckOther
  <2>1. /\ obPc = "scan" /\ h <= newTop /\ idx <= Len(chain[h]) /\ idx' = idx + 1
        /\ UNCHANGED <<obPc, top, newTop, h, lastRecorded, lastHeight, chain>>
    BY <1>3 DEF CheckToSign, CheckSigned, CheckOther, AtNotification, NextNotification, chainVars
  <2>2. toSign' = 0 => toSign = 0 /\ chain[h][idx].name # "makeBtcTx"
    BY <1>0, <1>3 DEF CheckToSign, CheckSigned, CheckOther, AtNotification
  <2>3. chain[h] \in Seq(Notifications)
    BY <1>0, <2>1
  <2>4. UnlockIn(h, idx - 1)' => UnlockIn(h, idx - 1) \/ chain[h][idx].name = "makeBtcTx"
    BY <1>0, <2>1, <2>3 DEF UnlockIn
  <2>5. Recorded' = Recorded /\ Covered(top)' = Covered(top) /\ Covered(h - 1)' = Covered(h - 1)
    BY <2>1 DEF Recorded, Covered, HasUnlock
  <2> QED
    BY <2>1, <2>2, <2>4, <2>5 DEF PassedCovered
<1>4. CASE EndBlock
  <2>1. /\ obPc = "scan" /\ h <= newTop /\ idx > Len(chain[h]) /\ h' = h + 1 /\ idx' = 1
        /\ UNCHANGED <<obPc, top, newTop, toSign, lastRecorded, lastHeight, chain>>
    BY <1>4 DEF EndBlock, chainVars
  <2>2. chain[h] \in Seq(Notifications)
    BY <1>0, <2>1
  <2>3. ~UnlockIn(h, idx - 1) => ~HasUnlock(h)
    BY <1>0, <2>1, <2>2 DEF UnlockIn, HasUnlock
  <2>4. Covered(h - 1) /\ ~HasUnlock(h) => Covered(h - 1)'
    BY <1>0, <2>1 DEF Covered, HasUnlock
  <2>5. h' <= newTop' => ~UnlockIn(h, idx - 1)'
    <3>1. h' <= newTop' => chain'[h'] \in Seq(Notifications)
      BY <1>0, <2>1
    <3> QED
      BY <2>1, <3>1 DEF UnlockIn
  <2>6. Recorded' = Recorded /\ Covered(top)' = Covered(top)
    BY <2>1 DEF Recorded, Covered, HasUnlock
  <2> QED
    BY <2>1, <2>3, <2>4, <2>5, <2>6 DEF PassedCovered
<1>5. CASE EndPass
  <2>1. /\ obPc = "scan" /\ h > newTop /\ top' = newTop
        /\ obPc' = "save" \/ (obPc' = "tick" /\ toSign = 0)
        /\ UNCHANGED <<lastRecorded, lastHeight, chain>>
    BY <1>0, <1>5 DEF EndPass, chainVars
  <2>2. Covered(h - 1) => Covered(top)'
    <3>1. \A b \in (StartHeight + 1) .. newTop : b \in (StartHeight + 1) .. (h - 1)
      BY <1>0, <2>1
    <3>2. \A b : HasUnlock(b)' <=> HasUnlock(b)
      BY <2>1 DEF HasUnlock
    <3> QED
      BY <2>1, <3>1, <3>2 DEF Covered
  <2> QED
    BY <2>1, <2>2 DEF PassedCovered, Recorded
<1>6. CASE SaveOpen \/ ObCrash
  BY <1>6 DEF SaveOpen, ObCrash, PassedCovered
<1>7. CASE UNCHANGED obVars
  <2>1. UNCHANGED <<obPc, top, newTop, h, idx, toSign, lastRecorded, lastHeight>>
    BY <1>7 DEF obVars
  <2>2. ASSUME obPc \in {"tick", "scan"}, Covered(top)
        PROVE  Covered(top)'
    <3>1. Known(top) /\ top \in Int
      BY <1>0, <2>2 DEF HeightsKnown
    <3> QED
      BY <2>1, <2>2, <3>1, CoveredStable DEF Covered
  <2>3. ASSUME obPc = "scan", Covered(h - 1)
        PROVE  Covered(h - 1)'
    <3>1. Known(h - 1) /\ h - 1 \in Int
      BY <1>0, <2>3 DEF HeightsKnown
    <3> QED
      BY <2>1, <2>3, <3>1, CoveredStable DEF Covered
  <2>4. h <= newTop => chain'[h] = chain[h]
    BY <1>0
  <2>5. h <= newTop => (UnlockIn(h, idx - 1)' <=> UnlockIn(h, idx - 1))
    BY <2>1, <2>4 DEF UnlockIn
  <2> QED
    BY <2>1, <2>2, <2>3, <2>5 DEF PassedCovered, Recorded
<1> QED
  BY <1>1, <1>2, <1>3, <1>4, <1>5, <1>6, <1>7 DEF ObsNext, ObListen, ObPass, ObEnv, Idle, obsVars

(* Every step preserves the invariant of the saving. *)
LEMMA SaveStepInv == SaveInv /\ [ObsNext]_obsVars => SaveInv'
BY ObsStepInv, CircleStep, HeightsStep, PassedStep DEF SaveInv

(* The initial state satisfies it. *)
LEMMA SaveInitInv == ObsInit => SaveInv
BY ObsInitInv DEF ObsInit, ChainInit, ObInit, SaveInv, HeightsKnown, Known, NoHeight, PassedCovered,
                  SavedEveryCircle

(* A restart hands the signer no unlock transaction again that was passed  *)
(* before the last save, as long as the file holds what the process        *)
(* believes: a pass that captured something always saves.                  *)
THEOREM ObsUnlocksCheckpointed == ObsSpec => []UnlocksCheckpointed
<1>1. SaveInv => UnlocksCheckpointed
  BY DEF SaveInv, PassedCovered, Recorded, Covered, HasUnlock, UnlocksCheckpointed
<1> QED
  BY SaveInitInv, SaveStepInv, <1>1, PTL DEF ObsSpec, obsVars

(* The position is saved every CircleToSaveHeight blocks, also when the    *)
(* height reported by the node goes backwards and the difference wraps.    *)
THEOREM ObsSavedEveryCircle == ObsSpec => []SavedEveryCircle
<1>1. SaveInv => SavedEveryCircle
  BY DEF SaveInv
<1> QED
  BY SaveInitInv, SaveStepInv, <1>1, PTL DEF ObsSpec, obsVars
=============================================================================
