-------------------------- MODULE VendorToolProofs --------------------------
(***************************************************************************)
(* Proofs about VendorTool, for every value of its constants: any number   *)
(* of transactions, blocks and crashes, any capacity of the channel, with  *)
(* or without failures of the disk and the database.                       *)
(***************************************************************************)
EXTENDS VendorTool, ObserverProofs

USE ChainAssumption, ChanAssumption, ObserverAssumption, SignerAssumption, ToolAssumption

(* The tool starts as the observer does, and each of its steps is a step   *)
(* of the observer, of its environment, or leaves it alone.                *)
LEMMA ToolStepIsObsStep ==
  ASSUME TypeOK, ItemInv, [ToolNext]_toolVars
  PROVE  [ObsNext]_obsVars
<1>1. CASE ToolObserve
  BY <1>1 DEF ToolObserve, ObsNext, ObListen, ObPass
<1>2. CASE ToolSetTxDone
  BY <1>2 DEF ToolSetTxDone, ObsNext, ObListen, ObPass
<1>3. CASE ToolSign
  <2>1. CASE SgStart
    BY <1>3, <2>1 DEF ToolSign, SgStart, obsVars
  <2>2. CASE Take \/ TakeUnsignable
    BY <1>3, <2>2 DEF ToolSign, Take, TakeUnsignable, ObsNext, ObEnv
  <2>3. CASE PostOk \/ PostLost
    BY <1>3, <2>3 DEF ToolSign, PostOk, PostLost, ObsNext, ObEnv, ItemInv
  <2>4. CASE PostRefused
    BY <1>3, <2>4 DEF ToolSign, PostRefused, obsVars
  <2> QED
    BY <1>3, <2>1, <2>2, <2>3, <2>4 DEF ToolSign
<1>4. CASE ToolRecord
  BY <1>4 DEF ToolRecord, Record, obsVars
<1>5. CASE Crash
  BY <1>5 DEF Crash, ObsNext
<1>6. CASE ToolChain
  BY <1>6 DEF ToolChain, ObsNext, ObEnv
<1>7. CASE UNCHANGED toolVars
  BY <1>7 DEF toolVars, obsVars
<1> QED
  BY <1>1, <1>2, <1>3, <1>4, <1>5, <1>6, <1>7 DEF ToolNext

(* The key under which a stripped transaction is recorded is a hash. *)
LEMMA StrippedHash ==
  ASSUME NEW t \in Txs
  PROVE  /\ TxHash(StripScripts(ToSignTx(t))) = <<t, "nil">>
         /\ TxHash(StripScripts(SignedTx(t))) = <<t, "nil">>
         /\ <<t, "nil">> \in Hashes
  BY DEF TxHash, StripScripts, ToSignTx, SignedTx, Hashes, Scripts

(* The first item of a channel, and what stays when it is taken. *)
LEMMA HeadItem ==
  ASSUME txchan \in Seq(MsgTxs), txchan # <<>>
  PROVE  /\ Head(txchan) = txchan[1]
         /\ 1 \in DOMAIN txchan
         /\ Head(txchan) \in MsgTxs
         /\ Tail(txchan) \in Seq(MsgTxs)
         /\ \A i \in DOMAIN Tail(txchan) : i + 1 \in DOMAIN txchan /\ Tail(txchan)[i] = txchan[i + 1]
         /\ \A i \in DOMAIN txchan : i # 1 => i - 1 \in DOMAIN Tail(txchan) /\ Tail(txchan)[i - 1] = txchan[i]
  OBVIOUS

(* The signer's variables, the records and the histories keep their types. *)
LEMMA ToolTypeStep ==
  ASSUME ToolInv, [ToolNext]_toolVars, ObsInv'
  PROVE  TypeOK'
<1> USE DEF TypeOK, SgTypeOK, StoreTypeOK
<1>0. ObsTypeOK /\ ObsTypeOK' /\ TypeOK /\ ItemInv
  BY DEF ObsInv, ToolInv
<1>1. CASE ToolObserve
  BY <1>0, <1>1 DEF ToolObserve, sgVars
<1>2. CASE ToolSetTxDone
  <2>1. chain[h][idx].tx \in Txs
    <3>1. AtNotification("btcTxToRelay") /\ newTop <= Len(chain)
      BY <1>2 DEF ToolSetTxDone, CheckSigned, ToolInv, ObsInv
    <3> QED
      BY <1>0, <3>1, AtNotificationType, NotificationTx
  <2>2. SignedKey \in Hashes
    BY <2>1, StrippedHash DEF SignedKey
  <2>3. records' \in [Hashes -> {"none", "open", "done"}]
    BY <1>0, <1>2, <2>2 DEF ToolSetTxDone, SetTxDone
  <2>4. missed' \subseteq Hashes
    BY <1>0, <1>2, <2>2 DEF ToolSetTxDone
  <2> QED
    BY <1>0, <1>2, <2>3, <2>4 DEF ToolSetTxDone, sgVars
<1>3. CASE ToolSign
  <2>1. SgTypeOK'
    <3>1. CASE SgStart
      BY <3>1 DEF SgStart, SgIdle
    <3>2. CASE Take
      <4>1. Head(txchan) \in MsgTxs
        BY <1>0, <3>2, HeadItem DEF ObsTypeOK, Take, Recv
      <4> QED
        BY <3>2, <4>1 DEF Take, MsgTxs, StripScripts, TxHash, Hashes, Scripts
    <3>3. CASE TakeUnsignable \/ PostOk \/ PostLost
      BY <1>0, <3>3 DEF TakeUnsignable, PostOk, PostLost, sgVars
    <3>4. CASE PostRefused
      BY <3>4 DEF PostRefused, SgIdle
    <3> QED
      BY <1>3, <3>1, <3>2, <3>3, <3>4 DEF ToolSign
  <2> QED
    BY <1>0, <1>3, <2>1 DEF ToolSign
<1>4. CASE ToolRecord
  <2>1. RecordKey \in Hashes
    BY <1>0, <1>4, StrippedHash DEF ToolRecord, Record, RecordKey, ItemInv, StripScripts, TxHash, ToSignTx
  <2>2. records' \in [Hashes -> {"none", "open", "done"}]
    BY <1>0, <1>4, <2>1 DEF ToolRecord, PutSignedTx
  <2> QED
    BY <1>0, <1>4, <2>2 DEF ToolRecord, Record, SgIdle
<1>5. CASE Crash
  <2>1. \A i \in DOMAIN txchan : txchan[i].tx \in Txs
    <3>1. \A i \in DOMAIN txchan : txchan[i] \in MsgTxs
      BY <1>0 DEF ObsTypeOK
    <3> QED
      BY <3>1 DEF MsgTxs
  <2>2. InFlight \subseteq Txs
    BY <1>0, <2>1 DEF InFlight, InChan, ItemInv
  <2> QED
    BY <1>0, <1>5, <2>2 DEF Crash, SgIdle
<1>6. CASE ToolChain
  BY <1>0, <1>6 DEF ToolChain, sgVars
<1>7. CASE UNCHANGED toolVars
  BY <1>0, <1>7 DEF toolVars, sgVars
<1> QED
  BY <1>1, <1>2, <1>3, <1>4, <1>5, <1>6, <1>7 DEF ToolNext

(* Only blocks of the chain are scanned. *)
LEMMA ScanStep ==
  ASSUME ObsInv, ScanInv, [ObsNext]_obsVars
  PROVE  ScanInv'
<1> USE DEF ObsInv, ObsTypeOK, ScanInv
<1>0. Len(chain) \in Nat
  BY DEF ChainTypeOK
<1>1. CASE ObStart \/ Idle \/ SaveOpen \/ SaveWrite \/ SaveFails \/ ObCrash
  BY <1>1 DEF ObStart, Idle, SaveOpen, SaveWrite, SaveFails, ObCrash, obVars, chainVars
<1>2. ASSUME NEW n \in ReportedHeights, Tick(n)
      PROVE  ScanInv'
  BY <1>2 DEF Tick, chainVars
<1>3. CASE CheckToSign \/ CheckSigned \/ CheckOther
  <2>1. h <= newTop /\ UNCHANGED <<obPc, h, newTop, scanned, chain>>
    BY <1>3 DEF CheckToSign, CheckSigned, CheckOther, AtNotification, NextNotification, chainVars
  <2>2. h \in Nat /\ newTop \in Nat
    OBVIOUS
  <2> QED
    BY <2>1, <2>2
<1>4. CASE EndBlock
  BY <1>0, <1>4 DEF EndBlock, chainVars
<1>5. CASE EndPass
  BY <1>5 DEF EndPass, chainVars
<1>6. CASE CommitBlock /\ UNCHANGED <<obVars, txchan>>
  BY <1>0, <1>6, CommitBlockType DEF obVars
<1>7. CASE ObEnv /\ UNCHANGED <<obVars, chain>>
  BY <1>7 DEF obVars
<1>8. CASE UNCHANGED obsVars
  BY <1>8 DEF obsVars, obVars, chainVars
<1> QED
  BY <1>1, <1>2, <1>3, <1>4, <1>5, <1>6, <1>7, <1>8
     DEF ObsNext, ObListen, ObPass, ObEnv, AcceptSigs, chainVars

(* The signer works on what the observer sent. *)
LEMMA ItemStep ==
  ASSUME ToolInv, [ToolNext]_toolVars
  PROVE  ItemInv'
<1>0. txchan \in Seq(MsgTxs) /\ ItemInv /\ NoTx \notin Txs
  BY DEF ToolInv, ObsInv, ObsTypeOK
<1>1. CASE CheckToSign /\ UNCHANGED sgVars
  <2>1. posted' = posted
    BY <1>1 DEF CheckToSign, NextNotification, chainVars
  <2>2. \A i \in DOMAIN txchan' : txchan'[i].scripts = "pk"
    <3>1. ToSignTx(chain[h][idx].tx) \in MsgTxs
      BY <1>1, AtMakeType DEF CheckToSign, ToolInv, ObsInv
    <3>2. ToSignTx(chain[h][idx].tx).scripts = "pk"
      BY DEF ToSignTx
    <3> QED
      BY <1>0, <1>1, <3>1, <3>2 DEF CheckToSign, Send, ItemInv
  <2> QED
    BY <1>0, <1>1, <2>1, <2>2 DEF sgVars, ItemInv
<1>2. CASE UNCHANGED <<sgVars, txchan, posted>>
  BY <1>0, <1>2 DEF sgVars, ItemInv
<1>3. CASE Crash
  BY <1>3 DEF Crash, ObCrash, SgIdle, ItemInv
<1>4. CASE SgStart \/ PostRefused \/ Record
  BY <1>0, <1>4 DEF SgStart, PostRefused, Record, SgIdle, ItemInv
<1>5. CASE Take
  <2>1. Head(txchan) \in MsgTxs /\ Head(txchan).scripts = "pk"
    BY <1>0, <1>5, HeadItem DEF Take, Recv, ItemInv
  <2>2. Head(txchan).tx \in Txs /\ Head(txchan) = ToSignTx(Head(txchan).tx)
    BY <2>1 DEF MsgTxs, ToSignTx
  <2>3. cur'.tx = Head(txchan).tx
    BY <1>5, <2>2 DEF Take, StripScripts, ToSignTx
  <2>4. \A i \in DOMAIN txchan' : txchan'[i].scripts = "pk"
    BY <1>0, <1>5, HeadItem DEF Take, Recv, ItemInv
  <2> QED
    BY <1>5, <2>2, <2>3, <2>4 DEF Take, ItemInv
<1>6. CASE TakeUnsignable
  <2>1. \A i \in DOMAIN txchan' : txchan'[i].scripts = "pk"
    BY <1>0, <1>6, HeadItem DEF TakeUnsignable, Recv, ItemInv
  <2> QED
    BY <1>0, <1>6, <2>1 DEF TakeUnsignable, sgVars, chainVars, ItemInv
<1>7. CASE PostOk \/ PostLost
  BY <1>0, <1>7 DEF PostOk, PostLost, AcceptSigs, sgVars, ItemInv
<1>8. ToolObserve => (CheckToSign /\ UNCHANGED sgVars) \/ UNCHANGED <<sgVars, txchan, posted>>
  BY DEF ToolObserve, ObStart, Idle, Tick, CheckOther, EndBlock, EndPass, SaveOpen, SaveWrite,
         SaveFails, NextNotification, chainVars
<1>9. ToolSetTxDone \/ ToolChain \/ UNCHANGED toolVars => UNCHANGED <<sgVars, txchan, posted>>
  BY DEF ToolSetTxDone, CheckSigned, NextNotification, ToolChain, CommitBlock, toolVars, chainVars
<1> QED
  BY <1>1, <1>2, <1>3, <1>4, <1>5, <1>6, <1>7, <1>8, <1>9 DEF ToolNext, ToolSign, ToolRecord

(* What was announced stays announced. *)
LEMMA OnChainStable ==
  ASSUME ObsTypeOK, [ObsNext]_obsVars, NEW e, OnChain(e)
  PROVE  OnChain(e)'
<1>1. PICK b \in 1 .. Len(chain) : \E i \in DOMAIN chain[b] : chain[b][i] = e
  BY DEF OnChain, InFirst
<1>2. b \in 1 .. Len(chain') /\ chain'[b] = chain[b]
  BY <1>1, ChainGrows
<1> QED
  BY <1>1, <1>2, ChainGrows DEF OnChain, InFirst

(* The only notification a step adds to the handled ones is the one        *)
(* checkEvents is at.                                                      *)
LEMMA HandledStep ==
  ASSUME ObsInv, ScanInv, [ObsNext]_obsVars,
         NEW b \in 1 .. Len(chain'), NEW i \in DOMAIN chain'[b], Handled(b, i)'
  PROVE  /\ b \in 1 .. Len(chain) /\ chain'[b] = chain[b]
         /\ Handled(b, i) \/ (b = h /\ i = idx /\ (CheckToSign \/ CheckSigned \/ CheckOther))
<1> USE DEF ObsInv, ObsTypeOK, ScanInv
<1>0. /\ Len(chain) \in Nat /\ i \in Nat /\ i >= 1
      /\ \A c \in 1 .. Len(chain) : chain'[c] = chain[c]
  <2>1. chain' \in Seq(Seq(Notifications))
    BY ObsStepInv DEF ChainTypeOK
  <2>2. chain'[b] \in Seq(Notifications)
    BY <2>1
  <2>3. i \in Nat /\ i >= 1
    BY <2>2
  <2> QED
    BY <2>3, ChainGrows
<1> SUFFICES Handled(b, i) \/ (b = h /\ i = idx /\ (CheckToSign \/ CheckSigned \/ CheckOther))
  <2>1. obPc = "scan" /\ i < idx => h <= newTop
    <3>1. h \in Nat /\ newTop \in Nat /\ idx \in Nat
      OBVIOUS
    <3>2. obPc = "scan" /\ h > newTop => idx = 1
      OBVIOUS
    <3> QED
      BY <1>0, <3>1, <3>2
  <2> QED
    BY <1>0, <2>1 DEF Handled, CheckToSign, CheckSigned, CheckOther, AtNotification
<1>1. CASE ObStart \/ Idle \/ EndPass \/ SaveOpen \/ SaveWrite \/ SaveFails \/ ObCrash
  BY <1>1 DEF ObStart, Idle, EndPass, SaveOpen, SaveWrite, SaveFails, ObCrash, obVars, Handled
<1>2. ASSUME NEW n \in ReportedHeights, Tick(n)
      PROVE  Handled(b, i)
  BY <1>0, <1>2 DEF Tick, Handled
<1>3. CASE CheckToSign \/ CheckSigned \/ CheckOther
  <2>1. idx' = idx + 1 /\ UNCHANGED <<obPc, h, scanned>>
    BY <1>3 DEF CheckToSign, CheckSigned, CheckOther, NextNotification
  <2> QED
    BY <1>0, <1>3, <2>1 DEF Handled
<1>4. CASE EndBlock
  <2>1. h \in 1 .. Len(chain) /\ chain'[h] = chain[h]
    BY <1>0, <1>4 DEF EndBlock, chainVars
  <2>2. b = h => i <= Len(chain[h])
    BY <2>1 DEF ChainTypeOK
  <2>3. Len(chain[h]) \in Nat /\ idx \in Nat
    BY <2>1 DEF ChainTypeOK
  <2>4. obPc = "scan" /\ idx > Len(chain[h]) /\ idx' = 1 /\ scanned' = scanned \cup {h}
    BY <1>4 DEF EndBlock
  <2>5. b \in scanned \/ b = h
    <3>1. b \in scanned' \/ i < idx'
      BY DEF Handled
    <3> QED
      BY <1>0, <2>4, <3>1
  <2>6. b = h => i < idx
    BY <1>0, <2>2, <2>3, <2>4
  <2> QED
    BY <2>4, <2>5, <2>6 DEF Handled
<1>5. CASE UNCHANGED obVars
  BY <1>5 DEF obVars, Handled
<1> QED
  BY <1>1, <1>2, <1>3, <1>4, <1>5 DEF ObsNext, ObListen, ObPass, ObEnv, obsVars

(* What Poly has of this vendor's signatures it keeps; what was lost in a  *)
(* crash stays in the history.                                             *)
LEMMA PostedGrows ==
  ASSUME [ToolNext]_toolVars
  PROVE  posted \subseteq posted' /\ lost \subseteq lost'
<1>1. CASE ToolObserve
  BY <1>1 DEF ToolObserve, ObStart, Idle, Tick, CheckToSign, CheckOther, NextNotification, EndBlock,
              EndPass, SaveOpen, SaveWrite, SaveFails, chainVars
<1>2. CASE ToolSign
  BY <1>2 DEF ToolSign, SgStart, Take, TakeUnsignable, PostOk, PostLost, PostRefused, AcceptSigs,
              chainVars
<1>3. CASE ToolSetTxDone \/ ToolRecord \/ Crash \/ ToolChain \/ UNCHANGED toolVars
  BY <1>3 DEF ToolSetTxDone, CheckSigned, NextNotification, ToolRecord, Record, Crash, ObCrash,
              ToolChain, CommitBlock, toolVars, chainVars
<1> QED
  BY <1>1, <1>2, <1>3 DEF ToolNext

(* A transaction that is dealt with stays so, but for a crash.  The cases  *)
(* are the moves of an item: through the channel, from the channel to the  *)
(* signer, out of the signer.                                              *)
LEMMA DealtStep ==
  ASSUME ToolInv, [ToolNext]_toolVars, ~Crash, NEW t \in Txs, Dealt(t)
  PROVE  Dealt(t)'
<1>0. /\ txchan \in Seq(MsgTxs)
      /\ ItemInv
      /\ [ObsNext]_obsVars
      /\ ObsTypeOK
  BY ToolStepIsObsStep DEF ToolInv, ObsInv, ObsTypeOK
<1>1. CASE SignedByUs(t) \/ t \in Unsignable \cup Refusable
  BY <1>1, PostedGrows DEF SignedByUs, Dealt
<1>2. CASE OnChain(Relay(t))
  BY <1>0, <1>2, OnChainStable DEF Dealt
<1>3. ASSUME NEW i \in DOMAIN txchan, t = txchan[i].tx
      PROVE  Dealt(t)'
  <2>1. CASE Take \/ TakeUnsignable
    <3>1. CASE i = 1
      <4>1. Head(txchan).tx = t
        BY <1>0, <1>3, <2>1, <3>1, HeadItem DEF Take, TakeUnsignable, Recv
      <4>2. CASE Take
        <5>1. cur'.tx = t /\ sgPc' = "post"
          <6>1. Head(txchan) \in MsgTxs
            BY <1>0, <4>2, HeadItem DEF Take, Recv
          <6> QED
            BY <4>1, <4>2, <6>1 DEF Take, StripScripts, MsgTxs
        <5> QED
          BY <5>1 DEF Dealt, InFlight
      <4>3. CASE TakeUnsignable
        BY <4>1, <4>3 DEF TakeUnsignable, Dealt
      <4> QED
        BY <2>1, <4>2, <4>3
    <3>2. CASE i # 1
      <4>1. i - 1 \in DOMAIN txchan' /\ txchan'[i - 1] = txchan[i]
        BY <1>0, <1>3, <2>1, <3>2, HeadItem DEF Take, TakeUnsignable, Recv
      <4> QED
        BY <1>3, <4>1 DEF Dealt, InFlight, InChan
    <3> QED
      BY <3>1, <3>2
  <2>2. CASE CheckToSign
    <3>1. i \in DOMAIN txchan' /\ txchan'[i] = txchan[i]
      BY <1>0, <1>3, <2>2 DEF CheckToSign, Send
    <3> QED
      BY <1>3, <3>1 DEF Dealt, InFlight, InChan
  <2>3. CASE UNCHANGED txchan
    BY <1>3, <2>3 DEF Dealt, InFlight, InChan
  <2>4. Take \/ TakeUnsignable \/ CheckToSign \/ UNCHANGED txchan
    BY DEF ToolNext, ToolObserve, ObStart, Idle, Tick, CheckOther, EndBlock, EndPass, SaveOpen,
           SaveWrite, SaveFails, ToolSetTxDone, CheckSigned, ToolSign, SgStart, PostOk, PostLost,
           PostRefused, ToolRecord, Record, ToolChain, toolVars
  <2> QED
    BY <2>1, <2>2, <2>3, <2>4
<1>4. ASSUME sgPc \in {"post", "record"}, t = cur.tx
      PROVE  Dealt(t)'
  <2>1. txHash = TxHash(ToSignTx(t))
    BY <1>0, <1>4 DEF ItemInv
  <2>2. CASE PostRefused
    <3>1. SignedByUs(t) \/ OnChain(Relay(t)) \/ t \in Refusable
      BY <1>4, <2>1, <2>2 DEF PostRefused, SignedByUs
    <3> QED
      BY <1>1, <1>2, <3>1
  <2>3. CASE Record
    <3>1. SignedByUs(t)
      BY <1>0, <2>1, <2>3 DEF Record, ItemInv, SignedByUs
    <3> QED
      BY <1>1, <3>1
  <2>4. CASE cur' = cur /\ sgPc' \in {"post", "record"}
    BY <1>4, <2>4 DEF Dealt, InFlight
  <2>5. PostRefused \/ Record \/ (cur' = cur /\ sgPc' \in {"post", "record"})
    BY <1>4 DEF ToolNext, ToolObserve, ToolSetTxDone, ToolSign, SgStart, Take, TakeUnsignable,
                PostOk, PostLost, ToolRecord, ToolChain, toolVars, sgVars
  <2> QED
    BY <2>2, <2>3, <2>4, <2>5
<1> QED
  BY <1>1, <1>2, <1>3, <1>4 DEF Dealt, InFlight, InChan

(* It stays accounted for in a crash as well, which takes what is in       *)
(* memory into lost.                                                       *)
LEMMA AccountedStep ==
  ASSUME ToolInv, [ToolNext]_toolVars, NEW t \in Txs, Accounted(t)
  PROVE  Accounted(t)'
<1>1. CASE t \in lost
  BY <1>1, PostedGrows DEF Accounted
<1>2. CASE Dealt(t) /\ ~Crash
  BY <1>2, DealtStep DEF Accounted
<1>3. CASE Dealt(t) /\ Crash
  <2>1. CASE t \in InFlight
    <3>1. SignedByUs(t) \/ t \in lost'
      BY <1>3, <2>1 DEF Crash
    <3> QED
      BY <3>1, PostedGrows DEF Accounted, Dealt, SignedByUs
  <2>2. CASE SignedByUs(t) \/ t \in Unsignable \cup Refusable
    BY <2>2, PostedGrows DEF Accounted, Dealt, SignedByUs
  <2>3. CASE OnChain(Relay(t))
    <3>1. [ObsNext]_obsVars /\ ObsTypeOK
      BY ToolStepIsObsStep DEF ToolInv, ObsInv
    <3> QED
      BY <2>3, <3>1, OnChainStable DEF Accounted, Dealt
  <2> QED
    BY <1>3, <2>1, <2>2, <2>3 DEF Dealt
<1> QED
  BY <1>1, <1>2, <1>3 DEF Accounted

(* An unlock transaction that checkEvents hands over is in flight then. *)
LEMMA SentIsDealt ==
  ASSUME ObsInv, CheckToSign, NEW t, t = chain[h][idx].tx
  PROVE  Dealt(t)'
<1>1. ToSignTx(t) \in MsgTxs /\ t \in Txs
  BY AtMakeType DEF ObsInv, CheckToSign
<1>2. txchan' = Append(txchan, ToSignTx(t)) /\ txchan \in Seq(MsgTxs)
  BY DEF CheckToSign, Send, ObsInv, ObsTypeOK
<1>3. Len(txchan) + 1 \in DOMAIN txchan' /\ txchan'[Len(txchan) + 1] = ToSignTx(t)
  BY <1>1, <1>2
<1> QED
  BY <1>3 DEF Dealt, InFlight, InChan, ToSignTx

(* NothingForgotten is preserved. *)
LEMMA ForgottenStep ==
  ASSUME ToolInv, [ToolNext]_toolVars
  PROVE  NothingForgotten'
<1> SUFFICES ASSUME NEW b \in DOMAIN chain', NEW i \in DOMAIN chain'[b],
                    Handled(b, i)', chain'[b][i].name = "makeBtcTx",
                    NEW t, t = chain'[b][i].tx
             PROVE  Accounted(t)'
  BY DEF NothingForgotten, Accounted
<1>0. ObsInv /\ ScanInv /\ NothingForgotten /\ [ObsNext]_obsVars
  BY ToolStepIsObsStep DEF ToolInv
<1>1. chain' \in Seq(Seq(Notifications)) /\ chain \in Seq(Seq(Notifications))
  BY <1>0, ObsStepInv DEF ObsInv, ObsTypeOK, ChainTypeOK
<1>2. b \in 1 .. Len(chain') /\ DOMAIN chain = 1 .. Len(chain)
  BY <1>1
<1>3. /\ b \in 1 .. Len(chain) /\ chain'[b] = chain[b]
      /\ Handled(b, i) \/ (b = h /\ i = idx /\ (CheckToSign \/ CheckSigned \/ CheckOther))
  BY <1>0, <1>2, HandledStep
<1>4. t = chain[b][i].tx /\ t \in Txs
  <2>1. chain[b] \in Seq(Notifications)
    BY <1>1, <1>3
  <2>2. chain[b][i] \in Notifications
    BY <1>3, <2>1
  <2> QED
    BY <1>3, <2>2 DEF Notifications, Make, Relay, Noise
<1>5. CASE Handled(b, i)
  <2>1. Accounted(t)
    BY <1>0, <1>2, <1>3, <1>4, <1>5 DEF NothingForgotten
  <2> QED
    BY <1>4, <2>1, AccountedStep
<1>6. CASE b = h /\ i = idx /\ (CheckToSign \/ CheckSigned \/ CheckOther)
  <2>1. CheckToSign
    BY <1>3, <1>6 DEF CheckSigned, CheckOther, AtNotification
  <2> QED
    BY <1>0, <1>4, <1>6, <2>1, SentIsDealt DEF Accounted
<1> QED
  BY <1>3, <1>5, <1>6

(* The key of SetTxDone is that of a transaction that was announced... *)
LEMMA AnnouncedKey ==
  ASSUME ObsInv, CheckSigned
  PROVE  \E u \in Txs : OnChain(Relay(u)) /\ SignedKey = <<u, "nil">>
<1>0. ObsTypeOK /\ AtNotification("btcTxToRelay") /\ newTop <= Len(chain)
  BY DEF CheckSigned, ObsInv
<1>1. PICK u \in Txs : chain[h][idx] = Relay(u)
  BY <1>0, AtNotificationType, NotificationTx
<1>2. OnChain(Relay(u))
  <2>1. h \in 1 .. Len(chain) /\ idx \in DOMAIN chain[h]
    BY <1>0, AtNotificationType
  <2> QED
    BY <1>0, <1>1, <2>1 DEF OnChain, InFirst, ObsTypeOK, ChainTypeOK
<1>3. chain[h][idx].tx = u
  BY <1>1 DEF Relay
<1> QED
  BY <1>2, <1>3, StrippedHash DEF SignedKey

(* ...and that of PutSignedTx of one whose signatures Poly has. *)
LEMMA DeliveredKey ==
  ASSUME ItemInv, Record
  PROVE  cur.tx \in Txs /\ SignedByUs(cur.tx) /\ RecordKey = <<cur.tx, "nil">>
BY StrippedHash DEF Record, RecordKey, ItemInv, SignedByUs, StripScripts, TxHash, ToSignTx

(* RecordsTruthful is preserved: PutSignedTx follows a delivered post of   *)
(* the same transaction, SetTxDone an announcement of it.                  *)
LEMMA TruthStep ==
  ASSUME ToolInv, [ToolNext]_toolVars
  PROVE  RecordsTruthful'
<1>0. /\ ObsInv /\ ObsTypeOK /\ ItemInv /\ RecordsTruthful /\ [ObsNext]_obsVars
      /\ records \in [Hashes -> {"none", "open", "done"}]
  BY ToolStepIsObsStep DEF ToolInv, TypeOK, StoreTypeOK
<1> SUFFICES ASSUME NEW t \in Txs
             PROVE  /\ records'[<<t, "nil">>] # "none" => SignedByUs(t)'
                    /\ records'[<<t, "nil">>] = "done" => OnChain(Relay(t))'
  BY StrippedHash DEF RecordsTruthful
<1>1. /\ <<t, "nil">> \in Hashes
      /\ records[<<t, "nil">>] # "none" => SignedByUs(t)
      /\ records[<<t, "nil">>] = "done" => OnChain(Relay(t))
  BY <1>0, StrippedHash DEF RecordsTruthful
<1>2. /\ SignedByUs(t) => SignedByUs(t)'
      /\ OnChain(Relay(t)) => OnChain(Relay(t))'
  BY <1>0, PostedGrows, OnChainStable DEF SignedByUs
<1>3. CASE ToolSetTxDone
  <2>1. PICK u \in Txs : OnChain(Relay(u)) /\ SignedKey = <<u, "nil">>
    BY <1>0, <1>3, AnnouncedKey DEF ToolSetTxDone
  <2>2. records'[<<t, "nil">>] = records[<<t, "nil">>]
          \/ (u = t /\ records[<<t, "nil">>] # "none")
    BY <1>0, <1>1, <1>3, <2>1 DEF ToolSetTxDone, SetTxDone
  <2> QED
    BY <1>1, <1>2, <2>1, <2>2
<1>4. CASE ToolRecord
  <2>1. SignedByUs(cur.tx) /\ RecordKey = <<cur.tx, "nil">>
    BY <1>0, <1>4, DeliveredKey DEF ToolRecord
  <2>2. records'[<<t, "nil">>] = records[<<t, "nil">>]
          \/ (cur.tx = t /\ records'[<<t, "nil">>] = "open")
    BY <1>0, <1>1, <1>4, <2>1 DEF ToolRecord, PutSignedTx
  <2> QED
    BY <1>1, <1>2, <2>1, <2>2
<1>5. CASE UNCHANGED records
  BY <1>1, <1>2, <1>5
<1>6. ToolSetTxDone \/ ToolRecord \/ UNCHANGED records
  BY DEF ToolNext, ToolObserve, ToolSign, Crash, ToolChain, toolVars
<1> QED
  BY <1>3, <1>4, <1>5, <1>6

-----------------------------------------------------------------------------
(* The initial state of the tool satisfies the inductive invariant. *)
LEMMA ToolInitInv == ToolInit => ToolInv
<1> SUFFICES ASSUME ToolInit PROVE ToolInv
  OBVIOUS
<1>1. ObsInv
  BY ObsInitInv DEF ToolInit
<1>2. /\ chain = <<>> /\ posted = {} /\ txchan = <<>> /\ scanned = {} /\ obPc = "down"
      /\ sgPc = "off" /\ cur = NoItem /\ txHash = TxHash(NoItem)
      /\ records = [k \in Hashes |-> "none"]
      /\ crashes = 0 /\ lost = {} /\ missed = {}
  BY DEF ToolInit, ObsInit, ChainInit, ChanInit, ObInit, SgInit, StoreInit
<1>3. TypeOK
  BY <1>1, <1>2 DEF ObsInv, TypeOK, SgTypeOK, StoreTypeOK
<1>4. ScanInv /\ ItemInv
  BY <1>2 DEF ScanInv, ItemInv
<1>5. NothingForgotten
  BY <1>2 DEF NothingForgotten
<1>6. RecordsTruthful
  BY <1>2, StrippedHash DEF RecordsTruthful
<1> QED
  BY <1>1, <1>3, <1>4, <1>5, <1>6 DEF ToolInv

(* Every step of the tool preserves the inductive invariant. *)
LEMMA ToolStepInv == ToolInv /\ [ToolNext]_toolVars => ToolInv'
<1> SUFFICES ASSUME ToolInv, [ToolNext]_toolVars PROVE ToolInv'
  OBVIOUS
<1>1. [ObsNext]_obsVars /\ ObsInv /\ ScanInv
  BY ToolStepIsObsStep DEF ToolInv
<1>2. ObsInv'
  BY <1>1, ObsStepInv
<1>3. ScanInv'
  BY <1>1, ScanStep
<1> QED
  BY <1>2, <1>3, ToolTypeStep, ItemStep, ForgottenStep, TruthStep DEF ToolInv

(* The tool as a whole is an observer in its environment: whatever is      *)
(* proved of ObsSpec holds of the composition with signer, store and       *)
(* crashes.                                                                *)
THEOREM ToolImplementsObserver == ToolSpec => ObsSpec
<1>1. ToolInit => ObsInit
  BY DEF ToolInit
<1>2. ToolInv /\ [ToolNext]_toolVars => [ObsNext]_obsVars
  BY ToolStepIsObsStep DEF ToolInv
<1> QED
  BY ToolInitInv, ToolStepInv, <1>1, <1>2, PTL DEF ToolSpec, ObsSpec, obsVars

(* The variables of the tool keep their types. *)
THEOREM ToolTypeCorrect == ToolSpec => []TypeOK
<1>1. ToolInv => TypeOK
  BY DEF ToolInv
<1> QED
  BY ToolInitInv, ToolStepInv, <1>1, PTL DEF ToolSpec

(* No unlock transaction the observer has passed is forgotten, except in a *)
(* crash: through any interleaving of the two goroutines, any failure of   *)
(* disk, database and posts.                                               *)
THEOREM ToolForgetsNothing == ToolSpec => []NothingForgotten
<1>1. ToolInv => NothingForgotten
  BY DEF ToolInv
<1> QED
  BY ToolInitInv, ToolStepInv, <1>1, PTL DEF ToolSpec

(* Records exist only for delivered signatures and are done only for       *)
(* announced transactions.                                                 *)
THEOREM ToolRecordsTruthful == ToolSpec => []RecordsTruthful
<1>1. ToolInv => RecordsTruthful
  BY DEF ToolInv
<1> QED
  BY ToolInitInv, ToolStepInv, <1>1, PTL DEF ToolSpec

(* The tool has dealt with every unlock transaction of the blocks above    *)
(* the start height up to n, or is dealing with it.                        *)
AccountedTo(n) ==
    \A b \in (StartHeight + 1) .. n : \A i \in DOMAIN chain[b] :
        chain[b][i].name = "makeBtcTx" => Accounted(chain[b][i].tx)

(* Observer and signer together: the height in the file, from which the    *)
(* next process resumes, and the position from which the next pass begins  *)
(* leave no unlock behind that is not signed, completed, in flight, beyond *)
(* signing or lost in a crash.                                             *)
THEOREM ToolResumesSafely ==
  ToolSpec => [](AccountedTo(lastHeight) /\ (obPc = "tick" => AccountedTo(top)))
<1>1. ASSUME ToolInv, NEW n, ScannedTo(n)
      PROVE  AccountedTo(n)
  <2> SUFFICES ASSUME NEW b \in (StartHeight + 1) .. n, NEW i \in DOMAIN chain[b],
                      chain[b][i].name = "makeBtcTx"
               PROVE  Accounted(chain[b][i].tx)
    BY DEF AccountedTo
  <2>1. b \in scanned /\ b \in DOMAIN chain
    BY <1>1 DEF ToolInv, ScanInv, ScannedTo, ObsInv, ObsTypeOK, ChainTypeOK
  <2> QED
    BY <1>1, <2>1 DEF ToolInv, NothingForgotten, Handled
<1>2. ToolInv => AccountedTo(lastHeight) /\ (obPc = "tick" => AccountedTo(top))
  BY <1>1 DEF ToolInv, ObsInv, CheckpointSound
<1> QED
  BY ToolInitInv, ToolStepInv, <1>2, PTL DEF ToolSpec

-----------------------------------------------------------------------------
(* An announcement that was scanned closed its record or found none to     *)
(* close; this, unlike OpenOnlyIfMissed, is inductive: what is neither     *)
(* done nor missed could be opened later.                                  *)
Relayed(b, i) == Handled(b, i) /\ chain[b][i].name = "btcTxToRelay"

ClosedOrMissed(k) == records[k] = "done" \/ k \in missed

RelayInv ==
    \A b \in DOMAIN chain : \A i \in DOMAIN chain[b] :
        Relayed(b, i) => ClosedOrMissed(<<chain[b][i].tx, "nil">>)

(* A record that is done stays done, and the history keeps what it has. *)
LEMMA ClosedStable ==
  ASSUME TypeOK, [ToolNext]_toolVars, NEW k \in Hashes, ClosedOrMissed(k)
  PROVE  ClosedOrMissed(k)'
<1>0. records \in [Hashes -> {"none", "open", "done"}]
  BY DEF TypeOK, StoreTypeOK
<1>1. CASE ToolSetTxDone
  BY <1>0, <1>1 DEF ToolSetTxDone, SetTxDone, ClosedOrMissed
<1>2. CASE ToolRecord
  BY <1>0, <1>2 DEF ToolRecord, PutSignedTx, ClosedOrMissed
<1>3. CASE UNCHANGED <<records, missed>>
  BY <1>3 DEF ClosedOrMissed
<1>4. ToolSetTxDone \/ ToolRecord \/ UNCHANGED <<records, missed>>
  BY DEF ToolNext, ToolObserve, ToolSign, Crash, ToolChain, toolVars
<1> QED
  BY <1>1, <1>2, <1>3, <1>4

(* A call of SetTxDone closes the record or is missed. *)
LEMMA SetTxDoneCloses ==
  ASSUME ToolSetTxDone, NEW k, k = SignedKey
  PROVE  ClosedOrMissed(k)'
BY DEF ToolSetTxDone, ClosedOrMissed

(* The tool passes an announcement with the call of SetTxDone only. *)
LEMMA CheckSignedCalls ==
  ASSUME ObsTypeOK, [ToolNext]_toolVars, CheckSigned
  PROVE  ToolSetTxDone
<1>1. /\ obPc = "scan" /\ obPc' = "scan" /\ chain[h][idx].name = "btcTxToRelay"
      /\ idx \in Nat \ {0} /\ idx' = idx + 1
  BY DEF CheckSigned, AtNotification, NextNotification, ObsTypeOK
<1>2. idx' # idx /\ idx' # 1
  BY <1>1
<1>3. ~ToolObserve
  BY <1>1, <1>2 DEF ToolObserve, ObStart, Idle, Tick, CheckToSign, CheckOther, AtNotification,
                    EndBlock, EndPass, SaveOpen, SaveWrite, SaveFails, obVars
<1>4. ~(ToolSign \/ ToolRecord \/ ToolChain \/ UNCHANGED toolVars)
  BY <1>2 DEF ToolSign, ToolRecord, ToolChain, toolVars, obVars
<1>5. ~Crash
  BY <1>1 DEF Crash, ObCrash
<1> QED
  BY <1>3, <1>4, <1>5 DEF ToolNext

(* Every step preserves it: the observer passes an announcement only with  *)
(* the call of SetTxDone for it.                                           *)
LEMMA RelayStep ==
  ASSUME ToolInv, RelayInv, [ToolNext]_toolVars
  PROVE  RelayInv'
<1> SUFFICES ASSUME NEW b \in DOMAIN chain', NEW i \in DOMAIN chain'[b], Relayed(b, i)',
                    NEW t, t = chain'[b][i].tx
             PROVE  ClosedOrMissed(<<t, "nil">>)'
  BY DEF RelayInv, ClosedOrMissed
<1>0. ObsInv /\ ScanInv /\ TypeOK /\ [ObsNext]_obsVars
  BY ToolStepIsObsStep DEF ToolInv
<1>1. chain' \in Seq(Seq(Notifications)) /\ chain \in Seq(Seq(Notifications))
  BY <1>0, ObsStepInv DEF ObsInv, ObsTypeOK, ChainTypeOK
<1>2. b \in 1 .. Len(chain') /\ DOMAIN chain = 1 .. Len(chain)
  BY <1>1
<1>3. /\ b \in 1 .. Len(chain) /\ chain'[b] = chain[b]
      /\ Handled(b, i) \/ (b = h /\ i = idx /\ (CheckToSign \/ CheckSigned \/ CheckOther))
  BY <1>0, <1>2, HandledStep DEF Relayed
<1>4. t = chain[b][i].tx /\ chain[b][i].name = "btcTxToRelay" /\ t \in Txs
  <2>1. chain[b] \in Seq(Notifications)
    BY <1>1, <1>3
  <2>2. chain[b][i] \in Notifications
    BY <1>3, <2>1
  <2> QED
    BY <1>3, <2>2 DEF Relayed, Notifications, Make, Relay, Noise
<1>5. <<t, "nil">> \in Hashes
  BY <1>4, StrippedHash
<1>6. CASE Handled(b, i)
  <2>1. ClosedOrMissed(<<t, "nil">>)
    BY <1>2, <1>3, <1>4, <1>6 DEF RelayInv, Relayed
  <2> QED
    BY <1>0, <1>5, <2>1, ClosedStable
<1>7. CASE b = h /\ i = idx /\ (CheckToSign \/ CheckSigned \/ CheckOther)
  <2>1. CheckSigned
    BY <1>4, <1>7 DEF CheckToSign, CheckOther, AtNotification
  <2>2. ToolSetTxDone
    BY <1>0, <2>1, CheckSignedCalls DEF ObsInv
  <2>3. SignedKey = <<t, "nil">>
    BY <1>4, <1>7, StrippedHash DEF SignedKey
  <2> QED
    BY <2>2, <2>3, SetTxDoneCloses
<1> QED
  BY <1>3, <1>6, <1>7

(* A record stays open behind the observer only if the announcement was    *)
(* scanned before the signer's record was there, or the database failed:   *)
(* through any interleaving of the two goroutines and any crash.           *)
THEOREM ToolOpenOnlyIfMissed == ToolSpec => []OpenOnlyIfMissed
<1>1. ToolInit => RelayInv
  BY DEF ToolInit, ObsInit, ChainInit, RelayInv
<1>2. ToolInv /\ RelayInv /\ [ToolNext]_toolVars => RelayInv'
  BY RelayStep
<1>3. ToolInv /\ RelayInv => OpenOnlyIfMissed
  <2> SUFFICES ASSUME ToolInv, RelayInv,
                      NEW b \in DOMAIN chain, NEW i \in DOMAIN chain[b],
                      Handled(b, i), chain[b][i].name = "btcTxToRelay",
                      NEW t, t = chain[b][i].tx
               PROVE  records[TxHash(StripScripts(SignedTx(t)))] = "open" =>
                        TxHash(StripScripts(SignedTx(t))) \in missed
    BY DEF OpenOnlyIfMissed
  <2>1. chain \in Seq(Seq(Notifications))
    BY DEF ToolInv, ObsInv, ObsTypeOK, ChainTypeOK
  <2>2. chain[b] \in Seq(Notifications)
    BY <2>1
  <2>3. chain[b][i] \in Notifications
    BY <2>2
  <2>4. TxHash(StripScripts(SignedTx(t))) = <<t, "nil">>
    BY <2>3, NotificationTx, StrippedHash
  <2> QED
    BY <2>4 DEF RelayInv, Relayed, ClosedOrMissed
<1> QED
  BY ToolInitInv, ToolStepInv, <1>1, <1>2, <1>3, PTL DEF ToolSpec

-----------------------------------------------------------------------------
(* The only notification above the start height that a step puts behind    *)
(* the position is the one checkEvents is at: a start puts the position    *)
(* at the start height, a pass that ends where its last block was.         *)
LEMMA BehindStep ==
  ASSUME ObsInv, HeightsKnown, [ObsNext]_obsVars, StartHeight > 0,
         NEW b \in 1 .. Len(chain'), b > StartHeight,
         NEW i \in DOMAIN chain'[b], Behind(b, i)'
  PROVE  /\ b \in 1 .. Len(chain) /\ chain'[b] = chain[b]
         /\ Behind(b, i) \/ (b = h /\ i = idx /\ (CheckToSign \/ CheckSigned \/ CheckOther))
<1>0. /\ Len(chain) \in Nat /\ i \in Nat \ {0} /\ b \in Nat
      /\ \A c \in 1 .. Len(chain) : chain'[c] = chain[c]
      /\ top \in Nat /\ h \in Nat \ {0} /\ idx \in Nat \ {0} /\ newTop \in Nat
      /\ newTop <= Len(chain)
      /\ obPc # "down" => top <= StartHeight \/ top <= Len(chain)
      /\ obPc = "scan" => /\ h - 1 <= StartHeight \/ h - 1 <= Len(chain)
                          /\ h > newTop => idx = 1
  <2>1. chain' \in Seq(Seq(Notifications))
    BY ObsStepInv DEF ObsInv, ObsTypeOK, ChainTypeOK
  <2>2. chain'[b] \in Seq(Notifications)
    BY <2>1
  <2>3. i \in Nat \ {0}
    BY <2>2
  <2> QED
    BY <2>3, ChainGrows DEF ObsInv, ObsTypeOK, HeightsKnown, Known
<1> SUFFICES Behind(b, i) \/ (b = h /\ i = idx /\ (CheckToSign \/ CheckSigned \/ CheckOther))
  <2>1. Behind(b, i) => b <= Len(chain)
    BY <1>0 DEF Behind
  <2>2. CheckToSign \/ CheckSigned \/ CheckOther => h <= newTop
    BY DEF CheckToSign, CheckSigned, CheckOther, AtNotification
  <2> QED
    BY <1>0, <2>1, <2>2
<1>1. ~ObStart /\ ~ObCrash
  BY <1>0 DEF ObStart, ObCrash, Behind
<1>2. ASSUME NEW n \in ReportedHeights, Tick(n)
      PROVE  Behind(b, i)
  BY <1>0, <1>2 DEF Tick, Behind
<1>3. CASE CheckToSign \/ CheckSigned \/ CheckOther
  <2>1. idx' = idx + 1 /\ UNCHANGED <<obPc, h, top>>
    BY <1>3 DEF CheckToSign, CheckSigned, CheckOther, NextNotification
  <2> QED
    BY <1>0, <1>3, <2>1 DEF Behind
<1>4. CASE EndBlock
  <2>1. /\ obPc = "scan" /\ h <= newTop /\ idx > Len(chain[h]) /\ h' = h + 1 /\ idx' = 1
        /\ UNCHANGED <<obPc, top, chain>>
    BY <1>4 DEF EndBlock, chainVars
  <2>2. chain[h] \in Seq(Notifications)
    BY <1>0, <2>1 DEF ObsInv, ObsTypeOK, ChainTypeOK
  <2>3. b = h => i < idx
    BY <1>0, <2>1, <2>2
  <2>4. b <= top \/ b < h + 1
    BY <1>0, <2>1 DEF Behind
  <2> QED
    BY <1>0, <2>1, <2>3, <2>4 DEF Behind
<1>5. CASE EndPass
  <2>1. obPc = "scan" /\ h > newTop /\ top' = newTop /\ obPc' # "scan"
    BY <1>5 DEF EndPass
  <2> QED
    BY <1>0, <2>1 DEF Behind
<1>6. CASE SaveOpen \/ SaveWrite \/ SaveFails
  BY <1>6 DEF SaveOpen, SaveWrite, SaveFails, Behind
<1>7. CASE UNCHANGED obVars
  BY <1>7 DEF obVars, Behind
<1> QED
  BY <1>1, <1>2, <1>3, <1>4, <1>5, <1>6, <1>7 DEF ObsNext, ObListen, ObPass, ObEnv, Idle, obsVars

(* Every step preserves StartHeightMakesUp; after a crash nothing is       *)
(* behind the position until the new process has passed it again.          *)
LEMMA MakesUpStep ==
  ASSUME ToolInv, HeightsKnown, StartHeightMakesUp, [ToolNext]_toolVars
  PROVE  StartHeightMakesUp'
<1> SUFFICES ASSUME StartHeight > 0,
                    NEW b \in DOMAIN chain', NEW i \in DOMAIN chain'[b],
                    b > StartHeight, Behind(b, i)', chain'[b][i].name = "makeBtcTx",
                    NEW t, t = chain'[b][i].tx
             PROVE  Dealt(t)'
  BY DEF StartHeightMakesUp, Dealt
<1>0. ObsInv /\ [ObsNext]_obsVars
  BY ToolStepIsObsStep DEF ToolInv
<1>1. chain' \in Seq(Seq(Notifications)) /\ chain \in Seq(Seq(Notifications))
  BY <1>0, ObsStepInv DEF ObsInv, ObsTypeOK, ChainTypeOK
<1>2. b \in 1 .. Len(chain') /\ DOMAIN chain = 1 .. Len(chain)
  BY <1>1
<1>3. /\ b \in 1 .. Len(chain) /\ chain'[b] = chain[b]
      /\ Behind(b, i) \/ (b = h /\ i = idx /\ (CheckToSign \/ CheckSigned \/ CheckOther))
  BY <1>0, <1>2, BehindStep
<1>4. t = chain[b][i].tx /\ chain[b][i].name = "makeBtcTx" /\ t \in Txs
  <2>1. chain[b] \in Seq(Notifications)
    BY <1>1, <1>3
  <2>2. chain[b][i] \in Notifications
    BY <1>3, <2>1
  <2> QED
    BY <1>3, <2>2, NotificationTx
<1>5. CASE Behind(b, i)
  <2>1. Dealt(t)
    BY <1>2, <1>3, <1>4, <1>5 DEF StartHeightMakesUp
  <2>2. ~Crash
    BY DEF Crash, ObCrash, Behind
  <2> QED
    BY <1>4, <2>1, <2>2, DealtStep
<1>6. CASE b = h /\ i = idx /\ (CheckToSign \/ CheckSigned \/ CheckOther)
  <2>1. CheckToSign
    BY <1>4, <1>6 DEF CheckSigned, CheckOther, AtNotification
  <2> QED
    BY <1>0, <1>4, <1>6, <2>1, SentIsDealt
<1> QED
  BY <1>3, <1>5, <1>6

(* With a start height no crash makes the tool miss an unlock for good:    *)
(* what a process has passed it has dealt with itself, whatever earlier    *)
(* processes lost and wherever they died.  (Without one it may be lost:    *)
(* the run tool_loss.)                                                     *)
THEOREM ToolStartHeightMakesUp == ToolSpec => []StartHeightMakesUp
<1>1. ToolInit => ObsInit /\ StartHeightMakesUp
  BY DEF ToolInit, ObsInit, ChainInit, StartHeightMakesUp
<1>2. ToolInit => HeightsKnown
  BY <1>1, SaveInitInv DEF SaveInv
<1>3. ToolInv /\ HeightsKnown /\ [ToolNext]_toolVars => HeightsKnown'
  BY ToolStepIsObsStep, HeightsStep DEF ToolInv
<1>4. ToolInv /\ HeightsKnown /\ StartHeightMakesUp /\ [ToolNext]_toolVars => StartHeightMakesUp'
  BY MakesUpStep
<1> QED
  BY ToolInitInv, ToolStepInv, <1>1, <1>2, <1>3, <1>4, PTL DEF ToolSpec

-----------------------------------------------------------------------------
(* The refinement of SigningService.  What is in flight was asked for;     *)
(* with ToolInv this is all it takes.                                      *)
AskedInv ==
    /\ \A i \in DOMAIN txchan : OnChain(Make(txchan[i].tx))
    /\ sgPc \in {"post", "record"} => OnChain(Make(cur.tx))

(* Every step preserves it: the observer sends what it reads on the chain, *)
(* and the chain is never undone.                                          *)
LEMMA AskedStep ==
  ASSUME ToolInv, AskedInv, [ToolNext]_toolVars
  PROVE  AskedInv'
<1>0. /\ txchan \in Seq(MsgTxs) /\ ObsInv /\ ObsTypeOK
      /\ \A e : OnChain(e) => OnChain(e)'
  BY ToolStepIsObsStep, OnChainStable DEF ToolInv, ObsInv, ObsTypeOK
<1>1. CASE CheckToSign /\ UNCHANGED sgVars
  <2> DEFINE t == chain[h][idx].tx
  <2>0. AtNotification("makeBtcTx") /\ newTop <= Len(chain)
    BY <1>0, <1>1 DEF CheckToSign, ObsInv
  <2>1. /\ h \in 1 .. Len(chain) /\ idx \in DOMAIN chain[h]
        /\ t \in Txs /\ chain[h][idx] = Make(t)
    BY <1>0, <2>0, AtNotificationType, NotificationTx
  <2>2. OnChain(Make(t))
    BY <1>0, <2>1 DEF OnChain, InFirst, ObsTypeOK, ChainTypeOK
  <2>3. ToSignTx(t) \in MsgTxs /\ ToSignTx(t).tx = t
    BY <2>1 DEF ToSignTx, MsgTxs, Scripts
  <2>4. txchan' = Append(txchan, ToSignTx(t))
    BY <1>1 DEF CheckToSign, Send
  <2> HIDE DEF t
  <2>5. \A i \in DOMAIN txchan' : \/ i \in DOMAIN txchan /\ txchan'[i] = txchan[i]
                                 \/ txchan'[i] = ToSignTx(t)
    BY <1>0, <2>3, <2>4
  <2>6. \A i \in DOMAIN txchan' : OnChain(Make(txchan'[i].tx))
    BY <2>2, <2>3, <2>5 DEF AskedInv
  <2> QED
    BY <1>0, <1>1, <2>6 DEF AskedInv, sgVars
<1>2. CASE UNCHANGED <<sgVars, txchan>>
  BY <1>0, <1>2 DEF sgVars, AskedInv
<1>3. CASE Crash
  BY <1>3 DEF Crash, ObCrash, SgIdle, AskedInv
<1>4. CASE SgStart \/ PostRefused \/ Record
  BY <1>0, <1>4 DEF SgStart, PostRefused, Record, SgIdle, AskedInv
<1>5. CASE Take \/ TakeUnsignable
  <2>1. /\ Head(txchan) = txchan[1] /\ 1 \in DOMAIN txchan /\ Head(txchan) \in MsgTxs
        /\ txchan' = Tail(txchan)
        /\ \A i \in DOMAIN txchan' : i + 1 \in DOMAIN txchan /\ txchan'[i] = txchan[i + 1]
    BY <1>0, <1>5, HeadItem DEF Take, TakeUnsignable, Recv
  <2>2. (\A i \in DOMAIN txchan : OnChain(Make(txchan[i].tx)))'
    <3> SUFFICES ASSUME NEW i \in DOMAIN txchan'
                 PROVE  OnChain(Make(txchan[i].tx))'
      OBVIOUS
    <3>1. i + 1 \in DOMAIN txchan /\ txchan'[i] = txchan[i + 1]
      BY <2>1
    <3>2. OnChain(Make(txchan[i + 1].tx))
      BY <3>1 DEF AskedInv
    <3> QED
      BY <1>0, <3>1, <3>2
  <2>3. CASE Take
    <3>1. cur'.tx = txchan[1].tx
      BY <2>1, <2>3 DEF Take, StripScripts, MsgTxs
    <3> QED
      BY <1>0, <2>1, <2>2, <3>1 DEF AskedInv
  <2>4. CASE TakeUnsignable
    BY <1>0, <2>2, <2>4 DEF TakeUnsignable, sgVars, AskedInv
  <2> QED
    BY <1>5, <2>3, <2>4
<1>6. CASE PostOk \/ PostLost
  BY <1>0, <1>6 DEF PostOk, PostLost, sgVars, AskedInv
<1>7. ToolObserve => (CheckToSign /\ UNCHANGED sgVars) \/ UNCHANGED <<sgVars, txchan>>
  BY DEF ToolObserve, ObStart, Idle, Tick, CheckOther, EndBlock, EndPass, SaveOpen, SaveWrite,
         SaveFails
<1>8. ToolSetTxDone \/ ToolChain \/ UNCHANGED toolVars => UNCHANGED <<sgVars, txchan>>
  BY DEF ToolSetTxDone, CheckSigned, ToolChain, toolVars
<1> QED
  BY <1>1, <1>2, <1>3, <1>4, <1>5, <1>6, <1>7, <1>8 DEF ToolNext, ToolSign, ToolRecord

(* A block adds to what is asked for and to what is complete; complete is  *)
(* only what was asked for before and has this vendor's signatures or can  *)
(* do without.                                                             *)
LEMMA BlockIsPolyMove ==
  ASSUME ToolInv, ToolChain
  PROVE  Service!PolyMoves
<1>0. ObsTypeOK /\ [ObsNext]_obsVars /\ chain \in Seq(Seq(Notifications))
  BY ToolStepIsObsStep DEF ToolInv, ToolNext, ObsInv, ObsTypeOK, ChainTypeOK
<1>1. PICK block \in Blocks : chain' = Append(chain, block)
  BY DEF ToolChain, CommitBlock
<1>2. UNCHANGED <<posted, records>>
  BY DEF ToolChain, CommitBlock
<1>3. UNCHANGED <<Signed, RecordOf>>
  BY <1>2 DEF Signed, SignedByUs, RecordOf
<1>4. Asked \subseteq Asked' /\ Completed \subseteq Completed' /\ Asked' \subseteq Txs
  BY <1>0, OnChainStable DEF Asked, Completed
<1>5. ASSUME NEW t \in Txs, OnChain(Relay(t))', ~OnChain(Relay(t))
      PROVE  t \in Asked /\ t \in Signed \cup OthersQuorum
  <2>1. PICK b \in 1 .. Len(chain') : \E i \in DOMAIN chain'[b] : chain'[b][i] = Relay(t)
    BY <1>5 DEF OnChain, InFirst
  <2>2. PICK n \in 0 .. MaxEvents : block \in [1 .. n -> Announceable]
    BY DEF Blocks
  <2>3. block \in Seq(Notifications)
    BY <2>2 DEF Announceable, Notifications
  <2>4. b \notin 1 .. Len(chain)
    BY <1>0, <1>5, <2>1, ChainGrows DEF OnChain, InFirst
  <2>5. chain'[b] = block
    BY <1>0, <1>1, <2>1, <2>3, <2>4
  <2>6. Relay(t) \in Announceable
    BY <2>1, <2>2, <2>5
  <2>7. /\ OnChain(Make(t))
        /\ t \in OthersQuorum \/ TxHash(ToSignTx(t)) \in posted
    BY <2>6 DEF Announceable, Relay, Make, Noise
  <2> QED
    BY <2>7 DEF Asked, Signed, SignedByUs
<1>6. Completed' \ Completed \subseteq Asked \cap (Signed \cup OthersQuorum)
  BY <1>5 DEF Completed
<1> QED
  BY <1>3, <1>4, <1>6 DEF Service!PolyMoves

(* A post that reaches Poly signs a transaction Poly asked for. *)
LEMMA PostIsSign ==
  ASSUME ToolInv, AskedInv, PostOk \/ PostLost, UNCHANGED records
  PROVE  \E t \in Txs : Service!Sign(t)
<1>1. /\ cur.tx \in Txs /\ txHash = TxHash(ToSignTx(cur.tx)) /\ OnChain(Make(cur.tx))
      /\ posted' = posted \cup {txHash} /\ UNCHANGED chain
  BY DEF ToolInv, ItemInv, AskedInv, PostOk, PostLost, AcceptSigs
<1>2. \A t \in Txs : TxHash(ToSignTx(t)) = txHash <=> t = cur.tx
  BY <1>1 DEF TxHash, ToSignTx
<1>3. Signed' = Signed \cup {cur.tx}
  BY <1>1, <1>2 DEF Signed, SignedByUs
<1>4. UNCHANGED <<Asked, Completed, RecordOf>>
  BY <1>1 DEF Asked, Completed, RecordOf, OnChain, InFirst
<1>5. cur.tx \in Asked
  BY <1>1 DEF Asked
<1> QED
  BY <1>1, <1>3, <1>4, <1>5 DEF Service!Sign

(* One record changes at most. *)
LEMMA OneRecord ==
  ASSUME records \in [Hashes -> {"none", "open", "done"}],
         NEW u \in Txs, NEW st, records' = [records EXCEPT ![<<u, "nil">>] = st]
  PROVE  /\ RecordOf[u] = records[<<u, "nil">>]
         /\ RecordOf' = [RecordOf EXCEPT ![u] = st]
<1>1. RecordOf = [t \in Txs |-> records[<<t, "nil">>]]
  BY StrippedHash DEF RecordOf
<1>2. RecordOf' = [t \in Txs |-> records'[<<t, "nil">>]]
  BY StrippedHash DEF RecordOf
<1>3. \A t \in Txs : records'[<<t, "nil">>] = IF t = u THEN st ELSE records[<<t, "nil">>]
  BY StrippedHash
<1> QED
  BY <1>1, <1>2, <1>3

(* PutSignedTx opens a record that is not there, or leaves the store as it *)
(* was; SetTxDone closes one that is open, or leaves it as it was.         *)
LEMMA StoreIsRecord ==
  ASSUME ToolInv, ToolRecord \/ ToolSetTxDone
  PROVE  \/ UNCHANGED RecordOf
         \/ \E t \in Txs : t \in Signed /\ RecordOf[t] = "none"
                            /\ RecordOf' = [RecordOf EXCEPT ![t] = "open"]
         \/ \E t \in Txs : t \in Completed /\ RecordOf[t] = "open"
                            /\ RecordOf' = [RecordOf EXCEPT ![t] = "done"]
<1>0. records \in [Hashes -> {"none", "open", "done"}] /\ ObsInv /\ ItemInv
  BY DEF ToolInv, TypeOK, StoreTypeOK
<1>1. CASE UNCHANGED records
  BY <1>1 DEF RecordOf
<1>2. CASE ToolRecord /\ records' # records
  <2>1. cur.tx \in Txs /\ SignedByUs(cur.tx) /\ RecordKey = <<cur.tx, "nil">>
    BY <1>0, <1>2, DeliveredKey DEF ToolRecord
  <2>2. <<cur.tx, "nil">> \in Hashes
    BY <2>1, StrippedHash
  <2>3. /\ records[<<cur.tx, "nil">>] = "none"
        /\ records' = [records EXCEPT ![<<cur.tx, "nil">>] = "open"]
    BY <1>0, <1>2, <2>1, <2>2 DEF ToolRecord, PutSignedTx
  <2> QED
    BY <1>0, <2>1, <2>3, OneRecord DEF Signed
<1>3. CASE ToolSetTxDone /\ records' # records
  <2>1. PICK u \in Txs : OnChain(Relay(u)) /\ SignedKey = <<u, "nil">>
    BY <1>0, <1>3, AnnouncedKey DEF ToolSetTxDone
  <2>2. <<u, "nil">> \in Hashes
    BY StrippedHash
  <2>3. /\ records[<<u, "nil">>] = "open"
        /\ records' = [records EXCEPT ![<<u, "nil">>] = "done"]
    BY <1>0, <1>3, <2>1, <2>2 DEF ToolSetTxDone, SetTxDone
  <2> QED
    BY <1>0, <2>1, <2>3, OneRecord DEF Completed
<1> QED
  BY <1>1, <1>2, <1>3

(* Every step of the tool is a step of the service or not seen from        *)
(* outside: scanning, handing over, saving the height, crashes, restarts.  *)
LEMMA ToolStepIsServiceStep ==
  ASSUME ToolInv, AskedInv, [ToolNext]_toolVars
  PROVE  [Service!ServiceNext]_<<Asked, Completed, Signed, RecordOf>>
<1>1. CASE ToolChain
  BY <1>1, BlockIsPolyMove DEF Service!ServiceNext
<1>2. CASE (PostOk \/ PostLost) /\ UNCHANGED records
  BY <1>2, PostIsSign DEF Service!ServiceNext
<1>3. CASE ToolRecord \/ ToolSetTxDone
  <2>1. UNCHANGED <<chain, posted>>
    BY <1>3 DEF ToolRecord, Record, ToolSetTxDone, CheckSigned, NextNotification, chainVars
  <2>2. UNCHANGED <<Asked, Completed, Signed>>
    BY <2>1 DEF Asked, Completed, Signed, SignedByUs, OnChain, InFirst
  <2> QED
    BY <1>3, <2>2, StoreIsRecord
       DEF Service!ServiceNext, Service!OpenRecord, Service!CloseRecord
<1>4. CASE UNCHANGED <<chain, posted, records>>
  BY <1>4 DEF Asked, Completed, Signed, SignedByUs, RecordOf, OnChain, InFirst
<1>5. \/ ToolChain \/ ((PostOk \/ PostLost) /\ UNCHANGED records) \/ ToolRecord \/ ToolSetTxDone
      \/ UNCHANGED <<chain, posted, records>>
  BY DEF ToolNext, ToolObserve, ObStart, Idle, Tick, CheckToSign, CheckOther, NextNotification,
         EndBlock, EndPass, SaveOpen, SaveWrite, SaveFails, ToolSign, SgStart, Take, TakeUnsignable,
         PostRefused, Crash, ObCrash, toolVars, chainVars
<1> QED
  BY <1>1, <1>2, <1>3, <1>4, <1>5

(* Seen from outside, the tool with its goroutines, channel, files,        *)
(* crashes and repeated scans is the signing service.                      *)
THEOREM ToolImplementsService == ToolSpec => ImplementsService
<1>1. ToolInit => AskedInv
  BY DEF ToolInit, ObsInit, ChanInit, SgInit, AskedInv
<1>2. ToolInit => Service!ServiceInit
  <2> SUFFICES ASSUME ToolInit PROVE Service!ServiceInit
    OBVIOUS
  <2>1. chain = <<>> /\ posted = {} /\ records = [k \in Hashes |-> "none"]
    BY DEF ToolInit, ObsInit, ChainInit, StoreInit
  <2>2. Asked = {} /\ Completed = {} /\ Signed = {}
    BY <2>1 DEF Asked, Completed, Signed, SignedByUs, OnChain, InFirst
  <2>3. RecordOf = [t \in Txs |-> "none"]
    BY <2>1, StrippedHash DEF RecordOf
  <2> QED
    BY <2>2, <2>3 DEF Service!ServiceInit
<1>3. ToolInv /\ AskedInv /\ [ToolNext]_toolVars => AskedInv'
  BY AskedStep
<1>4. ToolInv /\ AskedInv /\ [ToolNext]_toolVars =>
        [Service!ServiceNext]_<<Asked, Completed, Signed, RecordOf>>
  BY ToolStepIsServiceStep
<1>5. ToolSpec => [](ToolInv /\ AskedInv)
  BY ToolInitInv, ToolStepInv, <1>1, <1>3, PTL DEF ToolSpec
<1> QED
  BY <1>2, <1>4, <1>5, PTL DEF ToolSpec, ImplementsService, Service!ServiceSpec, Service!serviceVars
=============================================================================
