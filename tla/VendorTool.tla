----------------------------- MODULE VendorTool -----------------------------
(***************************************************************************)
(* cmd/run.go, mode "all" : one process with the observer's and the        *)
(* signer's goroutine, the channel between them and the record store they  *)
(* share, against the Poly chain.  The process may die anywhere (a signal, *)
(* a panic, os.Exit when startSigner fails) and is started again; the file *)
(* last_height and the record store survive.                               *)
(***************************************************************************)
EXTENDS Observer, Signer

CONSTANTS
    DbFails,        \* whether a database call may fail
    MaxCrashes      \* bound: crashes of the process

ASSUME ToolAssumption ==
    /\ DbFails \in BOOLEAN
    /\ MaxCrashes \in Nat

VARIABLES
    records,
    crashes,
    lost,           \* history: unlocks that were in memory only at a crash
    missed          \* history: keys SetTxDone was called for and not done then

INSTANCE TxStore WITH Keys <- Hashes

toolVars == <<chainVars, txchan, obVars, sgVars, records, crashes, lost, missed>>

(* The transactions handed over and not yet with Poly. *)
InFlight ==
    {item.tx : item \in InChan} \cup (IF sgPc \in {"post", "record"} THEN {cur.tx} ELSE {})

SignedByUs(t) == TxHash(ToSignTx(t)) \in posted

ToolInit ==
    /\ ObsInit
    /\ SgInit
    /\ StoreInit
    /\ crashes = 0
    /\ lost = {}
    /\ missed = {}

-----------------------------------------------------------------------------
(* The observer's steps; checkEvents calls SetTxDone on an announced       *)
(* transaction.                                                            *)
ToolSetTxDone ==
    /\ CheckSigned
    /\ SetTxDone(SignedKey)
    /\ missed' = IF records'[SignedKey] = "done" THEN missed ELSE missed \cup {SignedKey}
    /\ UNCHANGED <<sgVars, crashes, lost>>

ToolObserve ==
    /\ \/ ObStart \/ Idle
       \/ \E n \in ReportedHeights : Tick(n)
       \/ CheckToSign \/ CheckOther \/ EndBlock \/ EndPass
       \/ SaveOpen \/ SaveWrite \/ SaveFails
    /\ UNCHANGED <<sgVars, records, crashes, lost, missed>>

(* The signer's steps; it is started after the observer. *)
ToolSign ==
    /\ \/ SgStart /\ obPc # "down"
       \/ Take \/ TakeUnsignable
       \/ PostOk \/ PostLost \/ PostRefused
    /\ UNCHANGED <<obVars, records, crashes, lost, missed>>

ToolRecord ==
    /\ Record
    /\ PutSignedTx(RecordKey)
    /\ UNCHANGED <<obVars, crashes, lost, missed>>

(* The process dies.  What it held in memory only is lost with it. *)
Crash ==
    /\ crashes < MaxCrashes
    /\ crashes' = crashes + 1
    /\ ObCrash
    /\ SgIdle("off")
    /\ lost' = lost \cup {t \in InFlight : ~SignedByUs(t)}
    /\ UNCHANGED <<records, missed>>

ToolChain ==
    /\ CommitBlock
    /\ UNCHANGED <<txchan, obVars, sgVars, records, crashes, lost, missed>>

ToolNext ==
    \/ ToolObserve \/ ToolSetTxDone
    \/ ToolSign \/ ToolRecord
    \/ Crash
    \/ ToolChain

ToolSpec == ToolInit /\ [][ToolNext]_toolVars

-----------------------------------------------------------------------------
(* Fairness.  A goroutine that can run runs; the tool is started again     *)
(* after a crash; the node eventually reports the tip of the chain; a post *)
(* that is retried forever is eventually answered.                         *)
ObFair ==
    /\ WF_toolVars(ToolObserve /\ obPc # "tick")
    /\ WF_toolVars(ToolSetTxDone)
    /\ SF_toolVars(ToolObserve /\ Tick(Len(chain)))

SgFair ==
    /\ WF_toolVars(ToolSign /\ sgPc # "post")
    /\ WF_toolVars(ToolSign /\ sgPc = "post" /\ sgPc' # "post")
    /\ WF_toolVars(ToolRecord)

FairSpec == ToolSpec /\ ObFair /\ SgFair

-----------------------------------------------------------------------------
(* The variables keep their types. *)
TypeOK ==
    /\ ObsTypeOK
    /\ SgTypeOK
    /\ StoreTypeOK
    /\ crashes \in 0 .. MaxCrashes
    /\ lost \subseteq Txs
    /\ missed \subseteq Hashes

(* The blocks and the part of a block the observer has handled. *)
Handled(b, i) == b \in scanned \/ (obPc = "scan" /\ b = h /\ i < idx)

Dealt(t) ==
    \/ t \in InFlight
    \/ SignedByUs(t)
    \/ OnChain(Relay(t))
    \/ t \in Unsignable \cup Refusable

Accounted(t) == Dealt(t) \/ t \in lost

(* An unlock transaction the observer has passed is never forgotten while  *)
(* the process lives: it is in the channel or with the signer, or Poly has *)
(* this vendor's signatures, or it has its quorum, or the tool cannot get  *)
(* it signed; only a crash can take it away.                               *)
NothingForgotten ==
    \A b \in DOMAIN chain : \A i \in DOMAIN chain[b] :
        Handled(b, i) /\ chain[b][i].name = "makeBtcTx" => Accounted(chain[b][i].tx)

(* Block b, up to notification i, lies behind the observer's position. *)
Behind(b, i) ==
    /\ obPc # "down"
    /\ b <= top \/ (obPc = "scan" /\ (b < h \/ (b = h /\ i < idx)))

(* With a start height a crash takes nothing away for good: behind the     *)
(* position, as far as a process has got at any time, every unlock above   *)
(* the start height is dealt with, those an earlier process lost included. *)
StartHeightMakesUp ==
    StartHeight > 0 =>
        \A b \in DOMAIN chain : \A i \in DOMAIN chain[b] :
            b > StartHeight /\ Behind(b, i) /\ chain[b][i].name = "makeBtcTx" =>
                Dealt(chain[b][i].tx)

(* The record store tells the truth: a record exists only for a            *)
(* transaction whose signatures were delivered to Poly, and is done only   *)
(* if Poly announced the transaction as signed.  The signer's key, the     *)
(* observer's key and the posted hash are three hashes of one transaction. *)
RecordsTruthful ==
    \A t \in Txs :
        LET rec == records[TxHash(StripScripts(ToSignTx(t)))] IN
          /\ rec # "none" => SignedByUs(t)
          /\ rec = "done" => OnChain(Relay(t))

(* What makes NothingForgotten and RecordsTruthful inductive: only blocks  *)
(* of the chain were scanned, and the item the signer works on is one the  *)
(* observer sent, its hash taken before its scripts were cleared.          *)
ScanInv ==
    /\ \A b \in scanned : b \in 1 .. Len(chain)
    /\ obPc = "scan" /\ h > newTop => idx = 1

ItemInv ==
    /\ \A i \in DOMAIN txchan : txchan[i].scripts = "pk"
    /\ sgPc \in {"post", "record"} =>
         /\ cur.tx \in Txs
         /\ cur = StripScripts(ToSignTx(cur.tx))
         /\ txHash = TxHash(ToSignTx(cur.tx))
    /\ sgPc = "record" => txHash \in posted

ToolInv ==
    /\ ObsInv
    /\ TypeOK
    /\ ScanInv
    /\ ItemInv
    /\ NothingForgotten
    /\ RecordsTruthful

(* A record is left open behind the observer only if the announcement was  *)
(* scanned before the signer recorded the transaction (SetTxDone found     *)
(* nothing and is not called again), or the database failed then.          *)
OpenOnlyIfMissed ==
    \A b \in DOMAIN chain : \A i \in DOMAIN chain[b] :
        Handled(b, i) /\ chain[b][i].name = "btcTxToRelay" =>
            LET k == TxHash(StripScripts(SignedTx(chain[b][i].tx))) IN
              records[k] = "open" => k \in missed

(* Every unlock transaction created above the start height is eventually   *)
(* signed by this vendor, or completed by the others, unless it cannot be  *)
(* signed ("scans Poly chain and sign every unlock transaction created by  *)
(* Poly", README.md).                                                      *)
UnlockCreated(t) == \E b \in DOMAIN chain : /\ b > StartHeight
                                            /\ \E i \in DOMAIN chain[b] : chain[b][i] = Make(t)

EveryUnlockSigned ==
    \A t \in Txs \ (Unsignable \cup Refusable) :
        UnlockCreated(t) ~> (SignedByUs(t) \/ OnChain(Relay(t)))

(* A transaction that this vendor signed, that Poly announced and that was *)
(* recorded before the announcement was scanned ends up done: it does not  *)
(* stay open for ever on a database that works.                            *)
RecordEventuallyDone ==
    \A t \in Txs :
        LET k == TxHash(StripScripts(ToSignTx(t))) IN
          ~DbFails => (records[k] = "open" /\ OnChain(Relay(t)) ~> (records[k] = "done" \/ k \in missed))

(* The tool as it is seen from outside. *)
Asked     == {t \in Txs : OnChain(Make(t))}
Completed == {t \in Txs : OnChain(Relay(t))}
Signed    == {t \in Txs : SignedByUs(t)}
RecordOf  == [t \in Txs |-> records[TxHash(StripScripts(ToSignTx(t)))]]

Service == INSTANCE SigningService WITH
    asked <- Asked, completed <- Completed, signed <- Signed, record <- RecordOf

(* The tool implements the service: it posts signatures only for what Poly *)
(* asked for, records only what it has delivered, closes a record only on  *)
(* an announcement, and neither restarts, nor repeated scans, posts and    *)
(* calls of PutSignedTx, nor failures ever reopen or drop one.             *)
ImplementsService == Service!ServiceSpec
=============================================================================
