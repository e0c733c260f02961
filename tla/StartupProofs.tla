--------------------------- MODULE StartupProofs ---------------------------
(***************************************************************************)
(* Proofs about Startup and WebConsole, for any forms, configurations and  *)
(* command lines, any number of requests at a time and in all, of starts   *)
(* and of crashes.                                                         *)
(***************************************************************************)
EXTENDS Startup, TLAPS

USE StartupAssumption

(* What Save has marshalled is a configuration. *)
SnapOK == runPc \in {"save1", "save2"} => DOMAIN snap = Fields

(* The net in use is the configured one, also when requests overlap: the   *)
(* model's handlers assign both in one step.                               *)
NetOK == runPc # "down" /\ BtcNetParam # None => BtcNetParam = NetParam(conf.net)

DownOK == runPc = "down" => BtcNetParam = None

StartInv == StartupTypeOK /\ SnapOK /\ NetOK /\ DownOK

(* The parameters are those of one of the three nets. *)
LEMMA NetParams == \A net : NetParam(net) \in {"regtest", "test", "main"}
BY DEF NetParam

(* What a step of the console must do for the invariant to hold after it.  *)
LEMMA ConsoleKeeps ==
  ASSUME StartInv, Serving, WebUnchanged,
         DOMAIN conf' = Fields,
         \/ BtcNetParam' = NetParam(conf'.net)
         \/ BtcNetParam' = BtcNetParam /\ conf'.net = conf.net,
         served' \in 0 .. MaxRequests,
         {done', chainId', overlap'} \subseteq BOOLEAN
  PROVE  StartInv'
<1>1. runPc # "down" /\ runPc' = runPc
  BY DEF Serving, WebUnchanged
<1>2. parted' \in BOOLEAN
  BY DEF WebUnchanged, StartInv, StartupTypeOK
<1>3. BtcNetParam' \in {None, "regtest", "test", "main"}
  BY NetParams DEF StartInv, StartupTypeOK
<1>4. UNCHANGED <<flags, file, snap, starts>>
  BY DEF WebUnchanged
<1>5. {done', chainId', overlap', parted'} \subseteq BOOLEAN
  BY <1>2
<1>6. StartupTypeOK'
  BY <1>1, <1>3, <1>4, <1>5 DEF StartInv, StartupTypeOK
<1>7. NetOK'
  BY <1>1 DEF StartInv, NetOK, NetParam
<1> QED
  BY <1>1, <1>4, <1>6, <1>7 DEF StartInv, SnapOK, DownOK

(* A request that arrives is counted. *)
LEMMA ArriveKeeps ==
  ASSUME StartInv, NEW r, NEW pc, NEW form, Arrive(r, pc, form)
  PROVE  served' \in 0 .. MaxRequests /\ overlap' \in BOOLEAN
BY DEF Arrive, StartInv, StartupTypeOK

(* Every request that arrives keeps the invariant. *)
LEMMA ArriveStep ==
  ASSUME StartInv, WebArrive
  PROVE  StartInv'
<1>0. /\ Serving /\ WebUnchanged /\ NewRequest
      /\ DOMAIN conf = Fields
      /\ done \in BOOLEAN /\ chainId \in BOOLEAN /\ overlap \in BOOLEAN
      /\ served \in Nat /\ "net" \in Fields
  BY DEF WebArrive, Serving, StartInv, StartupTypeOK, Fields
<1>1. ASSUME NEW r, HandleInit(r)
      PROVE  StartInv'
  <2>1. PICK form \in InitForms :
          /\ conf' = [f \in Fields |->
                        IF f \in Reached(form) /\ Filled(form, f) THEN form[f] ELSE conf[f]]
          /\ \E pc : Arrive(r, pc, form)
          /\ BtcNetParam' = IF "net" \in Reached(form) THEN NetParam(conf'.net) ELSE BtcNetParam
          /\ UNCHANGED <<chainId, done>>
    BY <1>1 DEF HandleInit
  <2>2. served' \in 0 .. MaxRequests /\ overlap' \in BOOLEAN
    BY <2>1, ArriveKeeps
  <2>3. DOMAIN conf' = Fields /\ ("net" \notin Reached(form) => conf'.net = conf.net)
    BY <1>0, <2>1
  <2> QED
    BY <1>0, <2>1, <2>2, <2>3, ConsoleKeeps
<1>2. ASSUME NEW r, HandleStatus(r)
      PROVE  StartInv'
  <2>1. PICK form \in StatusForms :
          /\ conf' = IF Filled(form, "rpc") THEN [conf EXCEPT !.rpc = form.rpc] ELSE conf
          /\ \E pc : Arrive(r, pc, form)
          /\ UNCHANGED <<BtcNetParam, chainId, done>>
    BY <1>2 DEF HandleStatus
  <2>2. served' \in 0 .. MaxRequests /\ overlap' \in BOOLEAN
    BY <2>1, ArriveKeeps
  <2>3. DOMAIN conf' = Fields /\ conf'.net = conf.net
    BY <1>0, <2>1
  <2> QED
    BY <1>0, <2>1, <2>2, <2>3, ConsoleKeeps
<1>3. ASSUME NEW r, HandleFuncSet(r)
      PROVE  StartInv'
  <2>1. PICK form \in FuncForms :
          /\ conf' = [f \in Fields |->
                        IF f \in {"wallet", "pwd"} /\ Filled(form, f) THEN form[f] ELSE conf[f]]
          /\ \E pc : Arrive(r, pc, form)
          /\ UNCHANGED <<BtcNetParam, chainId, done>>
    BY <1>3 DEF HandleFuncSet
  <2>2. served' \in 0 .. MaxRequests /\ overlap' \in BOOLEAN
    BY <2>1, ArriveKeeps
  <2>3. DOMAIN conf' = Fields /\ conf'.net = conf.net
    BY <1>0, <2>1
  <2> QED
    BY <1>0, <2>1, <2>2, <2>3, ConsoleKeeps
<1>4. CASE HandleGenePrivk
  <2>1. PICK form \in KeyForms : conf' = [conf EXCEPT !.bpwd = form.pwd, !.bwallet = form.path]
    BY <1>4 DEF HandleGenePrivk
  <2>2. DOMAIN conf' = Fields /\ conf'.net = conf.net
    BY <1>0, <2>1
  <2>3. served' \in 0 .. MaxRequests /\ UNCHANGED <<BtcNetParam, chainId, done, overlap>>
    BY <1>0, <1>4 DEF HandleGenePrivk
  <2> QED
    BY <1>0, <2>2, <2>3, ConsoleKeeps
<1>5. CASE HandleGeneRedeem
  <2>1. PICK redeem \in GoodRedeems : conf' = [conf EXCEPT !.redeem = redeem]
    BY <1>5 DEF HandleGeneRedeem
  <2>2. DOMAIN conf' = Fields /\ conf'.net = conf.net
    BY <1>0, <2>1
  <2>3. served' \in 0 .. MaxRequests /\ UNCHANGED <<BtcNetParam, chainId, done, overlap>>
    BY <1>0, <1>5 DEF HandleGeneRedeem
  <2> QED
    BY <1>0, <2>2, <2>3, ConsoleKeeps
<1> QED
  BY <1>0, <1>1, <1>2, <1>3, <1>4, <1>5 DEF NewRequest

(* Every later stretch of a handler keeps the invariant. *)
LEMMA HandlerStep ==
  ASSUME StartInv, NEW r \in Requests, WebHandle(r)
  PROVE  StartInv'
<1>0. /\ Serving /\ WebUnchanged /\ Handler(r)
      /\ DOMAIN conf = Fields
      /\ done \in BOOLEAN /\ chainId \in BOOLEAN /\ overlap \in BOOLEAN
      /\ served \in 0 .. MaxRequests /\ "net" \in Fields
  BY DEF WebHandle, Serving, StartInv, StartupTypeOK, Fields
<1>1. CASE StatusHeader(r) \/ GetORCPwd(r) \/ FuncSend(r) \/ CloseDone(r)
  <2>1. UNCHANGED <<conf, BtcNetParam, served, overlap>> /\ done' \in BOOLEAN /\ chainId' \in BOOLEAN
    BY <1>0, <1>1 DEF StatusHeader, GetORCPwd, FuncSend, CloseDone
  <2> QED
    BY <1>0, <2>1, ConsoleKeeps
<1>2. CASE StatusFields(r)
  <2> DEFINE form == req[r].form
  <2>1. /\ conf' = [f \in Fields |-> IF f \in Changes(form) THEN form[f] ELSE conf[f]]
        /\ BtcNetParam' = IF Filled(form, "net") THEN NetParam(form.net) ELSE BtcNetParam
        /\ UNCHANGED <<chainId, served, done, overlap>>
    BY <1>2 DEF StatusFields
  <2>2. "net" \in Changes(form) <=> Filled(form, "net")
    BY <1>0 DEF Changes
  <2>3. /\ DOMAIN conf' = Fields
        /\ conf'.net = IF Filled(form, "net") THEN form.net ELSE conf.net
    BY <1>0, <2>1, <2>2
  <2> HIDE DEF form
  <2> QED
    BY <1>0, <2>1, <2>3, ConsoleKeeps
<1> QED
  BY <1>0, <1>1, <1>2 DEF Handler

(* A step of run that leaves the console alone and writes at most what     *)
(* Save has marshalled.                                                    *)
LEMMA RunKeeps ==
  ASSUME StartInv, UNCHANGED <<conVars, flags, starts>>,
         runPc # "down",
         runPc' \in {"wait", "net", "save2", "polypwd", "btcpwd", "wrongMode",
                     "observer", "signer", "newSigner", "running"},
         parted' \in BOOLEAN,
         file' \in {file, Blank} \/ (file' = snap /\ runPc \in {"save1", "save2"}),
         runPc' = "save2" => DOMAIN snap' = Fields
  PROVE  StartInv'
<1>1. file' = Blank \/ DOMAIN file' = Fields
  BY DEF StartInv, StartupTypeOK, SnapOK
<1>2. UNCHANGED <<conf, BtcNetParam, served, done, chainId, overlap>>
  BY DEF conVars
<1>3. {done', chainId', overlap', parted'} \subseteq BOOLEAN
  BY <1>2 DEF StartInv, StartupTypeOK
<1>4. StartupTypeOK'
  BY <1>1, <1>2, <1>3 DEF StartInv, StartupTypeOK
<1>5. NetOK' /\ DownOK' /\ SnapOK'
  BY <1>2 DEF StartInv, NetOK, DownOK, SnapOK, NetParam
<1> QED
  BY <1>4, <1>5 DEF StartInv

(* Every step of run, and a crash, keeps the invariant. *)
LEMMA RunStepInv ==
  ASSUME StartInv, Start \/ RunStep \/ Crash
  PROVE  StartInv'
<1>0. parted \in BOOLEAN /\ starts \in Nat
  BY DEF StartInv, StartupTypeOK
<1>1. CASE Start
  <2>1. /\ file # Blank /\ conf' = file /\ BtcNetParam' = None /\ chainId' = FALSE
        /\ served' = 0 /\ done' = FALSE /\ overlap' = FALSE
        /\ runPc' = "save1" /\ snap' = file /\ file' \in {file, Blank} /\ parted' = parted
        /\ starts' = starts + 1 /\ starts < MaxStarts /\ flags' \in Flags
    BY <1>1 DEF Start, ConsoleReset
  <2>2. DOMAIN file = Fields
    BY <2>1 DEF StartInv, StartupTypeOK
  <2>3. {done', chainId', overlap', parted'} \subseteq BOOLEAN
    BY <1>0, <2>1
  <2>4. starts' \in 0 .. MaxStarts /\ served' \in 0 .. MaxRequests
    BY <1>0, <2>1
  <2>5. StartupTypeOK'
    BY <2>1, <2>2, <2>3, <2>4 DEF StartupTypeOK
  <2> QED
    BY <2>1, <2>2, <2>5 DEF StartInv, SnapOK, NetOK, DownOK
<1>2. CASE Exit \/ Crash
  <2>1. /\ runPc' = "down" /\ UNCHANGED <<file, starts>> /\ started' = NotStarted /\ parted' = FALSE
        /\ conf' = None /\ BtcNetParam' = None /\ chainId' = FALSE
        /\ served' = 0 /\ done' = FALSE /\ overlap' = FALSE
        /\ \A r \in Requests : req'[r] = Idle
    BY <1>2 DEF Exit, Crash, Down, ConsoleReset
  <2>2. {done', chainId', overlap', parted'} \subseteq BOOLEAN
    BY <2>1
  <2>3. NotStarted' = NotStarted /\ Idle' = Idle
    BY DEF NotStarted, Idle
  <2>4. StartupTypeOK'
    BY <2>1, <2>2, <2>3 DEF StartInv, StartupTypeOK
  <2> QED
    BY <2>1, <2>4 DEF StartInv, SnapOK, NetOK, DownOK
<1>3. CASE OpenDb
  BY <1>0, <1>3, RunKeeps DEF OpenDb
<1>4. CASE SetUp
  <2>1. /\ runPc = "net" /\ runPc' = "polypwd"
        /\ BtcNetParam' = NetParam(conf.net) /\ chainId' = TRUE
        /\ UNCHANGED <<flags, file, starts, parted, conf, served, done, overlap>>
    BY <1>4 DEF SetUp
  <2>2. {done', chainId', overlap', parted'} \subseteq BOOLEAN
    BY <2>1 DEF StartInv, StartupTypeOK
  <2>3. StartupTypeOK'
    BY <2>1, <2>2, NetParams DEF StartInv, StartupTypeOK
  <2> QED
    BY <2>1, <2>3 DEF StartInv, SnapOK, NetOK, DownOK, NetParam
<1>5. CASE HandOver
  <2>1. DOMAIN conf = Fields
    BY <1>5 DEF HandOver, StartInv, StartupTypeOK
  <2> QED
    BY <1>0, <1>5, <2>1, RunKeeps DEF HandOver
<1>6. CASE SaveWrite
  BY <1>0, <1>6, RunKeeps DEF SaveWrite
<1>7. CASE PolyPwd \/ StartObserver \/ StartSigner \/ NewSigner
  BY <1>0, <1>7, RunKeeps DEF PolyPwd, StartObserver, StartSigner, NewSigner
<1>8. CASE BtcPwd
  <2>1. runPc' \in {"observer", "signer", "wrongMode"}
    BY <1>8 DEF BtcPwd
  <2> QED
    BY <1>0, <1>8, <2>1, RunKeeps DEF BtcPwd
<1> QED
  BY <1>1, <1>2, <1>3, <1>4, <1>5, <1>6, <1>7, <1>8 DEF RunStep

(* The invariant holds from the first start on. *)
THEOREM StartInvariant == StartupSpec => []StartInv
<1>1. StartupInit => StartInv
  <2> SUFFICES ASSUME StartupInit PROVE StartInv
    OBVIOUS
  <2>1. {done, chainId, overlap, parted} \subseteq BOOLEAN
    BY DEF StartupInit
  <2>2. DOMAIN file = Fields
    BY DEF StartupInit
  <2> QED
    BY <2>1, <2>2 DEF StartupInit, StartInv, StartupTypeOK, SnapOK, NetOK, DownOK
<1>2. StartInv /\ [StartupNext]_startVars => StartInv'
  <2> SUFFICES ASSUME StartInv, [StartupNext]_startVars PROVE StartInv'
    OBVIOUS
  <2>1. CASE UNCHANGED startVars
    BY <2>1 DEF startVars, conVars, runVars, StartInv, StartupTypeOK, SnapOK, NetOK, DownOK, NetParam,
                NotStarted, Idle
  <2> QED
    BY <2>1, RunStepInv, ArriveStep, HandlerStep DEF StartupNext
<1> QED
  BY <1>1, <1>2, PTL DEF StartupSpec

(* run and the console keep their types over any number of starts, and a   *)
(* process that ended leaves nothing but the file.                         *)
THEOREM StartTypeCorrect == StartupSpec => []StartupTypeOK
BY StartInvariant, PTL DEF StartInv

(* The Bitcoin net in use is the configured one, in whatever order the     *)
(* pages are used, however often the tool is started.                      *)
THEOREM NetIsConfigured == StartupSpec => []NetMatchesConf
<1>1. StartInv => NetMatchesConf
  BY DEF StartInv, NetOK, DownOK, NetMatchesConf
<1> QED
  BY <1>1, StartInvariant, PTL

-----------------------------------------------------------------------------
Starting == {"signer", "newSigner", "running"}

Late == {"polypwd", "btcpwd", "wrongMode", "observer"} \cup Starting

(* The command line's part in the way run takes. *)
WayOK ==
    /\ DOMAIN started = {"redeem", "wait", "db", "wallet", "bwallet"}
    /\ runPc \in {"wait", "save2"} => flags.web
    /\ runPc = "net" => ~flags.web
    /\ runPc = "observer" => flags.mode \in {"all", "onlyob"}
    /\ runPc \in {"signer", "newSigner"} => flags.mode \in {"all", "onlysig"}

(* What run has read of the configuration so far is what the file says or  *)
(* will say when Save has written it.                                      *)
ReadOK ==
    /\ runPc = "save1" => snap = conf /\ (SamePath \/ file = conf)
    /\ runPc = "save2" => snap = conf
    /\ runPc \in Late \cup {"net"} => file = conf /\ (~flags.web => vdbPath = conf.db)
    /\ runPc \in Starting \cup {"observer"} => rb = conf.redeem
    /\ runPc \in Starting /\ flags.mode # "onlysig" =>
         started.redeem = conf.redeem /\ started.wait = conf.wait /\ started.db = conf.db
    /\ runPc \in {"newSigner", "running"} /\ flags.mode # "onlyob" =>
         /\ started.redeem = conf.redeem
         /\ started.wallet = conf.wallet /\ started.bwallet = conf.bwallet

SavedInv == WayOK /\ (~parted => ReadOK)

(* A request keeps it, unless it parts configuration and file. *)
LEMMA ConsoleSaved ==
  ASSUME SavedInv, Serving, WebUnchanged
  PROVE  SavedInv'
<1>1. WayOK'
  BY DEF SavedInv, WayOK, WebUnchanged
<1>2. ASSUME ~parted'
      PROVE  ReadOK'
  <2>1. ~parted /\ (runPc = "wait" \/ conf' = conf) /\ runPc \notin {"save1"}
    BY <1>2 DEF WebUnchanged, Serving
  <2>2. CASE runPc = "wait"
    BY <2>2 DEF WebUnchanged, ReadOK, Late, Starting
  <2>3. CASE conf' = conf
    BY <2>1, <2>3 DEF SavedInv, WebUnchanged, ReadOK, Late, Starting
  <2> QED
    BY <2>1, <2>2, <2>3
<1> QED
  BY <1>1, <1>2 DEF SavedInv

(* A step of run, a start and a crash keep it. *)
LEMMA RunSaved ==
  ASSUME SavedInv, Start \/ RunStep \/ Crash
  PROVE  SavedInv'
<1> USE DEF SavedInv, Late, Starting
<1>1. CASE Start
  <2>1. WayOK'
    BY <1>1 DEF Start, WayOK
  <2>2. ReadOK'
    BY <1>1 DEF Start, ConsoleReset, ReadOK
  <2> QED
    BY <2>1, <2>2
<1>2. CASE Exit \/ Crash
  <2>1. runPc' = "down" /\ started' = NotStarted
    BY <1>2 DEF Exit, Crash, Down
  <2> QED
    BY <2>1 DEF WayOK, ReadOK, NotStarted
<1>3. CASE OpenDb
  <2>1. WayOK'
    BY <1>3 DEF OpenDb, WayOK
  <2>2. ASSUME ~parted' PROVE ReadOK'
    <3>1. conf' = conf /\ runPc = "save1" /\ runPc' \in {"wait", "net"} /\ vdbPath' = conf.db
      BY <1>3 DEF OpenDb, conVars
    <3>2. ~parted /\ file' = IF SamePath THEN snap ELSE file
      BY <1>3, <2>2 DEF OpenDb
    <3> QED
      BY <3>1, <3>2 DEF ReadOK
  <2> QED
    BY <2>1, <2>2
<1>4. CASE SetUp
  BY <1>4 DEF SetUp, WayOK, ReadOK
<1>5. CASE HandOver
  <2>1. WayOK'
    BY <1>5 DEF HandOver, WayOK
  <2>2. ASSUME ~parted' PROVE ReadOK'
    BY <1>5, <2>2 DEF HandOver, ReadOK, conVars
  <2> QED
    BY <2>1, <2>2
<1>6. CASE SaveWrite
  <2>1. WayOK'
    BY <1>6 DEF SaveWrite, WayOK
  <2>2. ASSUME ~parted' PROVE ReadOK'
    BY <1>6, <2>2 DEF SaveWrite, WayOK, ReadOK, conVars
  <2> QED
    BY <2>1, <2>2
<1>7. CASE PolyPwd
  BY <1>7 DEF PolyPwd, WayOK, ReadOK, conVars
<1>8. CASE BtcPwd
  <2>1. /\ UNCHANGED <<flags, file, vdbPath, started, parted, conf>>
        /\ runPc = "btcpwd" /\ rb' = conf.redeem
        /\ \/ runPc' = "observer" /\ flags.mode \in {"all", "onlyob"}
           \/ runPc' = "signer" /\ flags.mode = "onlysig"
           \/ runPc' = "wrongMode"
    BY <1>8 DEF BtcPwd, conVars
  <2> QED
    BY <2>1 DEF WayOK, ReadOK
<1>9. CASE StartObserver
  <2>1. /\ UNCHANGED <<flags, file, vdbPath, rb, parted, conf>>
        /\ runPc = "observer"
        /\ started' = [started EXCEPT !.redeem = rb, !.wait = conf.wait, !.db = conf.db]
        /\ runPc' = IF flags.mode = "onlyob" THEN "running" ELSE "signer"
    BY <1>9 DEF StartObserver, conVars
  <2>2. /\ DOMAIN started' = DOMAIN started
        /\ started'.redeem = rb /\ started'.wait = conf.wait /\ started'.db = conf.db
    BY <2>1 DEF WayOK
  <2> QED
    BY <2>1, <2>2 DEF WayOK, ReadOK
<1>10. CASE StartSigner
  <2>1. /\ UNCHANGED <<flags, file, vdbPath, rb, parted, conf>>
        /\ runPc = "signer" /\ runPc' = "newSigner"
        /\ started' = [started EXCEPT !.redeem = rb, !.wallet = conf.wallet, !.bwallet = conf.bwallet]
    BY <1>10 DEF StartSigner, conVars
  <2>2. /\ DOMAIN started' = DOMAIN started
        /\ started'.redeem = rb /\ started'.wallet = conf.wallet /\ started'.bwallet = conf.bwallet
        /\ started'.wait = started.wait /\ started'.db = started.db
    BY <2>1 DEF WayOK
  <2> QED
    BY <2>1, <2>2 DEF WayOK, ReadOK
<1>11. CASE NewSigner
  BY <1>11 DEF NewSigner, WayOK, ReadOK, conVars
<1> QED
  BY <1>1, <1>2, <1>3, <1>4, <1>5, <1>6, <1>7, <1>8, <1>9, <1>10, <1>11 DEF RunStep

(* A running tool runs as the configuration file says, whatever requests,  *)
(* restarts and failures of Save came before, unless one of these parted   *)
(* the two.                                                                *)
THEOREM ToolRunsAsSaved == StartupSpec => []RunsAsSaved
<1>1. StartupInit => SavedInv
  BY DEF StartupInit, NotStarted, SavedInv, WayOK, ReadOK, Late, Starting
<1>2. SavedInv /\ [StartupNext]_startVars => SavedInv'
  <2> SUFFICES ASSUME SavedInv, [StartupNext]_startVars PROVE SavedInv'
    OBVIOUS
  <2>1. CASE UNCHANGED startVars
    BY <2>1 DEF startVars, conVars, runVars, SavedInv, WayOK, ReadOK, Late, Starting
  <2> QED
    BY <2>1, RunSaved, ConsoleSaved DEF StartupNext, WebArrive, WebHandle
<1>3. SavedInv => RunsAsSaved
  BY DEF SavedInv, ReadOK, Late, Starting, RunsAsSaved
<1> QED
  BY <1>1, <1>2, <1>3, PTL DEF StartupSpec

-----------------------------------------------------------------------------
Busy(r) == req[r].pc # "idle"

Places == {"idle", "header", "fields", "initAcct", "statusAcct", "funcAcct", "send", "close"}

IsRequest(x) == DOMAIN x = {"pc", "form", "wallet", "pwd"} /\ x.pc \in Places

(* Every request is at one of the places where a handler blocks. *)
ReqOK == DOMAIN req = Requests /\ \A r \in Requests : IsRequest(req[r])

(* Without an overlap there is one request at a time... *)
Alone == \A r, q \in Requests : Busy(r) /\ Busy(q) => r = q

(* ...and what it is about to send is signed by the wallet it opened. *)
OpenedOwn == \A r \in Requests : req[r].pc = "send" => acc = req[r].wallet

AllOwn == \A s \in sent : s.by = s.for

SendInv == ReqOK /\ (~overlap => Alone /\ OpenedOwn /\ AllOwn)

(* A request that arrives is alone, or there is an overlap from now on. *)
LEMMA ArriveSend ==
  ASSUME SendInv, NEW r \in Requests, NEW pc \in Places \ {"send"}, NEW form,
         Arrive(r, pc, form), UNCHANGED <<acc, sent>>
  PROVE  SendInv'
<1>1. /\ req[r].pc = "idle"
      /\ overlap' = (overlap \/ \E q \in Requests : Busy(q))
      /\ \/ pc = "idle" /\ req' = req
         \/ req' = [req EXCEPT ![r] = [pc |-> pc, form |-> form,
                                       wallet |-> conf'.wallet, pwd |-> conf'.pwd]]
  BY DEF Arrive, Busy
<1>2. req' = req \/ (IsRequest(req'[r]) /\ req'[r].pc # "send")
  BY <1>1 DEF SendInv, ReqOK, IsRequest
<1>3. DOMAIN req' = Requests /\ \A q \in Requests : q # r => req'[q] = req[q]
  BY <1>1 DEF SendInv, ReqOK
<1>4. ReqOK'
  BY <1>2, <1>3 DEF SendInv, ReqOK, IsRequest
<1>5. ASSUME ~overlap'
      PROVE  Alone' /\ OpenedOwn' /\ AllOwn'
  <2>1. ~overlap /\ \A q \in Requests : ~Busy(q)
    BY <1>1, <1>5
  <2>2. Alone'
    BY <1>3, <2>1 DEF Alone, Busy
  <2>3. OpenedOwn'
    BY <1>2, <1>3, <2>1 DEF OpenedOwn, Busy
  <2> QED
    BY <2>1, <2>2, <2>3 DEF SendInv, AllOwn
<1> QED
  BY <1>4, <1>5 DEF SendInv

(* A step of the handler of a request, which goes on as x. *)
LEMMA HandleSend ==
  ASSUME SendInv, NEW r \in Requests, Busy(r),
         NEW x, IsRequest(x), req' = [req EXCEPT ![r] = x], overlap' = overlap,
         ~overlap => (x.pc = "send" => acc' = x.wallet) /\ AllOwn'
  PROVE  SendInv'
<1>1. DOMAIN req' = Requests /\ req'[r] = x /\ \A q \in Requests : q # r => req'[q] = req[q]
  BY DEF SendInv, ReqOK
<1>2. ReqOK'
  BY <1>1 DEF SendInv, ReqOK, IsRequest
<1>3. ASSUME ~overlap
      PROVE  Alone' /\ OpenedOwn' /\ AllOwn'
  <2>1. \A q \in Requests : Busy(q) => q = r
    BY <1>3 DEF SendInv, Alone
  <2>2. Alone'
    BY <1>1, <2>1 DEF Alone, Busy
  <2>3. OpenedOwn'
    BY <1>1, <1>3, <2>1 DEF OpenedOwn, Busy
  <2> QED
    BY <1>3, <2>2, <2>3
<1> QED
  BY <1>2, <1>3 DEF SendInv

(* Steps that leave the requests and the account alone. *)
LEMMA QuietSend ==
  ASSUME SendInv, UNCHANGED <<req, acc, sent, overlap>>
  PROVE  SendInv'
BY DEF SendInv, ReqOK, Alone, Busy, OpenedOwn, AllOwn, IsRequest, Places

LEMMA NewRequestSend ==
  ASSUME SendInv, NewRequest
  PROVE  SendInv'
<1>1. ASSUME NEW r \in Requests, HandleInit(r)
      PROVE  SendInv'
  <2>1. \E form : \E pc \in Places \ {"send"} : Arrive(r, pc, form)
    BY <1>1 DEF HandleInit, Places
  <2>2. UNCHANGED <<acc, sent>>
    BY <1>1 DEF HandleInit
  <2> QED
    BY <2>1, <2>2, ArriveSend
<1>2. ASSUME NEW r \in Requests, HandleStatus(r)
      PROVE  SendInv'
  <2>1. \E form : \E pc \in Places \ {"send"} : Arrive(r, pc, form)
    BY <1>2 DEF HandleStatus, Places
  <2>2. UNCHANGED <<acc, sent>>
    BY <1>2 DEF HandleStatus
  <2> QED
    BY <2>1, <2>2, ArriveSend
<1>3. ASSUME NEW r \in Requests, HandleFuncSet(r)
      PROVE  SendInv'
  <2>1. \E form : \E pc \in Places \ {"send"} : Arrive(r, pc, form)
    BY <1>3 DEF HandleFuncSet, Places
  <2>2. UNCHANGED <<acc, sent>>
    BY <1>3 DEF HandleFuncSet
  <2> QED
    BY <2>1, <2>2, ArriveSend
<1>4. CASE HandleGenePrivk \/ HandleGeneRedeem
  BY <1>4, QuietSend DEF HandleGenePrivk, HandleGeneRedeem
<1>5. Free # {} => (CHOOSE q \in Free : TRUE) \in Requests
  BY DEF Free
<1> QED
  BY <1>1, <1>2, <1>3, <1>4, <1>5 DEF NewRequest

LEMMA HandlerSend ==
  ASSUME SendInv, NEW r \in Requests, Handler(r)
  PROVE  SendInv'
<1>0. IsRequest(req[r]) /\ DOMAIN req = Requests /\ IsRequest(Idle) /\ Idle.pc = "idle"
  BY DEF SendInv, ReqOK, IsRequest, Idle, Places
<1>1. \A pc \in Places :
        /\ IsRequest([req[r] EXCEPT !.pc = pc])
        /\ [req[r] EXCEPT !.pc = pc].pc = pc
        /\ [req[r] EXCEPT !.pc = pc].wallet = req[r].wallet
        /\ Goto(r, pc) => req' = [req EXCEPT ![r] = [req[r] EXCEPT !.pc = pc]]
  BY <1>0 DEF IsRequest, Goto
<1>2. ~overlap /\ sent' = sent => AllOwn'
  BY DEF SendInv, AllOwn
<1>3. CASE StatusHeader(r)
  <2>1. Busy(r) /\ Goto(r, "fields") /\ UNCHANGED <<sent, overlap>> /\ "fields" \in Places
    BY <1>3 DEF StatusHeader, Busy, Places
  <2> QED
    BY <1>1, <1>2, <2>1, HandleSend
<1>4. CASE StatusFields(r)
  <2> DEFINE x == [req[r] EXCEPT !.pc = "statusAcct", !.wallet = conf'.wallet, !.pwd = conf'.pwd]
  <2>1. Busy(r) /\ UNCHANGED <<sent, overlap>>
    BY <1>4 DEF StatusFields, Busy
  <2>2. IsRequest(x) /\ x.pc = "statusAcct"
    BY <1>0 DEF IsRequest, Places
  <2> DEFINE a == [req EXCEPT ![r].pc = "statusAcct"]
  <2> DEFINE b == [a EXCEPT ![r].wallet = conf'.wallet]
  <2>3. req' = [b EXCEPT ![r].pwd = conf'.pwd]
    BY <1>4 DEF StatusFields
  <2>4. b = [req EXCEPT ![r] = [req[r] EXCEPT !.pc = "statusAcct", !.wallet = conf'.wallet]]
    BY <1>0
  <2> HIDE DEF b
  <2>5. req' = [req EXCEPT ![r] = x]
    BY <1>0, <2>3, <2>4
  <2> HIDE DEF x
  <2> QED
    BY <1>2, <2>1, <2>2, <2>5, HandleSend
<1>5. CASE GetORCPwd(r)
  <2> DEFINE ok == Opens(req[r].wallet, req[r].pwd)
  <2> DEFINE pc == AfterAcct(req[r].pc, ok)
  <2>1. /\ req[r].pc \in {"initAcct", "statusAcct", "funcAcct"}
        /\ acc' = IF ok THEN req[r].wallet ELSE acc
        /\ IF pc = "idle" THEN Return(r) ELSE Goto(r, pc)
        /\ UNCHANGED <<sent, overlap>>
    BY <1>5 DEF GetORCPwd
  <2>2. pc \in Places /\ (pc = "send" => ok)
    BY <2>1 DEF AfterAcct, Places
  <2>3. Busy(r)
    BY <2>1 DEF Busy
  <2> HIDE DEF ok, pc
  <2>4. CASE pc = "idle"
    BY <1>0, <1>2, <2>1, <2>3, <2>4, HandleSend DEF Return
  <2>5. CASE pc # "idle"
    BY <1>1, <1>2, <2>1, <2>2, <2>3, <2>5, HandleSend
  <2> QED
    BY <2>4, <2>5
<1>6. CASE FuncSend(r)
  <2>1. /\ Busy(r) /\ Return(r) /\ UNCHANGED overlap
        /\ req[r].pc = "send" /\ sent' \in {sent, sent \cup {[for |-> req[r].wallet, by |-> acc]}}
    BY <1>6 DEF FuncSend, Busy
  <2>2. ~overlap => AllOwn'
    BY <2>1 DEF SendInv, OpenedOwn, AllOwn
  <2> QED
    BY <1>0, <2>1, <2>2, HandleSend DEF Return
<1>7. CASE CloseDone(r)
  <2>1. Busy(r) /\ Return(r) /\ UNCHANGED <<sent, overlap>>
    BY <1>7 DEF CloseDone, Busy
  <2> QED
    BY <1>0, <1>2, <2>1, HandleSend DEF Return
<1> QED
  BY <1>3, <1>4, <1>5, <1>6, <1>7 DEF Handler

(* A transaction that the console sends is signed with the wallet its own  *)
(* request opened, unless two requests were in flight at once: the account *)
(* is shared, and nothing but the wait for an answer keeps them apart.     *)
THEOREM ConsoleSendsByOwnWallet == StartupSpec => []SentByOwnWallet
<1>1. ASSUME req = [r \in Requests |-> Idle], sent = {}
      PROVE  SendInv
  BY <1>1 DEF SendInv, ReqOK, IsRequest, Idle, Places, Alone, Busy, OpenedOwn, AllOwn
<1>2. StartupInit => SendInv
  BY <1>1 DEF StartupInit
<1>3. SendInv /\ [StartupNext]_startVars => SendInv'
  <2> SUFFICES ASSUME SendInv, [StartupNext]_startVars PROVE SendInv'
    OBVIOUS
  <2>1. CASE UNCHANGED startVars
    BY <2>1, QuietSend DEF startVars, conVars
  <2>2. CASE Start \/ Exit \/ Crash
    <3>1. req' = [r \in Requests |-> Idle] /\ sent' = {}
      BY <2>2 DEF Start, Exit, Crash, Down, ConsoleReset
    <3> QED
      BY <3>1 DEF SendInv, ReqOK, IsRequest, Idle, Places, Alone, Busy, OpenedOwn, AllOwn
  <2>3. CASE RunStep /\ ~Exit
    <3>1. UNCHANGED <<req, acc, sent, overlap>>
      BY <2>3 DEF RunStep, OpenDb, SetUp, HandOver, SaveWrite, PolyPwd, BtcPwd,
                  StartObserver, StartSigner, NewSigner, conVars
    <3> QED
      BY <3>1, QuietSend
  <2> QED
    BY <2>1, <2>2, <2>3, NewRequestSend, HandlerSend DEF StartupNext, WebArrive, WebHandle
<1>4. SendInv => SentByOwnWallet
  BY DEF SendInv, AllOwn, SentByOwnWallet
<1> QED
  BY <1>2, <1>3, <1>4, PTL DEF StartupSpec
=============================================================================
