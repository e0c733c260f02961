------------------------------ MODULE Startup ------------------------------
(***************************************************************************)
(* cmd/run.go and config/config.go: the start of the process, from the     *)
(* configuration file to the running observer and signer.  With --web=1    *)
(* run waits for the console's /status and saves the configuration; the    *)
(* console goes on serving requests while run reads the same variables.    *)
(***************************************************************************)
EXTENDS WebConsole

CONSTANTS
    Flags,          \* command lines: [web, mode, polypwd, btcpwd]
    Confs,          \* the configuration files the operator may begin with
    InitWallets,    \* the wallet files there are, with their passwords
    Typed,          \* passwords that may be typed at the prompt
    SamePath,       \* --config names ./config/conf.json, which run rewrites
    DiskFails,      \* whether Save may fail
    MaxStarts       \* bound: starts of the process

ASSUME StartupAssumption ==
    /\ SamePath \in BOOLEAN /\ DiskFails \in BOOLEAN
    /\ MaxStarts \in Nat /\ MaxRequests \in Nat
    /\ \A c \in Confs : DOMAIN c = Fields

VARIABLES
    runPc,          \* where run is
    flags,          \* the command line of this process
    file,           \* the --config file; Blank when it was cut off in a write
    snap,           \* the marshalled configuration that Save writes
    vdbPath,        \* where the record store was opened
    opwd, bpwd,     \* the passwords run has settled on
    rb,             \* the redeem script run has decoded
    started,        \* what the observer and the signer were started with
    starts,
    parted          \* history: the file and the configuration went apart

runVars == <<runPc, flags, file, snap, vdbPath, opwd, bpwd, rb, started, starts, parted>>
startVars == <<conVars, runVars>>

NotStarted == [redeem |-> None, wait |-> None, db |-> None, wallet |-> None, bwallet |-> None]

StartupInit ==
    /\ file \in Confs
    /\ runPc = "down" /\ flags = None /\ snap = None
    /\ vdbPath = None /\ opwd = None /\ bpwd = None /\ rb = None
    /\ started = NotStarted
    /\ starts = 0 /\ parted = FALSE
    /\ conf = None
    /\ BtcNetParam = None /\ client = None /\ chainId = FALSE /\ acc = None
    /\ wallets \in InitWallets
    /\ req = [r \in Requests |-> Idle]
    /\ served = 0 /\ done = FALSE /\ sent = {} /\ overlap = FALSE

-----------------------------------------------------------------------------
(* The process ends: os.Exit, a panic outside of a handler, or a crash.    *)
(* What it had in memory is gone.                                          *)
Down ==
    /\ runPc' = "down"
    /\ ConsoleReset(None)
    /\ snap' = None /\ vdbPath' = None /\ opwd' = None /\ bpwd' = None /\ rb' = None
    /\ started' = NotStarted
    /\ flags' = None
    /\ parted' = FALSE
    /\ UNCHANGED <<file, starts>>

(* NewConfig; a file that was cut off does not parse, and run exits.  Then *)
(* conf.Save to ./config/conf.json, which may be the file just read.       *)
Start ==
    /\ runPc = "down"
    /\ starts < MaxStarts
    /\ file # Blank
    /\ \E f \in Flags : flags' = f
    /\ starts' = starts + 1
    /\ ConsoleReset(file)
    /\ runPc' = "save1"
    /\ snap' = file
    /\ file' = IF SamePath THEN Blank ELSE file
    /\ UNCHANGED <<vdbPath, opwd, bpwd, rb, started, parted>>

(* The write itself, then NewVendorDB. *)
OpenDb ==
    /\ runPc = "save1"
    /\ \/ /\ file' = IF SamePath THEN snap ELSE file
          /\ UNCHANGED parted
       \/ SamePath /\ DiskFails /\ UNCHANGED file /\ parted' = TRUE
    /\ vdbPath' = conf.db
    /\ runPc' = IF flags.web THEN "wait" ELSE "net"
    /\ UNCHANGED <<flags, snap, opwd, bpwd, rb, started, starts, conVars>>

(* Without the console: the net type and SetUpPoly, an error of either     *)
(* ends the process.                                                       *)
SetUp ==
    /\ runPc = "net"
    /\ conf.net \in {"regtest", "test", "main"}
    /\ BtcNetParam' = NetParam(conf.net)
    /\ client' = conf.rpc
    /\ chainId' = TRUE
    /\ runPc' = "polypwd"
    /\ UNCHANGED <<flags, file, snap, vdbPath, opwd, bpwd, rb, started, starts, parted>>
    /\ UNCHANGED <<conf, acc, wallets, req, served, done, sent, overlap>>

(* Mutant: run goes on without saving the configuration. *)
HandOverUnsaved ==
    /\ runPc = "wait"
    /\ done
    /\ runPc' = "polypwd"
    /\ UNCHANGED <<flags, file, snap, vdbPath, opwd, bpwd, rb, started, starts, parted, conVars>>

(* run sees done closed; Save marshals the configuration and truncates the *)
(* file, or fails to open it.                                              *)
HandOver ==
    /\ runPc = "wait"
    /\ done
    /\ \/ snap' = conf /\ file' = Blank /\ runPc' = "save2" /\ UNCHANGED parted
       \/ DiskFails /\ runPc' = "polypwd" /\ parted' = TRUE /\ UNCHANGED <<snap, file>>
    /\ UNCHANGED <<flags, vdbPath, opwd, bpwd, rb, started, starts, conVars>>

(* Save writes what it has marshalled, or fails and leaves an empty file;  *)
(* run goes on.                                                            *)
SaveWrite ==
    /\ runPc = "save2"
    /\ \/ file' = snap /\ UNCHANGED parted
       \/ DiskFails /\ UNCHANGED file /\ parted' = TRUE
    /\ runPc' = "polypwd"
    /\ UNCHANGED <<flags, snap, vdbPath, opwd, bpwd, rb, started, starts, conVars>>

(* A password: from the command line, else from the configuration, else    *)
(* typed at the prompt.                                                    *)
Passwords(flag, configured) ==
    IF flag # Blank THEN {flag} ELSE IF configured # Blank THEN {configured} ELSE Typed

PolyPwd ==
    /\ runPc = "polypwd"
    /\ opwd' \in Passwords(flags.polypwd, conf.pwd)
    /\ runPc' = "btcpwd"
    /\ UNCHANGED <<flags, file, snap, vdbPath, bpwd, rb, started, starts, parted, conVars>>

(* The second password and the redeem script, which must decode. *)
BtcPwd ==
    /\ runPc = "btcpwd"
    /\ bpwd' \in Passwords(flags.btcpwd, conf.bpwd)
    /\ Decodes(conf.redeem)
    /\ rb' = conf.redeem
    /\ runPc' = CASE flags.mode \in {"all", "onlyob"} -> "observer"
                  [] flags.mode = "onlysig" -> "signer"
                  [] OTHER -> "wrongMode"
    /\ UNCHANGED <<flags, file, snap, vdbPath, opwd, started, starts, parted, conVars>>

(* startObserver. *)
StartObserver ==
    /\ runPc = "observer"
    /\ started' = [started EXCEPT !.redeem = rb, !.wait = conf.wait, !.db = conf.db]
    /\ runPc' = IF flags.mode = "onlyob" THEN "running" ELSE "signer"
    /\ UNCHANGED <<flags, file, snap, vdbPath, opwd, bpwd, rb, starts, parted, conVars>>

(* startSigner opens the Poly wallet... *)
StartSigner ==
    /\ runPc = "signer"
    /\ Opens(conf.wallet, opwd)
    /\ started' = [started EXCEPT !.redeem = rb, !.wallet = conf.wallet, !.bwallet = conf.bwallet]
    /\ runPc' = "newSigner"
    /\ UNCHANGED <<flags, file, snap, vdbPath, opwd, bpwd, rb, starts, parted, conVars>>

(* ...and NewSigner the Bitcoin wallet, for the address of which it needs  *)
(* the net's parameters.                                                   *)
NewSigner ==
    /\ runPc = "newSigner"
    /\ Opens(started.bwallet, bpwd)
    /\ BtcNetParam # None
    /\ runPc' = "running"
    /\ UNCHANGED <<flags, file, snap, vdbPath, opwd, bpwd, rb, started, starts, parted, conVars>>

(* Listen's ticker panics for a wait time that is not positive. *)
TickerPanics == started.wait # None /\ started.wait <= 0

(* The configuration's faults for which run exits or panics. *)
Fatal ==
    \/ runPc = "net" /\ conf.net \notin {"regtest", "test", "main"}
    \/ runPc = "btcpwd" /\ ~Decodes(conf.redeem)
    \/ runPc = "wrongMode"
    \/ TickerPanics
    \/ runPc = "signer" /\ ~Opens(conf.wallet, opwd)
    \/ runPc = "newSigner" /\ ~(Opens(started.bwallet, bpwd) /\ BtcNetParam # None)

Exit == Fatal /\ Down

(* A crash, a signal, a failure of LevelDB or of Poly in SetUpPoly. *)
Crash == runPc # "down" /\ Down

RunStep ==
    \/ OpenDb \/ SetUp \/ HandOver \/ SaveWrite \/ PolyPwd \/ BtcPwd
    \/ StartObserver \/ StartSigner \/ NewSigner \/ Exit

(* The console's requests, from router.Init on.  One that changes the      *)
(* configuration once run has marshalled it parts it from the file.        *)
Serving == runPc \notin {"down", "save1"} /\ flags.web

WebUnchanged ==
    /\ parted' = (parted \/ (runPc # "wait" /\ conf' # conf))
    /\ UNCHANGED <<runPc, flags, file, snap, vdbPath, opwd, bpwd, rb, started, starts>>

WebArrive == Serving /\ NewRequest /\ WebUnchanged

WebHandle(r) == Serving /\ Handler(r) /\ WebUnchanged

StartupNext == Start \/ RunStep \/ Crash \/ WebArrive \/ \E r \in Requests : WebHandle(r)

StartupSpec == StartupInit /\ [][StartupNext]_startVars

(* run's goroutine runs, prompts are answered, and so are requests that    *)
(* have arrived; nobody need start the tool or send a request.             *)
StartupFairSpec ==
    /\ StartupSpec
    /\ WF_startVars(RunStep)
    /\ \A r \in Requests : WF_startVars(WebHandle(r))

-----------------------------------------------------------------------------
(* The variables keep their types; without a process there is none of its  *)
(* state.                                                                  *)
StartupTypeOK ==
    /\ runPc \in {"down", "save1", "wait", "net", "save2", "polypwd", "btcpwd", "wrongMode",
                  "observer", "signer", "newSigner", "running"}
    /\ starts \in 0 .. MaxStarts
    /\ served \in 0 .. MaxRequests
    /\ {done, chainId, overlap, parted} \subseteq BOOLEAN
    /\ BtcNetParam \in {None, "regtest", "test", "main"}
    /\ file = Blank \/ DOMAIN file = Fields
    /\ IF runPc = "down"
       THEN conf = None /\ started = NotStarted /\ \A r \in Requests : req[r] = Idle
       ELSE DOMAIN conf = Fields /\ flags \in Flags

(* A process that is running runs as the configuration file says, so that  *)
(* its next start will too: what the observer and the signer were given is *)
(* what Save wrote, unless a request changed the configuration after Save  *)
(* had read it, or the write failed.                                       *)
RunsAsSaved ==
    runPc = "running" /\ ~parted =>
        /\ file = conf
        /\ started.redeem = file.redeem
        /\ flags.mode # "onlysig" => started.wait = file.wait /\ started.db = file.db
        /\ flags.mode # "onlyob" => started.wallet = file.wallet /\ started.bwallet = file.bwallet
        /\ ~flags.web => vdbPath = file.db

(* A request to start the tool (/status) is never without effect: run goes *)
(* on to a running tool or the process ends, also if the handler fails or  *)
(* another request has closed the channel before.                          *)
StatusStartsTool ==
    \A r \in Requests : req[r].pc = "fields" ~> runPc \in {"running", "down"}

(* A configuration with which the tool can run. *)
Complete(c) ==
    /\ c.net \in {"regtest", "test", "main"}
    /\ c.redeem \in GoodRedeems
    /\ c.wait > 0
    /\ Opens(c.wallet, c.pwd)
    /\ Opens(c.bwallet, c.bpwd)

(* A complete configuration file is all it takes to start the tool         *)
(* directly from the console, the form left empty ("must first complete    *)
(* conf.json", README_CN.md); the process does not die of it.              *)
StartsAsConfigured == runPc # "down" /\ Complete(conf) => ~Fatal
=============================================================================
