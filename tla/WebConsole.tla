----------------------------- MODULE WebConsole -----------------------------
(***************************************************************************)
(* web/router and web/controller: the web console, through which a vendor  *)
(* is set up and the tool started.  gin runs each request in a goroutine   *)
(* of its own; the handlers share the configuration, the Poly SDK and the  *)
(* account without a lock.  A handler is one action per stretch between    *)
(* two calls that block (an RPC to Poly, the opening of a wallet).         *)
(*                                                                         *)
(* The handlers that sign and submit governance messages read the state    *)
(* here; what they sign and submit is the subject of Governance.           *)
(***************************************************************************)
EXTENDS Integers, Sequences, FiniteSets

CONSTANTS
    Requests,       \* bound: requests at a time
    MaxRequests,    \* bound: requests in the life of a process
    InitForms,      \* what /init may be posted with,
    StatusForms,    \* /status,
    FuncForms,      \* /set_contract_tool and /set_param_tool,
    KeyForms,       \* and /geneprivk
    GoodRedeems,    \* redeem scripts in hexadecimal
    Absent,         \* a field that is not in the form
    Blank,          \* the empty string
    BadNum,         \* a text that is not a number
    None            \* nil

VARIABLES
    conf,           \* config.Config, shared by all handlers and run
    BtcNetParam,    \* config.BtcNetParam
    client,         \* the address of the SDK's RPC client, None without one
    chainId,        \* whether SetUpPoly has set the SDK's chain id
    acc,            \* Bs.Acc: the wallet file whose account was opened
    wallets,        \* the wallet files: password of the default account
    req,            \* the requests in flight
    served,         \* number of requests of this process
    done,           \* the channel done is closed
    sent,           \* history: wallet a transaction was sent for, account used
    overlap         \* history: two requests were in flight at once

conVars == <<conf, BtcNetParam, client, chainId, acc, wallets, req, served, done, sent, overlap>>

Fields == {"rpc", "wallet", "pwd", "bwallet", "bpwd", "net", "db", "wait", "redeem"}

(* A request: its place, its form, and the wallet and the password that    *)
(* getORCPwd read from the configuration.                                  *)
Idle == [pc |-> "idle", form |-> None, wallet |-> None, pwd |-> None]

(* GetAccountByPassword. *)
Opens(file, pwd) == file \in DOMAIN wallets /\ wallets[file] = pwd

(* The wallet library: the first account of a file is its default. *)
ImportAccount(file, pwd) ==
    [f \in DOMAIN wallets \cup {file} |-> IF f \in DOMAIN wallets THEN wallets[f] ELSE pwd]

(* hex.DecodeString of a redeem script; the empty string decodes. *)
Decodes(redeem) == redeem \in GoodRedeems \cup {Blank}

(* Mutant: the switch has no default. *)
NetParamAny(net) == net

(* The switch on the net's name: every other name is the main net. *)
NetParam(net) == IF net \in {"regtest", "test"} THEN net ELSE "main"

(* What the console starts from, when run starts it on configuration c. *)
ConsoleReset(c) ==
    /\ conf' = c
    /\ BtcNetParam' = None
    /\ client' = None
    /\ chainId' = FALSE
    /\ acc' = None
    /\ req' = [r \in Requests |-> Idle]
    /\ served' = 0
    /\ done' = FALSE
    /\ sent' = {}
    /\ overlap' = FALSE
    /\ UNCHANGED wallets

-----------------------------------------------------------------------------
(* A request arrives; its handler gets as far as pc. *)
Arrive(r, pc, form) ==
    /\ req[r].pc = "idle"
    /\ served < MaxRequests
    /\ served' = served + 1
    /\ overlap' = (overlap \/ \E q \in Requests : req[q].pc # "idle")
    /\ req' = IF pc = "idle" THEN req
              ELSE [req EXCEPT ![r] = [pc |-> pc, form |-> form,
                                       wallet |-> conf'.wallet, pwd |-> conf'.pwd]]

Goto(r, pc) == req' = [req EXCEPT ![r].pc = pc]

Return(r) == req' = [req EXCEPT ![r] = Idle]

Filled(form, f) == form[f] \notin {Absent, Blank}

(* HandleInit asks for its fields in this order and returns at the first   *)
(* one that is missing, what came before it being already applied.         *)
InitFields == <<"rpc", "wallet", "pwd", "net", "db">>

Reached(form) ==
    {InitFields[i] : i \in {i \in DOMAIN InitFields : \A j \in 1 .. i : form[InitFields[j]] # Absent}}

HandleInit(r) ==
    \E form \in InitForms :
      LET reached == Reached(form)
          whole == reached = {InitFields[i] : i \in DOMAIN InitFields}
      IN /\ conf' = [f \in Fields |->
                       IF f \in reached /\ Filled(form, f) THEN form[f] ELSE conf[f]]
         /\ Arrive(r, IF whole THEN "initAcct" ELSE "idle", form)
         /\ client' = IF "rpc" \in reached THEN conf'.rpc ELSE client
         /\ BtcNetParam' = IF "net" \in reached THEN NetParam(conf'.net) ELSE BtcNetParam
         /\ UNCHANGED <<chainId, acc, wallets, done, sent>>

(* HandleStatus, up to the call of SetUpPoly, which is made only without   *)
(* a client and first makes one...                                         *)
HandleStatus(r) ==
    \E form \in StatusForms :
      /\ conf' = IF Filled(form, "rpc") THEN [conf EXCEPT !.rpc = form.rpc] ELSE conf
      /\ Arrive(r, IF client = None THEN "header" ELSE "fields", form)
      /\ client' = IF client = None THEN conf'.rpc ELSE client
      /\ UNCHANGED <<BtcNetParam, chainId, acc, wallets, done, sent>>

(* ...and then asks Poly for the chain id; an error is dropped. *)
StatusHeader(r) ==
    /\ req[r].pc = "header"
    /\ chainId' \in {chainId, TRUE}
    /\ Goto(r, "fields")
    /\ UNCHANGED <<conf, BtcNetParam, client, acc, wallets, served, done, sent, overlap>>

(* The fields a form of /status changes.  The wallet goes by whether the   *)
(* rpc address was filled in, and a wait time must be a number.            *)
Changes(form) ==
    {f \in Fields \ {"rpc", "wallet"} : Filled(form, f) /\ ~(f = "wait" /\ form[f] = BadNum)}
        \cup {f \in {"wallet"} : form[f] # Absent /\ Filled(form, "rpc")}

(* Mutant: the net's parameters are left alone. *)
StatusFieldsNoNet(r) ==
    LET form == req[r].form IN
    /\ req[r].pc = "fields"
    /\ conf' = [f \in Fields |-> IF f \in Changes(form) THEN form[f] ELSE conf[f]]
    /\ req' = [req EXCEPT ![r].pc = "statusAcct", ![r].wallet = conf'.wallet, ![r].pwd = conf'.pwd]
    /\ UNCHANGED <<BtcNetParam, client, chainId, acc, wallets, served, done, sent, overlap>>

(* The assignments of HandleStatus up to getORCPwd. *)
StatusFields(r) ==
    LET form == req[r].form IN
    /\ req[r].pc = "fields"
    /\ conf' = [f \in Fields |-> IF f \in Changes(form) THEN form[f] ELSE conf[f]]
    /\ BtcNetParam' = IF Filled(form, "net") THEN NetParam(form.net) ELSE BtcNetParam
    /\ req' = [req EXCEPT ![r].pc = "statusAcct", ![r].wallet = conf'.wallet, ![r].pwd = conf'.pwd]
    /\ UNCHANGED <<client, chainId, acc, wallets, served, done, sent, overlap>>

(* HandleFuncSetContract and HandleFuncSetParam, up to getORCPwd. *)
HandleFuncSet(r) ==
    \E form \in FuncForms :
      /\ conf' = [f \in Fields |->
                    IF f \in {"wallet", "pwd"} /\ Filled(form, f) THEN form[f] ELSE conf[f]]
      /\ Arrive(r, "funcAcct", form)
      /\ UNCHANGED <<BtcNetParam, client, chainId, acc, wallets, done, sent>>

(* Mutant: a failed /status does not close the channel. *)
AfterAcctStop(pc, ok) ==
    [initAcct |-> "idle", statusAcct |-> IF ok THEN "close" ELSE "idle",
     funcAcct |-> IF ok THEN "send" ELSE "idle"][pc]

(* Where each handler goes from getORCPwd, ok or not: that of /status goes *)
(* on to close(done) in either case.                                       *)
AfterAcct(pc, ok) ==
    [initAcct |-> "idle", statusAcct |-> "close", funcAcct |-> IF ok THEN "send" ELSE "idle"][pc]

(* Mutant: the account is kept when there is one already. *)
GetORCPwdKeep(r) ==
    LET ok == Opens(req[r].wallet, req[r].pwd)
        pc == AfterAcct(req[r].pc, ok)
    IN /\ req[r].pc \in {"initAcct", "statusAcct", "funcAcct"}
       /\ acc' = IF ok /\ acc = None THEN req[r].wallet ELSE acc
       /\ client' = IF ok /\ client = None THEN conf.rpc ELSE client
       /\ IF pc = "idle" THEN Return(r) ELSE Goto(r, pc)
       /\ UNCHANGED <<conf, BtcNetParam, chainId, wallets, served, done, sent, overlap>>

(* getORCPwd opens the configured wallet, and makes a client if there is   *)
(* none (without a chain id).                                              *)
GetORCPwd(r) ==
    LET ok == Opens(req[r].wallet, req[r].pwd)
        pc == AfterAcct(req[r].pc, ok)
    IN /\ req[r].pc \in {"initAcct", "statusAcct", "funcAcct"}
       /\ acc' = IF ok THEN req[r].wallet ELSE acc
       /\ client' = IF ok /\ client = None THEN conf.rpc ELSE client
       /\ IF pc = "idle" THEN Return(r) ELSE Goto(r, pc)
       /\ UNCHANGED <<conf, BtcNetParam, chainId, wallets, served, done, sent, overlap>>

(* SetContract or SetParam of the request sends its transaction, signed    *)
(* with the shared account.  (An unusable form returns without sending.)   *)
FuncSend(r) ==
    /\ req[r].pc = "send"
    /\ sent' \in {sent, sent \cup {[for |-> req[r].wallet, by |-> acc]}}
    /\ Return(r)
    /\ UNCHANGED <<conf, BtcNetParam, client, chainId, acc, wallets, served, done, overlap>>

(* close(done) after HandleStatus; a second close panics, which gin        *)
(* recovers from.                                                          *)
CloseDone(r) ==
    /\ req[r].pc = "close"
    /\ done' = TRUE
    /\ Return(r)
    /\ UNCHANGED <<conf, BtcNetParam, client, chainId, acc, wallets, served, sent, overlap>>

(* HandleGenePrivk imports a new key into a wallet file, where it is the   *)
(* default account if it is the first, and configures that wallet.  It     *)
(* returns without effect for unequal passwords, without net parameters    *)
(* and when the import fails.                                              *)
HandleGenePrivk ==
    /\ served < MaxRequests
    /\ served' = served + 1
    /\ BtcNetParam # None
    /\ \E form \in KeyForms :
         /\ form.pwd = form.pwd2
         /\ wallets' = ImportAccount(form.path, form.pwd)
         /\ conf' = [conf EXCEPT !.bpwd = form.pwd, !.bwallet = form.path]
    /\ UNCHANGED <<BtcNetParam, client, chainId, acc, req, done, sent, overlap>>

(* HandleGeneRedeem; without net parameters it panics and is recovered. *)
HandleGeneRedeem ==
    /\ served < MaxRequests
    /\ served' = served + 1
    /\ BtcNetParam # None
    /\ \E redeem \in GoodRedeems : conf' = [conf EXCEPT !.redeem = redeem]
    /\ UNCHANGED <<BtcNetParam, client, chainId, acc, wallets, req, done, sent, overlap>>

(* Which of the places that are free a request takes makes no difference. *)
Free == {r \in Requests : req[r].pc = "idle"}

NewRequest ==
    \/ /\ Free # {}
       /\ LET r == CHOOSE q \in Free : TRUE IN HandleInit(r) \/ HandleStatus(r) \/ HandleFuncSet(r)
    \/ HandleGenePrivk
    \/ HandleGeneRedeem

Handler(r) ==
    StatusHeader(r) \/ StatusFields(r) \/ GetORCPwd(r) \/ FuncSend(r) \/ CloseDone(r)

-----------------------------------------------------------------------------
(* A transaction that /set_contract_tool or /set_param_tool sends is       *)
(* signed with the account of the wallet that request opened, if no two    *)
(* requests overlap (Bs.Acc is shared by them all).                        *)
SentByOwnWallet == ~overlap => \A s \in sent : s.by = s.for

(* The Bitcoin net in use, once there is one, is the configured one, in    *)
(* whatever order the pages are used; the two are assigned one after the   *)
(* other, in an order that differs from handler to handler, so that        *)
(* nothing is claimed once requests overlap.                               *)
NetMatchesConf == ~overlap /\ BtcNetParam # None => BtcNetParam = NetParam(conf.net)
=============================================================================
