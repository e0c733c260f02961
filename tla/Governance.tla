----------------------------- MODULE Governance -----------------------------
(***************************************************************************)
(* web/service/service.go and the handlers of web/controller that use it:  *)
(* how the vendors of a multisig register with Poly the contract their     *)
(* bitcoins are mapped to and the parameters of their transactions.  Each  *)
(* vendor runs a tool of his own: he makes the redeem script from the      *)
(* public keys, signs what he fills in, the signatures are exchanged by    *)
(* hand, and any of the vendors submits them.  What was signed and what is *)
(* submitted come from two forms, filled in at different times, and from   *)
(* the redeem script in the configuration at either time.                  *)
(***************************************************************************)
EXTENDS Integers, Sequences, FiniteSets

CONSTANTS
    Vendors,        \* each with a key of his own
    KeyLists,       \* public keys as typed in /generdm, by their owners
    Required,       \* numbers of signatures as typed there
    ContractForms,  \* contracts with target chain and version, as typed
    ParamForms,     \* fee rates and minimal changes with a version, as typed
    BadNum,         \* a text that is not a number
    Empty,          \* the empty redeem script, which decodes
    MaxSigs,        \* bound: signatures made
    MaxSubmits      \* bound: submissions

ASSUME GovAssumption ==
    /\ IsFiniteSet(Vendors)
    /\ \A l \in KeyLists : l \in Seq(Vendors)
    /\ Required \subseteq Nat
    /\ \A f \in ContractForms :
         f.kind = "contract" /\ DOMAIN f = {"kind", "contract", "chainid", "ver"}
    /\ \A f \in ParamForms : f.kind = "param" /\ DOMAIN f = {"kind", "fr", "mc", "ver"}
    /\ MaxSigs \in Nat /\ MaxSubmits \in Nat

VARIABLES
    redeem,         \* Conf.Redeem of each vendor
    sigs,           \* the signatures made, known to all
    bound,          \* Poly: what was accepted
    last,           \* history: the last submission, if it was refused
    submits

govVars == <<redeem, sigs, bound, last, submits>>

(* The keys of a redeem script. *)
KeysOf(r) == {r.keys[i] : i \in DOMAIN r.keys}

(* Mutant: the error of ParseUint is dropped. *)
ParsesAny(form) == TRUE

(* The handlers return when ParseUint fails on one of the numbers... *)
Parses(form) == \A f \in DOMAIN form : form[f] # BadNum

(* ...the value of which would be 0. *)
ParseUint(text) == IF text = BadNum THEN 0 ELSE text

NoSubmission == [form |-> [kind |-> "none", ver |-> 0], redeem |-> Empty, sigs |-> {}, next |-> 0]

GovInit ==
    /\ redeem = [v \in Vendors |-> Empty]
    /\ sigs = {}
    /\ bound = {}
    /\ last = NoSubmission
    /\ submits = 0

-----------------------------------------------------------------------------
(* HandleGeneRedeem and GeneRedeem: the keys in the order in which they    *)
(* were typed, and no more signatures required than there are keys.        *)
GeneRedeem(v) ==
    \E keys \in KeyLists, n \in Required :
        /\ n <= Len(keys)
        /\ redeem' = [redeem EXCEPT ![v] = [keys |-> keys, req |-> n]]
        /\ UNCHANGED <<sigs, bound, last, submits>>

(* What a vendor signs: the redeem script, the id of Bitcoin's chain and   *)
(* the values one after the other.                                         *)
SignContract(contract, r, chainId, ver) == <<r, 1, contract, chainId, ver>>

SignParam(fr, mc, ver, r) == <<r, 1, fr, mc, ver>>

(* The key file is opened (if it cannot be, nothing happens), and the      *)
(* signature is shown for the vendor to pass on.                           *)
Sign(v, form, msg) ==
    /\ Parses(form)
    /\ Cardinality(sigs) < MaxSigs
    /\ sigs' = sigs \cup {[key |-> v, msg |-> msg, form |-> form, redeem |-> redeem[v]]}
    /\ UNCHANGED <<redeem, bound, last, submits>>

HandleSignContract(v) ==
    \E form \in ContractForms :
        Sign(v, form, SignContract(form.contract, redeem[v], ParseUint(form.chainid), ParseUint(form.ver)))

HandleSignParam(v) ==
    \E form \in ParamForms :
        Sign(v, form, SignParam(ParseUint(form.fr), ParseUint(form.mc), ParseUint(form.ver), redeem[v]))

-----------------------------------------------------------------------------
(* Poly's side manager contract.  It makes the message out of what was     *)
(* submitted, wants the signatures of as many of the script's keys as the  *)
(* script requires, and versions that count up from 0 (README_CN.md).  If  *)
(* there are signatures of something else among them it may refuse.        *)
Consider(form, slot, val, ver, r, msg, S) ==
    LET valid == {s \in S : s.msg = msg /\ s.key \in KeysOf(r)}
        next == Cardinality({b \in bound : b.slot = slot /\ b.redeem = r})
        good == /\ r # Empty
                /\ Cardinality({s.key : s \in valid}) >= r.req
                /\ ver = next
    IN \E ok \in BOOLEAN :
         /\ ok => good
         /\ good /\ S = valid => ok
         /\ bound' = IF ok THEN bound \cup {[slot |-> slot, redeem |-> r, val |-> val, ver |-> ver]}
                    ELSE bound
         /\ last' = IF ok THEN NoSubmission
                   ELSE [form |-> form, redeem |-> r, sigs |-> S, next |-> next]

(* The binding is stored by target chain, the parameters once. *)
RegisterRedeem(form, toId, r, contract, ver, S) ==
    Consider(form, <<"contract", toId>>, <<contract>>, ver, r, <<r, 1, contract, toId, ver>>, S)

SetBtcTxParam(form, r, fr, mc, ver, S) ==
    Consider(form, <<"param">>, <<fr, mc>>, ver, r, <<r, 1, fr, mc, ver>>, S)

(* Mutant: target chain and version change places. *)
SetContractSwapped(form, contract, r, S, ver, chainId) ==
    RegisterRedeem(form, ver, r, contract, chainId, S)

(* SetContract and SetParam submit the signatures typed in. *)
SetContract(form, contract, r, S, ver, chainId) == RegisterRedeem(form, chainId, r, contract, ver, S)

SetParam(form, fr, mc, ver, r, S) == SetBtcTxParam(form, r, fr, mc, ver, S)

(* A vendor submits a form with some of the signatures there are.  Without *)
(* an account to pay with (see WebConsole) nothing is submitted: the pages *)
(* apart from the guided set-up open it first and return if they cannot,   *)
(* that of the set-up panics, and gin recovers.                            *)
Submits(form) ==
    /\ Parses(form)
    /\ submits < MaxSubmits
    /\ submits' = submits + 1
    /\ UNCHANGED <<redeem, sigs>>

HandleSetContract(v) ==
    \E form \in ContractForms, S \in SUBSET sigs \ {{}} :
        /\ Submits(form)
        /\ SetContract(form, form.contract, redeem[v], S, ParseUint(form.ver), ParseUint(form.chainid))

HandleSetParam(v) ==
    \E form \in ParamForms, S \in SUBSET sigs \ {{}} :
        /\ Submits(form)
        /\ SetParam(form, ParseUint(form.fr), ParseUint(form.mc), ParseUint(form.ver), redeem[v], S)

(* The same four pages apart from the guided set-up. *)
HandleFuncSignContract(v) == HandleSignContract(v)
HandleFuncSignParam(v)    == HandleSignParam(v)
HandleFuncSetContract(v)  == HandleSetContract(v)
HandleFuncSetParam(v)     == HandleSetParam(v)

GovNext ==
    \E v \in Vendors :
        \/ GeneRedeem(v)
        \/ HandleSignContract(v) \/ HandleSignParam(v)
        \/ HandleSetContract(v) \/ HandleSetParam(v)
        \/ HandleFuncSignContract(v) \/ HandleFuncSignParam(v)
        \/ HandleFuncSetContract(v) \/ HandleFuncSetParam(v)

GovSpec == GovInit /\ [][GovNext]_govVars

-----------------------------------------------------------------------------
(* The values of a form, in the order in which they are signed.  The two   *)
(* messages carry no tag, and nothing checks the length of a contract's    *)
(* address: one as long as a number makes a contract's message that of     *)
(* parameters.                                                             *)
Values(form) ==
    IF form.kind = "contract" THEN <<form.contract, form.chainid, form.ver>>
    ELSE <<form.fr, form.mc, form.ver>>

(* What Poly has bound, as such values. *)
Granted(b) ==
    IF b.slot[1] = "contract" THEN <<b.val[1], b.slot[2], b.ver>>
    ELSE <<b.val[1], b.val[2], b.ver>>

(* What Poly has bound to a redeem script, as many vendors of the script   *)
(* as it requires have each filled in, with the very same values, while    *)
(* that script was the one in their configuration.  The values are all     *)
(* they agree on: it may have been as parameters what is bound as a        *)
(* contract, or the other way round.                                       *)
BoundByQuorum ==
    \A b \in bound :
        \E Q \in SUBSET KeysOf(b.redeem) :
            /\ Cardinality(Q) >= b.redeem.req
            /\ \A v \in Q : \E s \in sigs :
                 s.key = v /\ s.redeem = b.redeem /\ Values(s.form) = Granted(b)

(* Signatures of enough vendors, made with the same form and the same      *)
(* redeem script as they are submitted with, and with the next version,    *)
(* are not refused.                                                        *)
QuorumNotRefused ==
    LET r == last.redeem IN
        ~ /\ r # Empty
          /\ \A s \in last.sigs : s.form = last.form /\ s.redeem = r /\ s.key \in KeysOf(r)
          /\ Cardinality({s.key : s \in last.sigs}) >= r.req
          /\ last.form.ver = last.next

(* What makes the two inductive: a signature is one of the message that    *)
(* the form it was made with stands for.                                   *)
Message(r, form) == <<r, 1, Values(form)[1], Values(form)[2], Values(form)[3]>>

SigInv ==
    \A s \in sigs :
        /\ s.form \in ContractForms \cup ParamForms
        /\ Parses(s.form)
        /\ s.msg = Message(s.redeem, s.form)

GovInv == SigInv /\ BoundByQuorum /\ QuorumNotRefused
=============================================================================
