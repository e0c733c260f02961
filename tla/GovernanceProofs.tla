-------------------------- MODULE GovernanceProofs --------------------------
(***************************************************************************)
(* Proofs about Governance, for any number of vendors, any forms and any   *)
(* redeem scripts.                                                         *)
(***************************************************************************)
EXTENDS Governance, TLAPS

(* The numbers of a form that parses are taken as they were typed. *)
LEMMA ParsedContract ==
  ASSUME NEW f \in ContractForms, Parses(f)
  PROVE  ParseUint(f.chainid) = f.chainid /\ ParseUint(f.ver) = f.ver
BY GovAssumption DEF Parses, ParseUint

LEMMA ParsedParam ==
  ASSUME NEW f \in ParamForms, Parses(f)
  PROVE  ParseUint(f.fr) = f.fr /\ ParseUint(f.mc) = f.mc /\ ParseUint(f.ver) = f.ver
BY GovAssumption DEF Parses, ParseUint

(* The messages of the two kinds of forms. *)
LEMMA FormMessages ==
  ASSUME NEW r
  PROVE  /\ \A f \in ContractForms : Message(r, f) = <<r, 1, f.contract, f.chainid, f.ver>>
         /\ \A f \in ParamForms : Message(r, f) = <<r, 1, f.fr, f.mc, f.ver>>
BY GovAssumption DEF Message, Values

(* Signing adds one signature, of the message of its form. *)
LEMMA SignStep ==
  ASSUME SigInv, NEW v \in Vendors, HandleSignContract(v) \/ HandleSignParam(v)
  PROVE  SigInv' /\ sigs \subseteq sigs' /\ UNCHANGED <<bound, last>>
<1>1. CASE HandleSignContract(v)
  <2>1. PICK form \in ContractForms :
          Sign(v, form, SignContract(form.contract, redeem[v], ParseUint(form.chainid), ParseUint(form.ver)))
    BY <1>1 DEF HandleSignContract
  <2>2. Parses(form)
    BY <2>1 DEF Sign
  <2>3. sigs' = sigs \cup {[key |-> v, msg |-> <<redeem[v], 1, form.contract, form.chainid, form.ver>>,
                            form |-> form, redeem |-> redeem[v]]}
    BY <2>1, <2>2, ParsedContract DEF Sign, SignContract
  <2>4. Message(redeem[v], form) = <<redeem[v], 1, form.contract, form.chainid, form.ver>>
    BY FormMessages
  <2> QED
    BY <2>1, <2>2, <2>3, <2>4 DEF Sign, SigInv, Parses, Message, Values
<1>2. CASE HandleSignParam(v)
  <2>1. PICK form \in ParamForms :
          Sign(v, form, SignParam(ParseUint(form.fr), ParseUint(form.mc), ParseUint(form.ver), redeem[v]))
    BY <1>2 DEF HandleSignParam
  <2>2. Parses(form)
    BY <2>1 DEF Sign
  <2>3. sigs' = sigs \cup {[key |-> v, msg |-> <<redeem[v], 1, form.fr, form.mc, form.ver>>,
                            form |-> form, redeem |-> redeem[v]]}
    BY <2>1, <2>2, ParsedParam DEF Sign, SignParam
  <2>4. Message(redeem[v], form) = <<redeem[v], 1, form.fr, form.mc, form.ver>>
    BY FormMessages
  <2> QED
    BY <2>1, <2>2, <2>3, <2>4 DEF Sign, SigInv, Parses, Message, Values
<1> QED
  BY <1>1, <1>2

(* A signature of a form's message was made with the same redeem script    *)
(* and a form of the same values.                                          *)
LEMMA SameMessage ==
  ASSUME NEW q, NEW r, NEW f, NEW g, Message(q, f) = Message(r, g)
  PROVE  q = r /\ Values(f) = Values(g)
<1>1. q = r /\ \A i \in 1 .. 3 : Values(f)[i] = Values(g)[i]
  BY DEF Message
<1>2. \A h : Values(h) = <<Values(h)[1], Values(h)[2], Values(h)[3]>>
  BY DEF Values
<1> QED
  BY <1>1, <1>2

(* Poly's decision on a submission keeps both invariants, if the           *)
(* signatures of the message it makes are those made with the same form.   *)
LEMMA ConsiderStep ==
  ASSUME BoundByQuorum, NEW form, NEW slot, NEW val, NEW ver, NEW r, NEW msg, NEW S \in SUBSET sigs,
         Consider(form, slot, val, ver, r, msg, S), UNCHANGED sigs,
         \A s \in sigs : s.msg = msg => /\ s.redeem = r
                                       /\ Values(s.form) = Granted([slot |-> slot, redeem |-> r, val |-> val, ver |-> ver]),
         \A s \in sigs : s.form = form /\ s.redeem = r => s.msg = msg,
         form.ver = ver
  PROVE  BoundByQuorum' /\ QuorumNotRefused'
<1> DEFINE valid == {s \in S : s.msg = msg /\ s.key \in KeysOf(r)}
           next == Cardinality({b \in bound : b.slot = slot /\ b.redeem = r})
           Q == {s.key : s \in valid}
           new == [slot |-> slot, redeem |-> r, val |-> val, ver |-> ver]
           good == r # Empty /\ Cardinality(Q) >= r.req /\ ver = next
<1>1. PICK ok \in BOOLEAN :
        /\ ok => good
        /\ good /\ S = valid => ok
        /\ bound' = IF ok THEN bound \cup {new} ELSE bound
        /\ last' = IF ok THEN NoSubmission
                   ELSE [form |-> form, redeem |-> r, sigs |-> S, next |-> next]
  BY DEF Consider
<1> HIDE DEF next
<1>2. BoundByQuorum'
  <2> SUFFICES ASSUME NEW b \in bound'
               PROVE  \E K \in SUBSET KeysOf(b.redeem) :
                        /\ Cardinality(K) >= b.redeem.req
                        /\ \A w \in K : \E s \in sigs : s.key = w /\ s.redeem = b.redeem /\ Values(s.form) = Granted(b)
    BY DEF BoundByQuorum, Values, Granted, KeysOf
  <2>1. CASE b \in bound
    BY <2>1 DEF BoundByQuorum
  <2>2. CASE ok /\ b = new
    <3>1. Q \in SUBSET KeysOf(r) /\ Cardinality(Q) >= r.req
      BY <1>1, <2>2
    <3>2. ASSUME NEW w \in Q
          PROVE  \E s \in sigs : s.key = w /\ s.redeem = r /\ Values(s.form) = Granted(new)
      BY <3>2
    <3>3. b.redeem = r
      BY <2>2
    <3> QED
      BY <2>2, <3>1, <3>2, <3>3
  <2> QED
    BY <1>1, <2>1, <2>2
<1>3. QuorumNotRefused'
  <2>1. CASE ok
    BY <1>1, <2>1 DEF QuorumNotRefused, NoSubmission
  <2>2. CASE ~ok
    <3>1. last'.form = form /\ last'.redeem = r /\ last'.sigs = S /\ last'.next = next
      BY <1>1, <2>2
    <3> SUFFICES ASSUME r # Empty,
                        \A s \in S : s.form = form /\ s.redeem = r /\ s.key \in KeysOf(r),
                        Cardinality({s.key : s \in S}) >= r.req,
                        ver = next
                 PROVE  FALSE
      BY <3>1 DEF QuorumNotRefused, KeysOf
    <3>2. S = valid
      OBVIOUS
    <3>3. Q = {s.key : s \in S}
      BY <3>2
    <3> QED
      BY <1>1, <2>2, <3>2, <3>3
  <2> QED
    BY <2>1, <2>2
<1> QED
  BY <1>2, <1>3

LEMMA SetContractStep ==
  ASSUME GovInv, NEW v \in Vendors, HandleSetContract(v)
  PROVE  GovInv'
<1>1. PICK form \in ContractForms, S \in SUBSET sigs \ {{}} :
        /\ Submits(form)
        /\ SetContract(form, form.contract, redeem[v], S, ParseUint(form.ver), ParseUint(form.chainid))
  BY DEF HandleSetContract
<1> DEFINE r == redeem[v]
           msg == <<r, 1, form.contract, form.chainid, form.ver>>
<1>2. Parses(form) /\ UNCHANGED sigs
  BY <1>1 DEF Submits
<1>3. Consider(form, <<"contract", form.chainid>>, <<form.contract>>, form.ver, r, msg, S)
  BY <1>1, <1>2, ParsedContract DEF SetContract, RegisterRedeem
<1>4. ASSUME NEW s \in sigs, s.msg = msg
      PROVE  /\ s.redeem = r
             /\ Values(s.form) = Granted([slot |-> <<"contract", form.chainid>>, redeem |-> r,
                                          val |-> <<form.contract>>, ver |-> form.ver])
  <2>1. s.redeem = r /\ Values(s.form) = Values(form)
    BY <1>4, FormMessages, SameMessage DEF GovInv, SigInv
  <2> QED
    BY <2>1, GovAssumption DEF Values, Granted
<1>5. ASSUME NEW s \in sigs, s.form = form, s.redeem = r
      PROVE  s.msg = msg
  BY <1>5, FormMessages DEF GovInv, SigInv
<1>6. BoundByQuorum' /\ QuorumNotRefused'
  <2> HIDE DEF r, msg
  <2> QED
    BY <1>2, <1>3, <1>4, <1>5, ConsiderStep DEF GovInv
<1> QED
  BY <1>2, <1>6 DEF GovInv, SigInv, Parses, Message, Values

LEMMA SetParamStep ==
  ASSUME GovInv, NEW v \in Vendors, HandleSetParam(v)
  PROVE  GovInv'
<1>1. PICK form \in ParamForms, S \in SUBSET sigs \ {{}} :
        /\ Submits(form)
        /\ SetParam(form, ParseUint(form.fr), ParseUint(form.mc), ParseUint(form.ver), redeem[v], S)
  BY DEF HandleSetParam
<1> DEFINE r == redeem[v]
           msg == <<r, 1, form.fr, form.mc, form.ver>>
<1>2. Parses(form) /\ UNCHANGED sigs
  BY <1>1 DEF Submits
<1>3. Consider(form, <<"param">>, <<form.fr, form.mc>>, form.ver, r, msg, S)
  BY <1>1, <1>2, ParsedParam DEF SetParam, SetBtcTxParam
<1>4. ASSUME NEW s \in sigs, s.msg = msg
      PROVE  /\ s.redeem = r
             /\ Values(s.form) = Granted([slot |-> <<"param">>, redeem |-> r,
                                          val |-> <<form.fr, form.mc>>, ver |-> form.ver])
  <2>1. s.redeem = r /\ Values(s.form) = Values(form)
    BY <1>4, FormMessages, SameMessage DEF GovInv, SigInv
  <2> QED
    BY <2>1, GovAssumption DEF Values, Granted
<1>5. ASSUME NEW s \in sigs, s.form = form, s.redeem = r
      PROVE  s.msg = msg
  BY <1>5, FormMessages DEF GovInv, SigInv
<1>6. BoundByQuorum' /\ QuorumNotRefused'
  <2> HIDE DEF r, msg
  <2> QED
    BY <1>2, <1>3, <1>4, <1>5, ConsiderStep DEF GovInv
<1> QED
  BY <1>2, <1>6 DEF GovInv, SigInv, Parses, Message, Values

(* A signature made is never taken back: what is bound stays justified.    *)
LEMMA BoundStays ==
  ASSUME BoundByQuorum, UNCHANGED bound, sigs \subseteq sigs'
  PROVE  BoundByQuorum'
<1> SUFFICES ASSUME NEW b \in bound
             PROVE  \E Q \in SUBSET KeysOf(b.redeem) :
                      /\ Cardinality(Q) >= b.redeem.req
                      /\ \A w \in Q : \E s \in sigs' :
                           s.key = w /\ s.redeem = b.redeem /\ Values(s.form) = Granted(b)
  BY DEF BoundByQuorum, Values, Granted, KeysOf
<1>1. PICK Q \in SUBSET KeysOf(b.redeem) :
        /\ Cardinality(Q) >= b.redeem.req
        /\ \A w \in Q : \E s \in sigs :
             s.key = w /\ s.redeem = b.redeem /\ Values(s.form) = Granted(b)
  BY DEF BoundByQuorum
<1> QED
  BY <1>1

(* The invariant is about the signatures, what is bound and the last       *)
(* submission.                                                             *)
LEMMA SameSignatures ==
  ASSUME GovInv, UNCHANGED <<sigs, bound, last>>
  PROVE  GovInv'
<1>1. SigInv'
  BY DEF GovInv, SigInv, Parses, Message, Values
<1>2. BoundByQuorum'
  BY BoundStays DEF GovInv
<1>3. QuorumNotRefused'
  BY DEF GovInv, QuorumNotRefused, KeysOf
<1> QED
  BY <1>1, <1>2, <1>3 DEF GovInv

(* The inductive invariant: signatures are what their forms say, what Poly *)
(* has bound a quorum asked for, and a quorum is not refused.              *)
THEOREM GovInvariant == GovSpec => []GovInv
<1>1. GovInit => GovInv
  BY DEF GovInit, GovInv, SigInv, BoundByQuorum, QuorumNotRefused, NoSubmission
<1>2. GovInv /\ [GovNext]_govVars => GovInv'
  <2> SUFFICES ASSUME GovInv, [GovNext]_govVars
               PROVE  GovInv'
    OBVIOUS
  <2>1. ASSUME NEW v \in Vendors, GeneRedeem(v) PROVE GovInv'
    <3>1. UNCHANGED <<sigs, bound, last>>
      BY <2>1 DEF GeneRedeem
    <3> QED
      BY <3>1, SameSignatures
  <2>2. ASSUME NEW v \in Vendors, HandleSignContract(v) \/ HandleSignParam(v) PROVE GovInv'
    <3>1. SigInv' /\ sigs \subseteq sigs' /\ UNCHANGED <<bound, last>>
      BY <2>2, SignStep DEF GovInv
    <3>2. BoundByQuorum'
      BY <3>1, BoundStays DEF GovInv
    <3> QED
      BY <3>1, <3>2 DEF GovInv, QuorumNotRefused, KeysOf
  <2>3. ASSUME NEW v \in Vendors, HandleSetContract(v) PROVE GovInv'
    BY <2>3, SetContractStep
  <2>4. ASSUME NEW v \in Vendors, HandleSetParam(v) PROVE GovInv'
    BY <2>4, SetParamStep
  <2>5. CASE UNCHANGED govVars
    <3>1. UNCHANGED <<sigs, bound, last>>
      BY <2>5 DEF govVars
    <3> QED
      BY <3>1, SameSignatures
  <2> QED
    BY <2>1, <2>2, <2>3, <2>4, <2>5
       DEF GovNext, HandleFuncSignContract, HandleFuncSignParam, HandleFuncSetContract, HandleFuncSetParam
<1> QED
  BY <1>1, <1>2, PTL DEF GovSpec

(* What Poly has bound to a redeem script, a quorum of its vendors has     *)
(* each filled in and signed with the very same values.                    *)
THEOREM OnlyWhatAQuorumSigned == GovSpec => []BoundByQuorum
BY GovInvariant, PTL DEF GovInv

(* A quorum's signatures, submitted with the form and the redeem script    *)
(* they were made with and the next version, are not refused.              *)
THEOREM AgreedFormsAreAccepted == GovSpec => []QuorumNotRefused
BY GovInvariant, PTL DEF GovInv
=============================================================================
