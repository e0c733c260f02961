--------------------------- MODULE SigningService ---------------------------
(***************************************************************************)
(* What the vendor tool does for Poly and for its vendor, seen from the    *)
(* outside: it signs what Poly asks for and nothing else, keeps a record   *)
(* of each transaction once its signatures are with Poly, and closes the   *)
(* record once Poly says that the transaction has its quorum.  Nothing of  *)
(* this is ever undone, by a crash least of all, and done again at most    *)
(* without effect.  How far the tool has got with a transaction is not     *)
(* seen; VendorTool is shown to implement it.                              *)
(***************************************************************************)
CONSTANTS
    Txs,            \* the unlock transactions
    OthersQuorum    \* those the other signers can complete alone

VARIABLES
    asked,          \* transactions Poly wants signed (makeBtcTx)
    completed,      \* those that have their quorum (btcTxToRelay)
    signed,         \* those for which Poly has this vendor's signatures
    record          \* what the vendor's store says of each

serviceVars == <<asked, completed, signed, record>>

ServiceInit ==
    /\ asked = {}
    /\ completed = {}
    /\ signed = {}
    /\ record = [t \in Txs |-> "none"]

(* Poly creates transactions, and completes what was created before. *)
PolyMoves ==
    /\ asked \subseteq asked' /\ asked' \subseteq Txs
    /\ completed \subseteq completed'
    /\ completed' \ completed \subseteq asked \cap (signed \cup OthersQuorum)
    /\ UNCHANGED <<signed, record>>

(* The signatures for a transaction reach Poly. *)
Sign(t) ==
    /\ t \in asked
    /\ signed' = signed \cup {t}
    /\ UNCHANGED <<asked, completed, record>>

OpenRecord(t) ==
    /\ t \in signed
    /\ record[t] = "none"
    /\ record' = [record EXCEPT ![t] = "open"]
    /\ UNCHANGED <<asked, completed, signed>>

CloseRecord(t) ==
    /\ t \in completed
    /\ record[t] = "open"
    /\ record' = [record EXCEPT ![t] = "done"]
    /\ UNCHANGED <<asked, completed, signed>>

ServiceNext == PolyMoves \/ \E t \in Txs : Sign(t) \/ OpenRecord(t) \/ CloseRecord(t)

ServiceSpec == ServiceInit /\ [][ServiceNext]_serviceVars
=============================================================================
