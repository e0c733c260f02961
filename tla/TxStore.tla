------------------------------ MODULE TxStore ------------------------------
(***************************************************************************)
(* What db/db.go promises its callers: a durable record per signed         *)
(* transaction, opened once by PutSignedTx and closed by SetTxDone, never  *)
(* reopened and never dropped.  Either call may fail without effect; the   *)
(* callers log the error and go on.  VendorDB is shown to implement it.    *)
(***************************************************************************)
CONSTANTS
    Keys,       \* hashes of transactions without their scripts
    DbFails     \* whether a database call may fail

VARIABLE records    \* the durable record of each key

StoreInit == records = [k \in Keys |-> "none"]

(* Mutant: a record is written whether or not there is one. *)
PutSignedTxAgain(k) ==
    \/ records' = [records EXCEPT ![k] = "open"]
    \/ DbFails /\ UNCHANGED records

(* A key already known keeps its record. *)
PutSignedTx(k) ==
    \/ records' = [records EXCEPT ![k] = IF @ = "none" THEN "open" ELSE @]
    \/ DbFails /\ UNCHANGED records

(* An unknown key is an error and leaves no trace. *)
SetTxDone(k) ==
    \/ records' = [records EXCEPT ![k] = IF @ = "none" THEN "none" ELSE "done"]
    \/ DbFails /\ UNCHANGED records

StoreNext == \E k \in Keys : PutSignedTx(k) \/ SetTxDone(k)

StoreSpec == StoreInit /\ [][StoreNext]_records

StoreTypeOK == records \in [Keys -> {"none", "open", "done"}]
=============================================================================
