---------------------------- MODULE MCSplitMode ----------------------------
(* The split modes, for TLC. *)
EXTENDS SplitMode, TLC
=============================================================================
