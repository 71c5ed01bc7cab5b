------------------------- MODULE MCKeysetPagination -------------------------
(***************************************************************************)
(* Small instances of KeysetPagination for TLC.                            *)
(***************************************************************************)
EXTENDS KeysetPagination
=============================================================================
