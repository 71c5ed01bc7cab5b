---------------------------- MODULE MCApiServer ----------------------------
(***************************************************************************)
(* Small instances of ApiServer for TLC.                                   *)
(***************************************************************************)
EXTENDS ApiServer
=============================================================================
