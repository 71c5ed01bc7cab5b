--------------------------- MODULE MCAuthSessions ---------------------------
(***************************************************************************)
(* Small instances of AuthSessions for TLC.                                *)
(***************************************************************************)
EXTENDS AuthSessions, TLC

Interchangeable == Permutations(Requests) \cup Permutations(Users)
=============================================================================
