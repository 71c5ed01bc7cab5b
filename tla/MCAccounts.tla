----------------------------- MODULE MCAccounts -----------------------------
(***************************************************************************)
(* Small instances of Accounts for TLC: the founder and one account per    *)
(* call.                                                                   *)
(***************************************************************************)
EXTENDS Accounts, TLC

Interchangeable == Permutations(Requests) \cup Permutations(Calls)
=============================================================================
