------------------------------ MODULE MCStatus ------------------------------
(***************************************************************************)
(* Small sets of accounts, processes and requests.                          *)
(***************************************************************************)
EXTENDS LiveStatus, TLC

Alike == Permutations(Process) \cup Permutations(Request) \cup Permutations(Account)
=============================================================================
