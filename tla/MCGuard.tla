------------------------------ MODULE MCGuard -------------------------------
(***************************************************************************)
(* Two logins of one address.                                               *)
(***************************************************************************)
EXTENDS LoginGuard, TLC

CONSTANTS address

Limits == [k \in Key |-> IF k = address THEN 3 ELSE 2]

Alike == Permutations(Req) \cup Permutations(Login)
=============================================================================
