------------------------------- MODULE MCCards ------------------------------
(***************************************************************************)
(* Rows of two columns, changes of one of them.                             *)
(***************************************************************************)
EXTENDS CardEdit, TLC

SetFirst == [diameter |-> 1, site |-> Keep]
SetSecond == [diameter |-> Keep, site |-> 1]

MCChange == {SetFirst, SetSecond}

Alike == Permutations(Tx)

\* A bound: a card makes the same change in each of its rows.
OneChange == \A t \in Tx : kind[t] = "save" => \A x, y \in Asks(t) : raw[t][x] = raw[t][y]
=============================================================================
