------------------------------ MODULE MCOutage ------------------------------
(***************************************************************************)
(* A ring with a source on it and another one on a spur.                    *)
(*                                                                          *)
(*    source n1 --l1-- n2 --l2-- n3 --l3-- n4 source    n2 --l4-- n4        *)
(***************************************************************************)
EXTENDS Outage, TLC

CONSTANTS n1, n2, n3, n4, l1, l2, l3, l4

Ring == l1 :> {n1, n2} @@ l2 :> {n2, n3} @@ l3 :> {n3, n4} @@ l4 :> {n2, n4}

Alike == Permutations(Request)

\* Open valves on l2 and inside n3 or none, and one on l3, open or closed.
Ringed ==
  {[lines |-> Line,
    valves |-> [x \in Line \cup Node |->
                  CASE x \in open -> {"open"} [] x = l3 -> states [] OTHER -> {}],
    sources |-> {n1, n4}] :
     open \in SUBSET {l2, n3}, states \in {{"open"}, {"closed"}}}
=============================================================================
