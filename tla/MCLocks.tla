------------------------------- MODULE MCLocks -------------------------------
(***************************************************************************)
(* Small networks to interleave transactions on.                            *)
(***************************************************************************)
EXTENDS TopologyLocks

CONSTANTS p1, p2, p3

Tabs == Permutations(Session)

NodeAt(p) == [pos |-> p, removed |-> FALSE, stamp |-> 0]

LineFrom(x, y, p, q) ==
  [n1 |-> x, n2 |-> y, sign |-> 0, shape |-> [start |-> p, via |-> 0, finish |-> q],
   removed |-> FALSE, stamp |-> 0]

\* The rows given, a passport for each line, every other row absent.
Network(rows) ==
  [k \in Key |->
     IF k \in DOMAIN rows THEN rows[k]
     ELSE IF k \in PipeKeys /\ Line(k[2]) \in DOMAIN rows
          THEN [len |-> Length(rows[Line(k[2])].shape), removed |-> rows[Line(k[2])].removed]
          ELSE NULL]

Nodes == Node(1) :> NodeAt(p1) @@ Node(2) :> NodeAt(p2) @@ Node(3) :> NodeAt(p3)

\*    1 ----> 2 ----> 3
Row == Network(Nodes @@ Line(1) :> LineFrom(1, 2, p1, p2) @@ Line(2) :> LineFrom(2, 3, p2, p3))

\*    1 ----> 2 ----> 3, back from 2 to 1, and a removed line from 3 to 1
Loop == Network(Nodes @@ Line(1) :> LineFrom(1, 2, p1, p2) @@ Line(2) :> LineFrom(2, 1, p2, p1)
                @@ Line(3) :> LineFrom(2, 3, p2, p3)
                @@ Line(4) :> [LineFrom(3, 1, p3, p1) EXCEPT !.removed = TRUE])
=============================================================================
