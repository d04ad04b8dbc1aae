----------------------------- MODULE MCTopology -----------------------------
(***************************************************************************)
(* Small networks to check the editor on.                                   *)
(***************************************************************************)
EXTENDS TopologyProps, TLC

CONSTANTS p1, p2, p3

Users == Permutations(Actor)

NodeAt(p) == [pos |-> p, removed |-> FALSE, stamp |-> 0]

LineFrom(x, y, sign, p, q) ==
  [n1 |-> x, n2 |-> y, sign |-> sign, shape |-> [start |-> p, via |-> 0, finish |-> q],
   removed |-> FALSE, stamp |-> 0]

PipeFrom(p, q) == [len |-> [ends |-> {p, q}, via |-> 0], removed |-> FALSE]

\* The rows given, every other one absent.
Network(rows) == [k \in Key |-> IF k \in DOMAIN rows THEN rows[k] ELSE NULL]

\* Two nodes without a pipe.
TwoNodes == Network(
  Node(1) :> NodeAt(p1) @@ Node(2) :> NodeAt(p2) @@ <<"heatsources", 1>> :> [nodeid |-> 1])

\* Two pipes in a row, a damper on the first one, a regulator at the end of the
\* second one.
\*    source 1 ---- 2 (pressure given) ---- 3 consumer
Chain == Network(
  Node(1) :> NodeAt(p1) @@ Node(2) :> NodeAt(p2) @@ Node(3) :> NodeAt(p3)
  @@ Line(1) :> LineFrom(1, 2, 0, p1, p2) @@ Pipe(1) :> PipeFrom(p1, p2)
  @@ Line(2) :> LineFrom(2, 3, 0, p2, p3) @@ Pipe(2) :> PipeFrom(p2, p3)
  @@ <<"pressregulators", 1>> :> [lineid |-> 2, nodeid |-> 3]
  @@ <<"dampers", 1>> :> [lineid |-> 1, nodeid |-> NULL]
  @@ <<"heatsources", 1>> :> [nodeid |-> 1] @@ <<"realconsumers", 2>> :> [nodeid |-> 3]
  @@ <<FlagTable, 3>> :> [nodeid |-> 2])

\* A supply and a return pipe along the same route, twice.
\*    1 ~~~ 2 ~~~ 3 (consumer)
TwoPipes == Network(
  Node(1) :> NodeAt(p1) @@ Node(2) :> NodeAt(p2) @@ Node(3) :> NodeAt(p3)
  @@ Line(1) :> LineFrom(1, 2, 2, p1, p2) @@ Pipe(1) :> PipeFrom(p1, p2)
  @@ Line(2) :> LineFrom(1, 2, 3, p1, p2) @@ Pipe(2) :> PipeFrom(p1, p2)
  @@ Line(3) :> LineFrom(2, 3, 2, p2, p3) @@ Pipe(3) :> PipeFrom(p2, p3)
  @@ Line(4) :> LineFrom(2, 3, 3, p2, p3) @@ Pipe(4) :> PipeFrom(p2, p3)
  @@ <<"realconsumers", 1>> :> [nodeid |-> 3])
=============================================================================
