---------------------------- MODULE TopologyRows ----------------------------
(***************************************************************************)
(* The rows the network editor works on, as a value.  A database is a       *)
(* function from the keys "table:id" of the undo journal                    *)
(* (database/topology_journal.py, key) to a row or to NULL, the row that is *)
(* not there.  Every operator here takes the database as a parameter and    *)
(* returns a set of ids or a new database: one operator per SQL statement   *)
(* or per report the operations share.                                      *)
(*                                                                          *)
(* Data is abstracted to what the properties tell apart.  A node has a      *)
(* position; a line has the positions of its two ends and whether it has    *)
(* interior vertices; a pipe passport (one per line, under the line's id)   *)
(* has the length measured on that geometry.  Of the tables that refer to   *)
(* a line or a node one is kept per transfer class: pressregulators (NODE   *)
(* and MULTI), dampers (REVIEW), heatsources (a type card, SINGLETON),      *)
(* realconsumers (a type card, MULTI), setpressnodes (a flag, SINGLETON).   *)
(***************************************************************************)
EXTENDS Integers, FiniteSets

CONSTANTS
  MaxNode, MaxLine, MaxCard,  \* ids the sequences may hand out
  MaxEquip,                   \* ids of the equipment rows, which are only moved
  MaxOps,                     \* operations of a behaviour
  MaxClock,                   \* its transactions, also the times they take
  Pos,                        \* positions in the plane
  NULL                        \* no row, or SQL NULL in a column

ASSUME BoundsAssumption ==
  /\ MaxNode \in Nat /\ MaxLine \in Nat /\ MaxCard \in Nat
  /\ MaxEquip \in Nat /\ MaxOps \in Nat /\ MaxClock \in Nat

NodeId  == 1 .. MaxNode
LineId  == 1 .. MaxLine
CardId  == 1 .. MaxCard
EquipId == 1 .. MaxEquip
Stamp   == 0 .. MaxClock     \* archivechangedate

TypeTable == {"realconsumers", "heatsources"}
FlagTable == "setpressnodes"
SingletonTable == {"heatsources", FlagTable}
EquipTable == {"pressregulators", "dampers"}

Node(n) == <<"nodes", n>>
Line(l) == <<"linesobj", l>>
Pipe(l) == <<"heatpipesections", l>>

NodeKeys  == {Node(n) : n \in NodeId}
LineKeys  == {Line(l) : l \in LineId}
PipeKeys  == {Pipe(l) : l \in LineId}
EquipKeys == EquipTable \X EquipId
TypeKeys  == TypeTable \X CardId
FlagKeys  == {FlagTable} \X CardId
Key == NodeKeys \cup LineKeys \cup PipeKeys \cup EquipKeys \cup TypeKeys \cup FlagKeys

(***************************************************************************)
(* Rows.                                                                    *)
(***************************************************************************)
Sign   == {0, 2, 3, 4, 5}    \* externalsignlineid; 0 is NULL
Shape  == [start : Pos, via : {0, 1}, finish : Pos]
Measure == [ends : SUBSET Pos, via : {0, 1}]

NodeRow  == [pos : Pos, removed : BOOLEAN, stamp : Stamp]
LineRow  == [n1 : NodeId, n2 : NodeId, sign : Sign, shape : Shape,
             removed : BOOLEAN, stamp : Stamp]
PipeRow  == [len : Measure, removed : BOOLEAN]
EquipRow == [lineid : LineId, nodeid : NodeId \cup {NULL}]
CardRow  == [nodeid : NodeId]

ASSUME NullAssumption ==
  /\ NULL \notin NodeRow /\ NULL \notin LineRow /\ NULL \notin PipeRow
  /\ NULL \notin EquipRow /\ NULL \notin CardRow /\ NULL \notin NodeId

\* A node of no type ("US") has no table.
ASSUME NoTypeAssumption == NULL \notin TypeTable

RowOk(k, r) ==
  \/ r = NULL
  \/ k \in NodeKeys /\ r \in NodeRow
  \/ k \in LineKeys /\ r \in LineRow
  \/ k \in PipeKeys /\ r \in PipeRow
  \/ k \in EquipKeys /\ r \in EquipRow
  \/ k \in TypeKeys \cup FlagKeys /\ r \in CardRow

DbOk(d) == DOMAIN d = Key /\ \A k \in Key : RowOk(k, d[k])

\* ST_Length of a geometry: the same in both directions, different once an end
\* or the interior vertices change.
Length(s) == [ends |-> {s.start, s.finish}, via |-> s.via]

(***************************************************************************)
(* Reading a database.                                                      *)
(***************************************************************************)
Active(d, k) == d[k] # NULL /\ ~d[k].removed

Ends(d, l) == {d[Line(l)].n1, d[Line(l)].n2}

\* All the lines at a node, removed ones too.
Incident(d, n) == {l \in LineId : d[Line(l)] # NULL /\ n \in Ends(d, l)}

\* The active ones.
ActiveIncident(d, n) == {l \in Incident(d, n) : ~d[Line(l)].removed}

OnLine(d, l) == {k \in EquipKeys : d[k] # NULL /\ d[k].lineid = l}
TypesAt(d, n) == {k \in TypeKeys : d[k] # NULL /\ d[k].nodeid = n}
FlagsAt(d, n) == {k \in FlagKeys : d[k] # NULL /\ d[k].nodeid = n}

\* node_dependency_report: every row whose nodeid is the node, lines apart.
NodeRefs(d, n) ==
  {k \in EquipKeys \cup TypeKeys \cup FlagKeys : d[k] # NULL /\ d[k].nodeid = n}

PairSign == [s \in Sign |-> CASE s = 2 -> 3 [] s = 3 -> 2 [] OTHER -> 0]
SwapSign == [s \in Sign |-> CASE s = 4 -> 5 [] s = 5 -> 4 [] OTHER -> s]

\* find_pair_line: the supply/return twin along the same route, at most one.
Pairs(d, l) ==
  {b \in LineId \ {l} :
     /\ Active(d, Line(l)) /\ Active(d, Line(b))
     /\ d[Line(l)].sign \in {2, 3}
     /\ d[Line(b)].sign = PairSign[d[Line(l)].sign]
     /\ d[Line(b)].n1 = d[Line(l)].n1 /\ d[Line(b)].n2 = d[Line(l)].n2
     /\ d[Line(b)].shape = d[Line(l)].shape}
FindPair(d, l) == {b \in Pairs(d, l) : \A c \in Pairs(d, l) : b <= c}

LineKeysOf(L) == {Line(l) : l \in L}
PipeKeysOf(d, L) == {k \in {Pipe(l) : l \in L} : d[k] # NULL}

(***************************************************************************)
(* Writing: one operator per SQL statement that several operations issue.   *)
(***************************************************************************)
Update(d, S, F(_)) == [k \in Key |-> IF k \in S THEN F(k) ELSE d[k]]

\* UPDATE linesobj SET removed = 1 ...; _soft_remove_heatpipesections
RemoveLines(d, L, now) ==
  Update(Update(d, LineKeysOf(L),
                LAMBDA k : [d[k] EXCEPT !.removed = TRUE, !.stamp = now]),
         PipeKeysOf(d, L),
         LAMBDA k : [d[k] EXCEPT !.removed = TRUE])

RemoveNode(d, n, now) ==
  Update(d, {Node(n)}, LAMBDA k : [d[k] EXCEPT !.removed = TRUE, !.stamp = now])

\* UPDATE linesobj SET shape = ST_SetPoint(...): the ends of the lines L that
\* are attached to the node n are put at its position.
Snapped(d, r, n) ==
  LET at(id, p) == IF id = n THEN d[Node(n)].pos ELSE p IN
  [start |-> at(r.n1, r.shape.start), via |-> r.shape.via, finish |-> at(r.n2, r.shape.finish)]

SnapEnds(d, L, n, now) ==
  Update(d, LineKeysOf(L),
         LAMBDA k : [d[k] EXCEPT !.shape = Snapped(d, d[k], n), !.stamp = now])

\* UPDATE heatpipesections SET pipesectlength = length of the line's geometry
Measured(d, L) ==
  Update(d, PipeKeysOf(d, L),
         LAMBDA k : [d[k] EXCEPT !.len = Length(d[Line(k[2])].shape)])

\* The image of some rows, as the journal keeps it, and its inverse.
Image(d, S) == [k \in S |-> d[k]]
Restore(d, image) == Update(d, DOMAIN image, LAMBDA k : image[k])

(***************************************************************************)
(* Merging and dissolving nodes.                                            *)
(***************************************************************************)
\* The active lines between two nodes.
Connecting(d, t, s) == {l \in ActiveIncident(d, s) : t \in Ends(d, l)}

\* UPDATE linesobj SET nodeid1 = t WHERE nodeid1 = s, and for nodeid2
Relinked(d, L, t, s) ==
  Update(d, LineKeysOf(L),
         LAMBDA k : [d[k] EXCEPT !.n1 = IF @ = s THEN t ELSE @,
                                 !.n2 = IF @ = s THEN t ELSE @])

Other(d, l, n) == IF d[Line(l)].n1 = n THEN d[Line(l)].n2 ELSE d[Line(l)].n1

\* dissolve_plan: the lines of the node in two groups by their other end; the
\* group of the first line is kept, each of its lines goes on with the line of
\* the same sign of the other group.
KeptLines(d, n) ==
  LET inc   == ActiveIncident(d, n)
      first == {l \in inc : \A m \in inc : l <= m}
  IN {l \in inc : \E f \in first : Other(d, l, n) = Other(d, f, n)}

Joins(d, n) ==
  LET kept == KeptLines(d, n)
  IN {j \in kept \X (ActiveIncident(d, n) \ kept) : d[Line(j[1])].sign = d[Line(j[2])].sign}

Dissolvable(d, n) ==
  LET inc  == ActiveIncident(d, n)
      kept == KeptLines(d, n)
  IN /\ NodeRefs(d, n) = {}
     /\ n \notin {Other(d, l, n) : l \in inc}
     /\ Cardinality({Other(d, l, n) : l \in inc}) = 2
     /\ Cardinality(kept) \in {1, 2} /\ Cardinality(inc) = 2 * Cardinality(kept)
     /\ \A l \in kept : \E j \in Joins(d, n) : j[1] = l
     /\ Cardinality(kept) = 2 => \A l \in kept : FindPair(d, l) # {}
     /\ \A l \in inc : OnLine(d, l) = {}

\* A bug: the kept line is taken to end at the node, whichever way it runs.
JoinedForward(d, j, n, now) ==
  LET keep == d[Line(j[1])]
      rest == d[Line(j[2])]
      last == IF rest.n1 = n THEN rest.shape.finish ELSE rest.shape.start
  IN [keep EXCEPT !.n2 = Other(d, j[2], n), !.stamp = now,
        !.shape = [start |-> @.start, via |-> 1, finish |-> last]]

\* _join: the row of the kept line, which takes over the far end of the removed
\* one.  The place of the node stays in the geometry as an interior vertex.
Joined(d, j, n, now) ==
  LET keep  == d[Line(j[1])]
      rest  == d[Line(j[2])]
      first == IF rest.n2 = n THEN rest.shape.start ELSE rest.shape.finish
      last  == IF rest.n1 = n THEN rest.shape.finish ELSE rest.shape.start
  IN IF keep.n2 = n
     THEN [keep EXCEPT !.n2 = Other(d, j[2], n), !.stamp = now,
             !.shape = [start |-> @.start, via |-> 1, finish |-> last]]
     ELSE [keep EXCEPT !.n1 = Other(d, j[2], n), !.stamp = now,
             !.shape = [start |-> first, via |-> 1, finish |-> @.finish]]

\* The lines that are kept, each going on to the far end of its other half.
Extended(d, joins, n, now) ==
  [k \in Key |-> IF \E j \in joins : k = Line(j[1])
                 THEN Joined(d, CHOOSE j \in joins : k = Line(j[1]), n, now)
                 ELSE d[k]]

(***************************************************************************)
(* What the operations of topology.py and topology_dissolve.py do to the    *)
(* rows, all their statements together.                                     *)
(***************************************************************************)
\* move_node: the ends of every line at the node follow it, removed lines too,
\* and the passports' lengths follow the lines.
NodeMoved(d, n, p, now) ==
  LET inc == Incident(d, n)
      d1  == Update(d, {Node(n)}, LAMBDA k : [d[k] EXCEPT !.pos = p, !.stamp = now])
  IN Measured(SnapEnds(d1, inc, n, now), inc)

NodeDeleted(d, n, now) == RemoveNode(RemoveLines(d, ActiveIncident(d, n), now), n, now)

NewLine(d, l, x, y, now) ==
  LET shape == [start |-> d[Node(x)].pos, via |-> 0, finish |-> d[Node(y)].pos] IN
  Update(Update(d, {Line(l)},
                LAMBDA k : [n1 |-> x, n2 |-> y, sign |-> 0, shape |-> shape,
                            removed |-> FALSE, stamp |-> now]),
         {Pipe(l)},
         LAMBDA k : [len |-> Length(shape), removed |-> FALSE])

\* split_line: a new node at p, the line is cut to end there, the new half goes
\* on to the old end and gets a copy of the passport.  Regulators that stand at
\* the old end follow it; of the dampers the operator moves some.  via1 and via2
\* say on which half the interior vertices are.
Halves(d, l, n, m, p, via1, via2, now) ==
  LET old  == d[Line(l)]
      d1   == Update(d, {Node(n)}, LAMBDA k : [pos |-> p, removed |-> FALSE, stamp |-> now])
      d2   == Update(d1, {Line(m)},
                     LAMBDA k : [old EXCEPT !.n1 = n, !.stamp = now,
                                   !.shape = [start |-> p, via |-> via2, finish |-> @.finish]])
      d3   == Update(d2, {Line(l)},
                     LAMBDA k : [old EXCEPT !.n2 = n, !.stamp = now,
                                   !.shape = [start |-> @.start, via |-> via1, finish |-> p]])
  IN Measured(Update(d3, {Pipe(m)}, LAMBDA k : d3[Pipe(l)]), {l, m})

\* A bug: the nodes change places, the geometry stays.
TurnedNodes(d, L, now) ==
  Update(d, LineKeysOf(L),
         LAMBDA k : [d[k] EXCEPT !.n1 = d[k].n2, !.n2 = d[k].n1, !.sign = SwapSign[@], !.stamp = now])

\* reverse_line: the line and, if asked, its pair
Turned(d, L, now) ==
  Update(d, LineKeysOf(L),
         LAMBDA k : [d[k] EXCEPT !.n1 = d[k].n2, !.n2 = d[k].n1, !.sign = SwapSign[@],
                       !.shape = [start |-> @.finish, via |-> @.via, finish |-> @.start],
                       !.stamp = now])

\* update_line_geometry: new interior vertices; the ends are put at the nodes.
Reshaped(d, l, via, now) ==
  LET d1 == Update(d, {Line(l)}, LAMBDA k : [d[k] EXCEPT !.shape.via = via])
  IN Measured(SnapEnds(SnapEnds(d1, {l}, d[Line(l)].n1, now), {l}, d[Line(l)].n2, now), {l})

\* merge_nodes: the lines between the nodes are removed, the other active lines
\* of the source are attached to the target, every reference moves with them.
\* Left out: the lines and nodes of internal schemes (internalnodeid).
NodesMerged(d, t, s, now) ==
  LET gone  == Connecting(d, t, s)
      lines == ActiveIncident(d, s) \ gone
      d1    == SnapEnds(Relinked(RemoveLines(d, gone, now), lines, t, s), lines, t, now)
      d2    == Measured(d1, lines)
      d3    == Update(d2, NodeRefs(d, s), LAMBDA k : [d2[k] EXCEPT !.nodeid = t])
      d4    == Update(d3, {Node(t)}, LAMBDA k : [d3[k] EXCEPT !.stamp = now])
  IN RemoveNode(d4, s, now)

\* dissolve_node
NodeDissolved(d, n, now) ==
  LET joins == Joins(d, n)
      d1    == Measured(Extended(d, joins, n, now), {j[1] : j \in joins})
  IN RemoveNode(RemoveLines(d1, {j[2] : j \in joins}, now), n, now)

(***************************************************************************)
(* What a consistent network is.                                            *)
(***************************************************************************)
\* An active line connects two nodes that exist and are not removed.
EndsOk(d) ==
  \A l \in LineId : Active(d, Line(l)) => \A n \in Ends(d, l) : Active(d, Node(n))

\* The geometry of an active line ends at its nodes.
GeometryOk(d) ==
  \A l \in LineId : Active(d, Line(l)) =>
    /\ d[Node(d[Line(l)].n1)] # NULL => d[Node(d[Line(l)].n1)].pos = d[Line(l)].shape.start
    /\ d[Node(d[Line(l)].n2)] # NULL => d[Node(d[Line(l)].n2)].pos = d[Line(l)].shape.finish

\* The passport's length is the length of the line's geometry.
LengthOk(d) ==
  \A l \in LineId :
    d[Line(l)] # NULL /\ d[Pipe(l)] # NULL => d[Pipe(l)].len = Length(d[Line(l)].shape)

\* The line a piece of equipment is on is there; a regulator on an active line
\* stands at one of the line's ends.
RegulatorsOk(d) ==
  \A k \in EquipKeys :
    d[k] # NULL =>
      /\ d[Line(d[k].lineid)] # NULL
      /\ k[1] = "pressregulators" /\ d[k].nodeid # NULL /\ Active(d, Line(d[k].lineid))
           => d[k].nodeid \in Ends(d, d[k].lineid)

\* A card is of a node that is there, a node's cards are of one type (node_cards,
\* "conflict"), each flag is set once.
TypesOk(d) ==
  /\ \A k \in TypeKeys : d[k] # NULL => d[Node(d[k].nodeid)] # NULL
  /\ \A n \in NodeId : \A j, k \in TypesAt(d, n) : j[1] = k[1]
FlagsOk(d) == \A n \in NodeId : \A j, k \in FlagsAt(d, n) : j = k

NetworkOk(d) ==
  EndsOk(d) /\ GeometryOk(d) /\ LengthOk(d) /\ RegulatorsOk(d) /\ TypesOk(d) /\ FlagsOk(d)
=============================================================================
