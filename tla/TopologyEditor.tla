--------------------------- MODULE TopologyEditor ---------------------------
(***************************************************************************)
(* The network editor of database/topology.py, node_types.py and            *)
(* topology_dissolve.py with its undo journal (topology_journal.py).        *)
(*                                                                          *)
(* An operation is one transaction, _run: it locks and checks the rows,     *)
(* captures the images of the rows it is about to change, changes them and  *)
(* adds an entry to the journal.  Here a transaction is one step; the       *)
(* statements of two transactions are interleaved in TopologyLocks.  The    *)
(* version a client may send with an object (expected_version) can only     *)
(* refuse an operation, so a step is an operation whose client sent none,   *)
(* or the current ones.                                                     *)
(***************************************************************************)
EXTENDS TopologyRows, Sequences

CONSTANTS
  Actor,      \* the users
  Ops,        \* the operations the users perform, of OpName
  InitialDb   \* the network the journal starts on

OpName == {"MOVE", "DELETE_NODE", "CREATE_NODE", "CREATE_LINE", "DELETE_LINE", "SPLIT",
           "MERGE", "REVERSE", "GEOMETRY", "DISSOLVE_NODE", "CHANGE_NODE_TYPE",
           "SET_NODE_FLAG", "UNDO", "REDO"}

ASSUME OpsAssumption == Ops \subseteq OpName
ASSUME InitialDbAssumption == DbOk(InitialDb) /\ NetworkOk(InitialDb)

\* Its rows were changed before the first transaction.
ASSUME InitialStampsAssumption ==
  \A k \in NodeKeys \cup LineKeys : InitialDb[k] # NULL => InitialDb[k].stamp = 0

VARIABLES
  db,         \* the rows
  journal,    \* topology_undo_log, by id
  seq,        \* the last id handed out by the sequences of nodes, lines and cards
  clock       \* now() of the next transaction

vars == <<db, journal, seq, clock>>

\* A sequence stands at the last id of the initial rows.
LastId(keys, m) ==
  /\ \A k \in keys : InitialDb[k] # NULL => k[2] <= m
  /\ m = 0 \/ \E k \in keys : InitialDb[k] # NULL /\ k[2] = m

Init ==
  /\ db = InitialDb
  /\ journal = <<>>
  /\ seq \in [node : 0 .. MaxNode, line : 0 .. MaxLine, card : 0 .. MaxCard]
  /\ LastId(NodeKeys, seq.node)
  /\ LastId(LineKeys \cup PipeKeys, seq.line)
  /\ LastId(TypeKeys \cup FlagKeys, seq.card)
  /\ clock = 1

(***************************************************************************)
(* The end of an operation's transaction: the new rows, and the entry with  *)
(* the images before and after of the captured and created rows.  The md5   *)
(* of an image is as good as the image.                                     *)
(***************************************************************************)
\* A bug: no hash is kept for a row the operation has deleted.
EntryRowsLeft(a, op, captured, d) ==
  [actor |-> a, op |-> op, created |-> clock, undone |-> 0,
   before |-> Image(db, captured), after |-> Image(d, {k \in captured : d[k] # NULL}),
   redo |-> NULL]

Entry(a, op, captured, d) ==
  [actor |-> a, op |-> op, created |-> clock, undone |-> 0,
   before |-> Image(db, captured), after |-> Image(d, captured), redo |-> NULL]

Commit(a, op, captured, d) ==
  /\ op \in Ops
  /\ clock <= MaxClock /\ Len(journal) < MaxOps
  /\ db' = d
  /\ journal' = Append(journal, Entry(a, op, captured, d))
  /\ clock' = clock + 1

\* The next ids the sequences give.
NextNode == seq.node + 1
NextLine == seq.line + 1
NextCard == seq.card + 1

\* A bug: the lines are captured without their passports.
LinesOnly(L) == LineKeysOf(L)

\* _capture_lines_with_passports
LinesWithPipes(L) == LineKeysOf(L) \cup PipeKeysOf(db, L)

\* A bug: as above, for the lines of a node.
IncidentLinesOnly(n) == LineKeysOf(Incident(db, n))

\* _capture_incident_lines
IncidentLines(n) == LinesWithPipes(Incident(db, n))

(***************************************************************************)
(* Nodes.                                                                   *)
(***************************************************************************)
\* The effect of each operation is the operator of TopologyRows it commits.
MoveNode(a, n, p) ==
  /\ Active(db, Node(n))
  /\ Commit(a, "MOVE", {Node(n)} \cup IncidentLines(n), NodeMoved(db, n, p, clock))
  /\ UNCHANGED seq

\* A node with lines or dependents is deleted only if the user asks for both.
DeleteNode(a, n, cascade) ==
  LET inc == ActiveIncident(db, n)
  IN /\ Active(db, Node(n))
     /\ cascade \/ (inc = {} /\ NodeRefs(db, n) = {})
     /\ Commit(a, "DELETE_NODE", {Node(n)} \cup LinesWithPipes(inc),
               NodeDeleted(db, n, clock))
     /\ UNCHANGED seq

\* insert_node_card: the card of a type, none for "US".
NewCards(table) ==
  IF table = NULL THEN {} ELSE {<<table, NextCard>>}

WithCards(d, keys, n) == Update(d, keys, LAMBDA k : [nodeid |-> n])

CreateNode(a, p, table) ==
  LET n     == NextNode
      cards == NewCards(table)
      d1    == Update(db, {Node(n)}, LAMBDA k : [pos |-> p, removed |-> FALSE, stamp |-> clock])
  IN /\ n \in NodeId /\ cards \subseteq TypeKeys
     /\ Commit(a, "CREATE_NODE", {Node(n)} \cup cards, WithCards(d1, cards, n))
     /\ seq' = [seq EXCEPT !.node = n, !.card = @ + Cardinality(cards)]

(***************************************************************************)
(* Lines.                                                                   *)
(***************************************************************************)
CreateLine(a, x, y) ==
  LET l == NextLine
  IN /\ x # y /\ Active(db, Node(x)) /\ Active(db, Node(y))
     /\ l \in LineId
     /\ Commit(a, "CREATE_LINE", {Line(l), Pipe(l)}, NewLine(db, l, x, y, clock))
     /\ seq' = [seq EXCEPT !.line = l]

DeleteLine(a, l, includePair) ==
  LET L == {l} \cup (IF includePair THEN FindPair(db, l) ELSE {})
  IN /\ Active(db, Line(l))
     /\ Commit(a, "DELETE_LINE", LinesWithPipes(L), RemoveLines(db, L, clock))
     /\ UNCHANGED seq

\* A bug: the regulators stay on the old half.
FollowsEndNone(d, l) == {}

\* transfer_dependents: the NODE rule, and the operator's answer for REVIEW
FollowsEnd(d, l) == {k \in OnLine(d, l) : k[1] = "pressregulators" /\ d[k].nodeid = d[Line(l)].n2}
Review(d, l)     == {k \in OnLine(d, l) : k[1] = "dampers"}

SplitCaptured(l, n, m) ==
  LinesWithPipes({l}) \cup OnLine(db, l) \cup {Node(n), Line(m), Pipe(m)}

SplitLine(a, l, p, via1, via2, toNew) ==
  LET n     == NextNode
      m     == NextLine
      moved == FollowsEnd(db, l) \cup toNew
      shape == db[Line(l)].shape
  IN /\ Active(db, Line(l)) /\ db[Pipe(l)] # NULL
     /\ p \notin {shape.start, shape.finish}
     /\ n \in NodeId /\ m \in LineId
     /\ IF shape.via = 0 THEN via1 = 0 /\ via2 = 0 ELSE via1 = 1 \/ via2 = 1
     /\ toNew \subseteq Review(db, l)
     /\ Commit(a, "SPLIT", SplitCaptured(l, n, m),
               Update(Halves(db, l, n, m, p, via1, via2, clock), moved,
                      LAMBDA k : [db[k] EXCEPT !.lineid = m]))
     /\ seq' = [seq EXCEPT !.node = n, !.line = m]

ReverseLine(a, l, includePair) ==
  LET L == {l} \cup (IF includePair THEN FindPair(db, l) ELSE {})
  IN /\ Active(db, Line(l))
     /\ Commit(a, "REVERSE", LineKeysOf(L), Turned(db, L, clock))
     /\ UNCHANGED seq

\* The end nodes are read to put the ends in place: removed or not, they are there.
UpdateGeometry(a, l, via) ==
  /\ Active(db, Line(l)) /\ \A n \in Ends(db, l) : db[Node(n)] # NULL
  /\ Commit(a, "GEOMETRY", LinesWithPipes({l}), Reshaped(db, l, via, clock))
  /\ UNCHANGED seq

(***************************************************************************)
(* Merging and dissolving nodes.                                            *)
(***************************************************************************)
\* plan_node_merge: a SINGLETON table both nodes are in
MergeConflict(d, t, s) ==
  \E table \in SingletonTable :
    /\ \E k \in NodeRefs(d, s) : k[1] = table
    /\ \E k \in NodeRefs(d, t) : k[1] = table

\* The lines between the two nodes must carry no equipment: they are removed.
MergeNodes(a, t, s) ==
  /\ t # s /\ Active(db, Node(t)) /\ Active(db, Node(s))
  /\ \A l \in Connecting(db, t, s) : OnLine(db, l) = {}
  /\ ~MergeConflict(db, t, s)
  /\ Commit(a, "MERGE",
            {Node(t), Node(s)} \cup LinesWithPipes(ActiveIncident(db, s)) \cup NodeRefs(db, s),
            NodesMerged(db, t, s, clock))
  /\ UNCHANGED seq

\* Of the lines of the node every one is in a join: kept or removed.
DissolveNode(a, n) ==
  LET lines == {j[1] : j \in Joins(db, n)} \cup {j[2] : j \in Joins(db, n)}
  IN /\ Active(db, Node(n)) /\ Dissolvable(db, n)
     /\ Commit(a, "DISSOLVE_NODE", {Node(n)} \cup LinesWithPipes(lines), NodeDissolved(db, n, clock))
     /\ UNCHANGED seq

(***************************************************************************)
(* The type of a node and its flag (node_types.py).                         *)
(***************************************************************************)
\* change_node_type: the cards go, but for the first one of the new type, or a
\* new card is made.  table is NULL for "US".  Left out: the internal scheme that
\* is removed with the type "PR".
ChangeNodeType(a, n, table) ==
  LET cards == TypesAt(db, n)
      same  == {k \in cards : k[1] = table}
      keep  == {k \in same : \A j \in same : k[2] <= j[2]}
      new   == IF keep = {} THEN NewCards(table) ELSE {}
      d1    == Update(db, cards \ keep, LAMBDA k : NULL)
      d2    == Update(d1, {Node(n)}, LAMBDA k : [d1[k] EXCEPT !.stamp = clock])
  IN /\ Active(db, Node(n))
     /\ {k[1] : k \in cards} # {table} \ {NULL}
     /\ new \subseteq TypeKeys
     /\ Commit(a, "CHANGE_NODE_TYPE", {Node(n)} \cup (cards \ keep) \cup new,
               WithCards(d2, new, n))
     /\ seq' = [seq EXCEPT !.card = @ + Cardinality(new)]

\* set_node_flag: adds or deletes the flag's row, the node's row is left alone.
SetFlag(a, n) ==
  LET k == <<FlagTable, NextCard>>
  IN /\ Active(db, Node(n)) /\ FlagsAt(db, n) = {} /\ k \in FlagKeys
     /\ Commit(a, "SET_NODE_FLAG", {k}, WithCards(db, {k}, n))
     /\ seq' = [seq EXCEPT !.card = NextCard]

ClearFlag(a, n) ==
  LET flags == FlagsAt(db, n)
  IN /\ Active(db, Node(n)) /\ flags # {}
     /\ Commit(a, "SET_NODE_FLAG", flags, Update(db, flags, LAMBDA k : NULL))
     /\ UNCHANGED seq

(***************************************************************************)
(* Undo and redo.                                                           *)
(***************************************************************************)
Mine(a) == {i \in DOMAIN journal : journal[i].actor = a}

\* A bug: the first one is taken.
UndoableFirst(a) ==
  LET live == {i \in Mine(a) : journal[i].undone = 0} IN
  {i \in live : \A j \in live : i <= j}

\* The user's last operation that is not undone.
Undoable(a) ==
  LET live == {i \in Mine(a) : journal[i].undone = 0} IN
  {i \in live : \A j \in live : j <= i}

\* A bug: a new operation does not close the redo.
ReopenedAlways(a) == {i \in Mine(a) : journal[i].undone # 0 /\ journal[i].redo # NULL}

\* _REDO_CANDIDATE_SQL: the last undone one, unless the user has a live
\* operation created after it was undone.
Reopened(a) ==
  {i \in Mine(a) :
     /\ journal[i].undone # 0 /\ journal[i].redo # NULL
     /\ ~\E j \in Mine(a) : journal[j].undone = 0 /\ journal[j].created > journal[i].undone}

Redoable(a) ==
  {i \in Reopened(a) : \A j \in Reopened(a) : journal[j].undone <= journal[i].undone}

\* A bug: the rows are not compared.
UnchangedUnchecked(image) == TRUE

\* changed_since finds nothing: the rows are as the image says.
Unchanged(image) == \A k \in DOMAIN image : db[k] = image[k]

Undo(a) ==
  /\ "UNDO" \in Ops /\ clock <= MaxClock
  /\ \E i \in Undoable(a) :
       /\ Unchanged(journal[i].after)
       /\ journal' = [journal EXCEPT ![i].undone = clock,
                                     ![i].redo = Image(db, DOMAIN journal[i].after)]
       /\ db' = Restore(db, journal[i].before)
  /\ clock' = clock + 1
  /\ UNCHANGED seq

Redo(a) ==
  /\ "REDO" \in Ops /\ clock <= MaxClock
  /\ \E i \in Redoable(a) :
       /\ Unchanged(journal[i].before)
       /\ journal' = [journal EXCEPT ![i].undone = 0]
       /\ db' = Restore(db, journal[i].redo)
  /\ clock' = clock + 1
  /\ UNCHANGED seq

(***************************************************************************)
(* The specification.                                                       *)
(***************************************************************************)
EditNode(a) ==
  \E n \in NodeId :
    \/ \E p \in Pos : MoveNode(a, n, p)
    \/ \E cascade \in BOOLEAN : DeleteNode(a, n, cascade)
    \/ \E s \in NodeId : MergeNodes(a, n, s)
    \/ DissolveNode(a, n)
    \/ \E table \in TypeTable \cup {NULL} : ChangeNodeType(a, n, table)
    \/ SetFlag(a, n)
    \/ ClearFlag(a, n)

EditLine(a) ==
  \E l \in LineId :
    \/ \E pair \in BOOLEAN : DeleteLine(a, l, pair)
    \/ \E pair \in BOOLEAN : ReverseLine(a, l, pair)
    \/ \E via \in {0, 1} : UpdateGeometry(a, l, via)
    \/ Active(db, Line(l)) /\ \E p \in Pos, via1, via2 \in {0, 1}, toNew \in SUBSET Review(db, l) :
          SplitLine(a, l, p, via1, via2, toNew)

Create(a) ==
  \/ \E p \in Pos, table \in TypeTable \cup {NULL} : CreateNode(a, p, table)
  \/ \E x, y \in NodeId : CreateLine(a, x, y)

Next == \E a \in Actor : EditNode(a) \/ EditLine(a) \/ Create(a) \/ Undo(a) \/ Redo(a)

Spec == Init /\ [][Next]_vars
=============================================================================
