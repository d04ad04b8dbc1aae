--------------------------- MODULE TopologyProofs ---------------------------
(***************************************************************************)
(* Proofs about the editor, for every network, set of users and bound.      *)
(***************************************************************************)
EXTENDS TopologyProps, FiniteSetTheorems, SequenceTheorems, TLAPS

(***************************************************************************)
(* Keys and rows.                                                           *)
(***************************************************************************)
\* A key belongs to one table.
LEMMA KeyTables ==
  /\ \A n \in NodeId : Node(n) \in NodeKeys
  /\ \A l \in LineId : Line(l) \in LineKeys /\ Pipe(l) \in PipeKeys
  /\ \A k \in NodeKeys : k[1] = "nodes" /\ k[2] \in NodeId /\ k = Node(k[2])
  /\ \A k \in LineKeys : k[1] = "linesobj" /\ k[2] \in LineId /\ k = Line(k[2])
  /\ \A k \in PipeKeys : k[1] = "heatpipesections" /\ k[2] \in LineId /\ k = Pipe(k[2])
  /\ \A k \in EquipKeys : k[1] \in {"pressregulators", "dampers"}
  /\ \A k \in TypeKeys : k[1] \in {"realconsumers", "heatsources"}
  /\ \A k \in FlagKeys : k[1] = "setpressnodes"
<1>1. /\ \A n \in NodeId : Node(n) \in NodeKeys
      /\ \A l \in LineId : Line(l) \in LineKeys /\ Pipe(l) \in PipeKeys
  BY DEF NodeKeys, LineKeys, PipeKeys
<1>2. \A k \in NodeKeys : k[1] = "nodes" /\ k[2] \in NodeId /\ k = Node(k[2])
  BY DEF NodeKeys, Node
<1>3. \A k \in LineKeys : k[1] = "linesobj" /\ k[2] \in LineId /\ k = Line(k[2])
  BY DEF LineKeys, Line
<1>4. \A k \in PipeKeys : k[1] = "heatpipesections" /\ k[2] \in LineId /\ k = Pipe(k[2])
  BY DEF PipeKeys, Pipe
<1>5. /\ \A k \in EquipKeys : k[1] \in {"pressregulators", "dampers"}
      /\ \A k \in TypeKeys : k[1] \in {"realconsumers", "heatsources"}
      /\ \A k \in FlagKeys : k[1] = "setpressnodes"
  BY DEF EquipKeys, TypeKeys, FlagKeys, EquipTable, TypeTable, FlagTable
<1> QED BY <1>1, <1>2, <1>3, <1>4, <1>5

LEMMA TablesDisjoint ==
  /\ NodeKeys \cap (LineKeys \cup PipeKeys \cup EquipKeys \cup TypeKeys \cup FlagKeys) = {}
  /\ LineKeys \cap (PipeKeys \cup EquipKeys \cup TypeKeys \cup FlagKeys) = {}
  /\ PipeKeys \cap (EquipKeys \cup TypeKeys \cup FlagKeys) = {}
  /\ EquipKeys \cap (TypeKeys \cup FlagKeys) = {}
  /\ TypeKeys \cap FlagKeys = {}
BY KeyTables

\* The row under a key is of the key's table.
LEMMA RowsOfTables ==
  ASSUME NEW d, DbOk(d)
  PROVE  /\ \A k \in NodeKeys : d[k] # NULL => d[k] \in NodeRow
         /\ \A k \in LineKeys : d[k] # NULL => d[k] \in LineRow
         /\ \A k \in PipeKeys : d[k] # NULL => d[k] \in PipeRow
         /\ \A k \in EquipKeys : d[k] # NULL => d[k] \in EquipRow
         /\ \A k \in TypeKeys \cup FlagKeys : d[k] # NULL => d[k] \in CardRow
BY TablesDisjoint DEF DbOk, RowOk, Key

LEMMA NodeRows ==
  ASSUME NEW d, DbOk(d), NEW n \in NodeId, d[Node(n)] # NULL
  PROVE  d[Node(n)] \in NodeRow
BY RowsOfTables, KeyTables

LEMMA LineRows ==
  ASSUME NEW d, DbOk(d), NEW l \in LineId, d[Line(l)] # NULL
  PROVE  d[Line(l)] \in LineRow
BY RowsOfTables, KeyTables

LEMMA PipeRows ==
  ASSUME NEW d, DbOk(d), NEW l \in LineId, d[Pipe(l)] # NULL
  PROVE  d[Pipe(l)] \in PipeRow
BY RowsOfTables, KeyTables

LEMMA LengthType ==
  ASSUME NEW s \in Shape
  PROVE  Length(s) \in Measure
BY DEF Length, Shape, Measure

\* A database stays one when rows are replaced by rows of the same table.
LEMMA Replaced ==
  ASSUME NEW d, DbOk(d), NEW e, DOMAIN e = Key,
         \A k \in Key : e[k] = d[k] \/ RowOk(k, e[k])
  PROVE  DbOk(e)
BY DEF DbOk

\* The rows that are there stay there.
Kept(d, e) == \A k \in Key : d[k] = NULL <=> e[k] = NULL

\* Rows of one table are replaced.
LEMMA TableReplaced ==
  ASSUME NEW d, DbOk(d), NEW e, DOMAIN e = Key, NEW S \in SUBSET Key,
         \A k \in Key \ S : e[k] = d[k],
         \/ \A k \in S : k \in NodeKeys /\ d[k] # NULL /\ e[k] \in NodeRow
         \/ \A k \in S : k \in LineKeys /\ d[k] # NULL /\ e[k] \in LineRow
         \/ \A k \in S : k \in PipeKeys /\ d[k] # NULL /\ e[k] \in PipeRow
         \/ \A k \in S : k \in EquipKeys \cup TypeKeys \cup FlagKeys
                         /\ d[k] # NULL /\ e[k] # NULL /\ RowOk(k, e[k])
  PROVE  DbOk(e) /\ Kept(d, e)
<1>1. \A k \in S : RowOk(k, e[k]) /\ d[k] # NULL /\ e[k] # NULL
  BY NullAssumption DEF RowOk
<1> QED BY <1>1, Replaced DEF Kept

(***************************************************************************)
(* The statements.                                                          *)
(***************************************************************************)
LEMMA RemoveLinesType ==
  ASSUME NEW d, DbOk(d), NEW L \in SUBSET LineId, NEW now \in Stamp,
         \A l \in L : d[Line(l)] # NULL
  PROVE  DbOk(RemoveLines(d, L, now)) /\ Kept(d, RemoveLines(d, L, now))
<1> DEFINE d1 == Update(d, LineKeysOf(L), LAMBDA k : [d[k] EXCEPT !.removed = TRUE, !.stamp = now])
           e  == RemoveLines(d, L, now)
<1>1. ASSUME NEW k \in LineKeysOf(L) PROVE k \in LineKeys /\ k \in Key /\ d[k] # NULL /\ d1[k] \in LineRow
  <2>1. k \in LineKeys /\ k \in Key /\ d[k] # NULL
    BY DEF LineKeysOf, LineKeys, Key
  <2>2. d[k] \in LineRow
    BY <2>1, RowsOfTables
  <2> QED BY <2>1, <2>2 DEF Update, LineRow
<1>2. DOMAIN d1 = Key /\ \A k \in Key : k \notin LineKeysOf(L) => d1[k] = d[k]
  BY DEF Update
<1>3. ASSUME NEW k \in PipeKeysOf(d, L)
      PROVE  k \in PipeKeys /\ k \in Key /\ d[k] # NULL /\ d1[k] = d[k] /\ e[k] \in PipeRow
  <2>1. k \in PipeKeys /\ k \in Key /\ d[k] # NULL
    BY DEF PipeKeysOf, PipeKeys, Key
  <2>2. k \notin LineKeysOf(L)
    BY <2>1, <1>1, TablesDisjoint
  <2>3. d[k] \in PipeRow
    BY <2>1, RowsOfTables
  <2>4. e[k] = [d[k] EXCEPT !.removed = TRUE]
    BY <2>1 DEF RemoveLines, Update
  <2> QED BY <2>1, <2>2, <2>3, <2>4, <1>2 DEF PipeRow
<1>4. DOMAIN e = Key /\ \A k \in Key : k \notin PipeKeysOf(d, L) => e[k] = d1[k]
  BY DEF RemoveLines, Update
<1> HIDE DEF d1, e
<1>5. DbOk(d1) /\ Kept(d, d1)
  BY <1>1, <1>2, TableReplaced
<1>6. DbOk(e) /\ Kept(d1, e)
  BY <1>3, <1>4, <1>5, TableReplaced
<1> QED BY <1>5, <1>6 DEF e, Kept

LEMMA RemoveNodeType ==
  ASSUME NEW d, DbOk(d), NEW n \in NodeId, NEW now \in Stamp, d[Node(n)] # NULL
  PROVE  DbOk(RemoveNode(d, n, now)) /\ Kept(d, RemoveNode(d, n, now))
<1> DEFINE e == RemoveNode(d, n, now)
<1>1. e[Node(n)] \in NodeRow
  <2>1. d[Node(n)] \in NodeRow /\ Node(n) \in Key
    BY NodeRows, KeyTables DEF Key
  <2> QED BY <2>1 DEF RemoveNode, Update, NodeRow
<1>2. \A k \in Key \ {Node(n)} : e[k] = d[k]
  BY DEF RemoveNode, Update
<1>3. DOMAIN e = Key
  BY DEF RemoveNode, Update
<1> HIDE DEF e
<1>4. /\ {Node(n)} \in SUBSET Key
      /\ \A k \in {Node(n)} : k \in NodeKeys /\ d[k] # NULL /\ e[k] \in NodeRow
  BY <1>1, KeyTables DEF Key
<1>5. DbOk(e) /\ Kept(d, e)
  BY <1>1, <1>2, <1>3, <1>4, TableReplaced
<1> QED BY <1>5 DEF e

LEMMA SnapEndsType ==
  ASSUME NEW d, DbOk(d), NEW L \in SUBSET LineId, NEW n \in NodeId, NEW now \in Stamp,
         \A l \in L : d[Line(l)] # NULL, d[Node(n)] # NULL
  PROVE  DbOk(SnapEnds(d, L, n, now)) /\ Kept(d, SnapEnds(d, L, n, now))
<1> DEFINE e == SnapEnds(d, L, n, now)
<1>1. ASSUME NEW k \in LineKeysOf(L) PROVE k \in LineKeys /\ k \in Key /\ d[k] # NULL /\ e[k] \in LineRow
  <2>1. k \in LineKeys /\ k \in Key /\ d[k] # NULL
    BY DEF LineKeysOf, LineKeys, Key
  <2>2. d[k] \in LineRow
    BY <2>1, RowsOfTables
  <2>3. d[Node(n)].pos \in Pos
    BY NodeRows DEF NodeRow
  <2>4. Snapped(d, d[k], n) \in Shape
    BY <2>2, <2>3 DEF Snapped, LineRow, Shape
  <2>5. e[k] = [d[k] EXCEPT !.shape = Snapped(d, d[k], n), !.stamp = now]
    BY <2>1 DEF SnapEnds, Update
  <2> QED BY <2>1, <2>2, <2>4, <2>5 DEF LineRow
<1>2. \A k \in Key : k \notin LineKeysOf(L) => e[k] = d[k]
  BY DEF SnapEnds, Update
<1>3. DOMAIN e = Key
  BY DEF SnapEnds, Update
<1> HIDE DEF e
<1>4. DbOk(e) /\ Kept(d, e)
  BY <1>1, <1>2, <1>3, TableReplaced
<1> QED BY <1>4 DEF e

LEMMA MeasuredType ==
  ASSUME NEW d, DbOk(d), NEW L \in SUBSET LineId, \A l \in L : d[Line(l)] # NULL
  PROVE  DbOk(Measured(d, L)) /\ Kept(d, Measured(d, L))
<1> DEFINE e == Measured(d, L)
<1>1. ASSUME NEW k \in PipeKeysOf(d, L) PROVE k \in PipeKeys /\ k \in Key /\ d[k] # NULL /\ e[k] \in PipeRow
  <2>1. k \in PipeKeys /\ k \in Key /\ d[k] # NULL /\ k[2] \in L
    BY DEF PipeKeysOf, PipeKeys, Pipe, Key
  <2>2. d[k] \in PipeRow
    BY <2>1, RowsOfTables
  <2>3. Length(d[Line(k[2])].shape) \in Measure
    BY <2>1, LineRows, LengthType DEF LineRow
  <2>4. e[k] = [d[k] EXCEPT !.len = Length(d[Line(k[2])].shape)]
    BY <2>1 DEF Measured, Update
  <2> QED BY <2>1, <2>2, <2>3, <2>4 DEF PipeRow
<1>2. \A k \in Key : k \notin PipeKeysOf(d, L) => e[k] = d[k]
  BY DEF Measured, Update
<1>3. DOMAIN e = Key
  BY DEF Measured, Update
<1> HIDE DEF e
<1>4. DbOk(e) /\ Kept(d, e)
  BY <1>1, <1>2, <1>3, TableReplaced
<1> QED BY <1>4 DEF e

LEMMA TurnedType ==
  ASSUME NEW d, DbOk(d), NEW L \in SUBSET LineId, \A l \in L : d[Line(l)] # NULL,
         NEW now \in Stamp
  PROVE  DbOk(Turned(d, L, now)) /\ Kept(d, Turned(d, L, now))
<1> DEFINE e == Turned(d, L, now)
<1>1. ASSUME NEW k \in LineKeysOf(L) PROVE k \in LineKeys /\ k \in Key /\ d[k] # NULL /\ e[k] \in LineRow
  <2>1. k \in LineKeys /\ k \in Key /\ d[k] # NULL
    BY DEF LineKeysOf, LineKeys, Key
  <2>2. d[k] \in LineRow
    BY <2>1, RowsOfTables
  <2>3. SwapSign[d[k].sign] \in Sign
    BY <2>2 DEF LineRow, SwapSign, Sign
  <2>4. [start |-> d[k].shape.finish, via |-> d[k].shape.via, finish |-> d[k].shape.start] \in Shape
    BY <2>2 DEF LineRow, Shape
  <2>5. e[k] = [d[k] EXCEPT !.n1 = d[k].n2, !.n2 = d[k].n1, !.sign = SwapSign[@],
                  !.shape = [start |-> @.finish, via |-> @.via, finish |-> @.start],
                  !.stamp = now]
    BY <2>1 DEF Turned, Update
  <2> QED BY <2>1, <2>2, <2>3, <2>4, <2>5 DEF LineRow
<1>2. \A k \in Key : k \notin LineKeysOf(L) => e[k] = d[k]
  BY DEF Turned, Update
<1>3. DOMAIN e = Key
  BY DEF Turned, Update
<1> HIDE DEF e
<1>4. DbOk(e) /\ Kept(d, e)
  BY <1>1, <1>2, <1>3, TableReplaced
<1> QED BY <1>4 DEF e

LEMMA RelinkedType ==
  ASSUME NEW d, DbOk(d), NEW L \in SUBSET LineId, NEW t \in NodeId, NEW s \in NodeId,
         \A l \in L : d[Line(l)] # NULL
  PROVE  DbOk(Relinked(d, L, t, s)) /\ Kept(d, Relinked(d, L, t, s))
<1> DEFINE e == Relinked(d, L, t, s)
<1>1. ASSUME NEW k \in LineKeysOf(L) PROVE k \in LineKeys /\ k \in Key /\ d[k] # NULL /\ e[k] \in LineRow
  <2>1. k \in LineKeys /\ k \in Key /\ d[k] # NULL
    BY DEF LineKeysOf, LineKeys, Key
  <2>2. d[k] \in LineRow
    BY <2>1, RowsOfTables
  <2>3. e[k] = [d[k] EXCEPT !.n1 = IF @ = s THEN t ELSE @, !.n2 = IF @ = s THEN t ELSE @]
    BY <2>1 DEF Relinked, Update
  <2> QED BY <2>1, <2>2, <2>3 DEF LineRow
<1>2. \A k \in Key : k \notin LineKeysOf(L) => e[k] = d[k]
  BY DEF Relinked, Update
<1>3. DOMAIN e = Key
  BY DEF Relinked, Update
<1> HIDE DEF e
<1>4. DbOk(e) /\ Kept(d, e)
  BY <1>1, <1>2, <1>3, TableReplaced
<1> QED BY <1>4 DEF e

LEMMA RestoreType ==
  ASSUME NEW d, DbOk(d), NEW f, ImageOk(f)
  PROVE  DbOk(Restore(d, f))
BY Replaced DEF Restore, Update, ImageOk

LEMMA ImageType ==
  ASSUME NEW d, DbOk(d), NEW S \in SUBSET Key
  PROVE  ImageOk(Image(d, S)) /\ DOMAIN Image(d, S) = S
BY DEF Image, ImageOk, DbOk

(***************************************************************************)
(* The journal stays a sequence.                                            *)
(***************************************************************************)
LEMMA SeqOfElements ==
  ASSUME NEW S, NEW k \in Seq(S)
  PROVE  k \in Seq({k[i] : i \in DOMAIN k})
<1>1. Len(k) \in Nat /\ k \in [1 .. Len(k) -> S]
  BY LenProperties
<1>2. k \in [1 .. Len(k) -> {k[i] : i \in DOMAIN k}]
  BY <1>1
<1> QED BY <1>1, <1>2, SeqDef

LEMMA JournalAppend ==
  ASSUME NEW j, j \in Seq({j[i] : i \in DOMAIN j}), NEW e, NEW k, k = Append(j, e)
  PROVE  /\ k \in Seq({k[i] : i \in DOMAIN k})
         /\ DOMAIN k = DOMAIN j \cup {Len(j) + 1} /\ Len(k) = Len(j) + 1
         /\ Len(j) \in Nat /\ DOMAIN j = 1 .. Len(j)
         /\ \A i \in DOMAIN j : k[i] = j[i]
         /\ k[Len(j) + 1] = e
<1> DEFINE T == {j[i] : i \in DOMAIN j} \cup {e}
<1>1. j \in Seq(T) /\ e \in T
  OBVIOUS
<1>2. /\ k \in Seq(T) /\ Len(k) = Len(j) + 1 /\ Len(j) \in Nat
      /\ DOMAIN k = 1 .. Len(j) + 1 /\ DOMAIN j = 1 .. Len(j)
      /\ \A i \in 1 .. Len(j) : k[i] = j[i]
      /\ k[Len(j) + 1] = e
  BY <1>1
<1>3. k \in Seq({k[i] : i \in DOMAIN k})
  BY <1>2, SeqOfElements
<1> QED BY <1>2, <1>3

(***************************************************************************)
(* Every action preserves the types.                                        *)
(***************************************************************************)
SeqType == [node : 0 .. MaxNode, line : 0 .. MaxLine, card : 0 .. MaxCard]

LEMMA EntryType ==
  ASSUME TypeOK, NEW a \in Actor, NEW op \in OpName, NEW captured \in SUBSET Key,
         NEW d, DbOk(d), clock <= MaxClock
  PROVE  EntryOk(Entry(a, op, captured, d))
<1>1. clock \in 1 .. MaxClock /\ 0 \in 0 .. MaxClock
  BY BoundsAssumption DEF TypeOK
<1>2. /\ ImageOk(Image(db, captured)) /\ DOMAIN Image(db, captured) = captured
      /\ ImageOk(Image(d, captured)) /\ DOMAIN Image(d, captured) = captured
  BY ImageType DEF TypeOK
<1> QED BY <1>1, <1>2 DEF Entry, EntryOk

LEMMA CommitType ==
  ASSUME TypeOK, NEW a \in Actor, NEW op \in OpName, NEW captured \in SUBSET Key,
         NEW d, DbOk(d), Commit(a, op, captured, d), seq' \in SeqType
  PROVE  TypeOK'
<1> DEFINE e == Entry(a, op, captured, d)
<1>1. EntryOk(e)
  BY EntryType DEF Commit
<1>2. journal' = Append(journal, e) /\ db' = d /\ clock <= MaxClock /\ clock' = clock + 1
  BY DEF Commit
<1> HIDE DEF e
<1>3. /\ journal' \in Seq({journal'[i] : i \in DOMAIN journal'})
      /\ DOMAIN journal' = DOMAIN journal \cup {Len(journal) + 1}
      /\ \A i \in DOMAIN journal : journal'[i] = journal[i]
      /\ journal'[Len(journal) + 1] = e
  <2>1. journal \in Seq({journal[i] : i \in DOMAIN journal})
    BY DEF TypeOK
  <2> QED BY <1>2, <2>1, JournalAppend
<1>4. \A i \in DOMAIN journal' : EntryOk(journal'[i])
  BY <1>1, <1>3 DEF TypeOK
<1>5. clock' \in 1 .. MaxClock + 1
  BY <1>2, BoundsAssumption DEF TypeOK
<1> QED BY <1>2, <1>3, <1>4, <1>5 DEF TypeOK, SeqType, DbOk, RowOk, EntryOk, ImageOk

LEMMA Keys ==
  /\ \A n \in NodeId : Node(n) \in Key
  /\ \A l \in LineId : Line(l) \in Key /\ Pipe(l) \in Key
  /\ \A L \in SUBSET LineId : LineKeysOf(L) \subseteq Key /\ LinesWithPipes(L) \subseteq Key
  /\ \A d, l : OnLine(d, l) \subseteq Key
  /\ \A d, n : NodeRefs(d, n) \subseteq Key
  /\ \A d, n : TypesAt(d, n) \subseteq Key /\ FlagsAt(d, n) \subseteq Key
  /\ \A d, n : Incident(d, n) \subseteq LineId /\ ActiveIncident(d, n) \subseteq Incident(d, n)
<1>1. /\ \A n \in NodeId : Node(n) \in Key
      /\ \A l \in LineId : Line(l) \in Key /\ Pipe(l) \in Key
  BY KeyTables DEF Key
<1>2. \A L \in SUBSET LineId : LineKeysOf(L) \subseteq Key /\ LinesWithPipes(L) \subseteq Key
  BY <1>1 DEF LineKeysOf, PipeKeysOf, LinesWithPipes
<1>3. /\ \A d, l : OnLine(d, l) \subseteq Key
      /\ \A d, n : NodeRefs(d, n) \subseteq Key
      /\ \A d, n : TypesAt(d, n) \subseteq Key /\ FlagsAt(d, n) \subseteq Key
  BY DEF OnLine, NodeRefs, TypesAt, FlagsAt, Key
<1>4. \A d, n : Incident(d, n) \subseteq LineId /\ ActiveIncident(d, n) \subseteq Incident(d, n)
  BY DEF Incident, ActiveIncident
<1> QED BY <1>1, <1>2, <1>3, <1>4

\* The node in its new place with the ends of its lines.
Moved(n, p) ==
  SnapEnds(Update(db, {Node(n)}, LAMBDA k : [db[k] EXCEPT !.pos = p, !.stamp = clock]),
           Incident(db, n), n, clock)

LEMMA MovedRows ==
  ASSUME DbOk(db), clock \in Stamp, NEW n \in NodeId, NEW p \in Pos, db[Node(n)] # NULL
  PROVE  DbOk(Moved(n, p)) /\ Kept(db, Moved(n, p))
<1> DEFINE inc == Incident(db, n)
           d1  == Update(db, {Node(n)}, LAMBDA k : [db[k] EXCEPT !.pos = p, !.stamp = clock])
<1>1. Node(n) \in Key /\ Node(n) \in NodeKeys /\ db[Node(n)] \in NodeRow
  BY Keys, KeyTables, NodeRows
<1>2. d1[Node(n)] \in NodeRow
  BY <1>1 DEF Update, NodeRow
<1>3. DOMAIN d1 = Key /\ \A k \in Key \ {Node(n)} : d1[k] = db[k]
  BY DEF Update
<1>4. inc \in SUBSET LineId /\ \A l \in inc : db[Line(l)] # NULL
  BY Keys DEF Incident
<1>5. Moved(n, p) = SnapEnds(d1, inc, n, clock)
  BY DEF Moved
<1> HIDE DEF d1, inc
<1>6. DbOk(d1) /\ Kept(db, d1)
  <2>1. {Node(n)} \in SUBSET Key /\ \A k \in {Node(n)} : k \in NodeKeys /\ db[k] # NULL /\ d1[k] \in NodeRow
    BY <1>1, <1>2
  <2> QED BY <1>3, <2>1, TableReplaced
<1>7. d1[Node(n)] # NULL /\ \A l \in inc : d1[Line(l)] # NULL
  BY <1>1, <1>4, <1>6, Keys DEF Kept
<1>8. DbOk(SnapEnds(d1, inc, n, clock)) /\ Kept(d1, SnapEnds(d1, inc, n, clock))
  BY <1>4, <1>6, <1>7, SnapEndsType
<1> QED BY <1>5, <1>6, <1>8 DEF Kept

LEMMA MoveNodeType ==
  ASSUME TypeOK, NEW a \in Actor, NEW n \in NodeId, NEW p \in Pos, MoveNode(a, n, p)
  PROVE  TypeOK'
<1> DEFINE inc == Incident(db, n)
           d   == Measured(Moved(n, p), inc)
<1>1. clock \in Stamp /\ DbOk(db) /\ Node(n) \in Key /\ db[Node(n)] # NULL
  BY Keys, BoundsAssumption DEF MoveNode, Commit, TypeOK, Stamp, Active
<1>2. inc \in SUBSET LineId /\ \A l \in inc : db[Line(l)] # NULL
  BY Keys DEF Incident
<1>3. DbOk(Moved(n, p)) /\ Kept(db, Moved(n, p))
  BY <1>1, MovedRows
<1>4. DbOk(d)
  BY <1>2, <1>3, MeasuredType, Keys DEF Kept
<1>5. Commit(a, "MOVE", {Node(n)} \cup IncidentLines(n), d) /\ UNCHANGED seq
  BY DEF MoveNode, NodeMoved, Moved
<1> HIDE DEF d
<1> QED BY <1>1, <1>4, <1>5, CommitType, Keys DEF IncidentLines, OpName, TypeOK, SeqType

LEMMA DeleteNodeType ==
  ASSUME TypeOK, NEW a \in Actor, NEW n \in NodeId, NEW cascade \in BOOLEAN,
         DeleteNode(a, n, cascade)
  PROVE  TypeOK'
<1> DEFINE inc == ActiveIncident(db, n)
           d1  == RemoveLines(db, inc, clock)
           d2  == RemoveNode(d1, n, clock)
<1>1. clock \in Stamp /\ DbOk(db) /\ Node(n) \in Key /\ db[Node(n)] # NULL
  BY Keys, BoundsAssumption DEF DeleteNode, Commit, TypeOK, Stamp, Active
<1>2. inc \in SUBSET LineId /\ \A l \in inc : db[Line(l)] # NULL
  BY Keys DEF Incident, ActiveIncident
<1>3. DbOk(d1) /\ d1[Node(n)] # NULL
  BY <1>1, <1>2, RemoveLinesType DEF Kept
<1>4. DbOk(d2)
  BY <1>1, <1>3, RemoveNodeType
<1>5. Commit(a, "DELETE_NODE", {Node(n)} \cup LinesWithPipes(inc), d2) /\ UNCHANGED seq
  BY DEF DeleteNode, NodeDeleted
<1>6. {Node(n)} \cup LinesWithPipes(inc) \in SUBSET Key
  BY <1>1, <1>2, Keys
<1> HIDE DEF d2, inc
<1> QED BY <1>4, <1>5, <1>6, CommitType DEF OpName, TypeOK, SeqType

LEMMA NewCardsType ==
  ASSUME TypeOK, NEW table, NewCards(table) \subseteq TypeKeys
  PROVE  [seq EXCEPT !.card = @ + Cardinality(NewCards(table))] \in SeqType
<1>1. seq \in SeqType
  BY DEF TypeOK, SeqType
<1>2. CASE table = NULL
  BY <1>1, <1>2, FS_EmptySet DEF NewCards, SeqType
<1>3. CASE table # NULL
  <2>1. NewCards(table) = {<<table, NextCard>>}
    BY <1>3 DEF NewCards
  <2>2. NextCard \in CardId
    BY <2>1 DEF TypeKeys
  <2>3. Cardinality(NewCards(table)) = 1
    BY <2>1, FS_Singleton
  <2> QED BY <1>1, <2>2, <2>3, BoundsAssumption DEF NextCard, CardId, SeqType
<1> QED BY <1>2, <1>3

LEMMA WithCardsType ==
  ASSUME NEW d, DbOk(d), NEW keys \in SUBSET (TypeKeys \cup FlagKeys), NEW n \in NodeId
  PROVE  DbOk(WithCards(d, keys, n))
<1> DEFINE e == WithCards(d, keys, n)
<1>1. ASSUME NEW k \in keys PROVE k \in Key /\ e[k] \in CardRow
  BY DEF WithCards, Update, CardRow, Key
<1>2. DOMAIN e = Key /\ \A k \in Key \ keys : e[k] = d[k]
  BY DEF WithCards, Update
<1> QED BY <1>1, <1>2, Replaced DEF RowOk

LEMMA CreateNodeType ==
  ASSUME TypeOK, NEW a \in Actor, NEW p \in Pos, NEW table, CreateNode(a, p, table)
  PROVE  TypeOK'
<1> DEFINE n     == NextNode
           cards == NewCards(table)
           d1    == Update(db, {Node(n)}, LAMBDA k : [pos |-> p, removed |-> FALSE, stamp |-> clock])
           d2    == WithCards(d1, cards, n)
<1>1. n \in NodeId /\ cards \subseteq TypeKeys
  BY DEF CreateNode
<1>3. /\ Commit(a, "CREATE_NODE", {Node(n)} \cup cards, d2)
      /\ seq' = [seq EXCEPT !.node = n, !.card = @ + Cardinality(cards)]
  BY DEF CreateNode
<1>2. clock \in Stamp /\ DbOk(db)
  <2>1. clock <= MaxClock
    BY <1>3 DEF Commit
  <2> QED BY <2>1, BoundsAssumption DEF TypeOK, Stamp
<1>4. [seq EXCEPT !.card = @ + Cardinality(cards)] \in SeqType /\ seq \in SeqType
  BY <1>1, NewCardsType DEF TypeOK, SeqType
<1> HIDE DEF n, cards
<1>5. Node(n) \in Key /\ Node(n) \in NodeKeys
  BY <1>1, Keys, KeyTables
<1>6. d1[Node(n)] \in NodeRow
  BY <1>2, <1>5 DEF Update, NodeRow
<1>7. DOMAIN d1 = Key /\ \A k \in Key : k # Node(n) => d1[k] = db[k]
  BY DEF Update
<1> HIDE DEF d1
<1>8. DbOk(d1)
  BY <1>2, <1>5, <1>6, <1>7, Replaced DEF RowOk
<1>9. DbOk(d2)
  BY <1>1, <1>8, WithCardsType
<1>10. seq.card + Cardinality(cards) \in 0 .. MaxCard /\ n \in 0 .. MaxNode
  BY <1>1, <1>4 DEF SeqType, NodeId
<1>11. seq' \in SeqType
  BY <1>3, <1>4, <1>10 DEF SeqType
<1>12. {Node(n)} \cup cards \in SUBSET Key
  BY <1>1, <1>5 DEF Key
<1> HIDE DEF d2
<1> QED BY <1>3, <1>9, <1>11, <1>12, CommitType DEF OpName

LEMMA CreateLineType ==
  ASSUME TypeOK, NEW a \in Actor, NEW x \in NodeId, NEW y \in NodeId, CreateLine(a, x, y)
  PROVE  TypeOK'
<1> DEFINE l     == NextLine
           shape == [start |-> db[Node(x)].pos, via |-> 0, finish |-> db[Node(y)].pos]
           d     == NewLine(db, l, x, y, clock)
<1>1. clock \in Stamp /\ DbOk(db) /\ l \in LineId /\ Line(l) \in Key /\ Pipe(l) \in Key
  BY Keys, BoundsAssumption DEF CreateLine, Commit, TypeOK, Stamp
<1>2. db[Node(x)] \in NodeRow /\ db[Node(y)] \in NodeRow
  BY <1>1, NodeRows DEF CreateLine, Active
<1>3. shape \in Shape /\ Length(shape) \in Measure
  BY <1>2, LengthType DEF Shape, NodeRow
<1>4. Line(l) # Pipe(l)
  BY DEF Line, Pipe
<1>5. d[Line(l)] = [n1 |-> x, n2 |-> y, sign |-> 0, shape |-> shape, removed |-> FALSE, stamp |-> clock]
  BY <1>1, <1>4 DEF NewLine, Update
<1>6. d[Line(l)] \in LineRow
  BY <1>1, <1>3, <1>5 DEF LineRow, Sign
<1>7. d[Pipe(l)] \in PipeRow
  BY <1>1, <1>3 DEF NewLine, Update, PipeRow
<1>8. DOMAIN d = Key /\ \A k \in Key : k # Line(l) /\ k # Pipe(l) => d[k] = db[k]
  BY DEF NewLine, Update
<1>9. DbOk(d)
  BY <1>1, <1>6, <1>7, <1>8, Replaced, KeyTables DEF RowOk
<1>10. Commit(a, "CREATE_LINE", {Line(l), Pipe(l)}, d) /\ seq' = [seq EXCEPT !.line = l]
  BY DEF CreateLine
<1>11. seq' \in SeqType
  BY <1>1, <1>10 DEF SeqType, TypeOK, LineId
<1> HIDE DEF d, l
<1> QED BY <1>1, <1>9, <1>10, <1>11, CommitType DEF OpName

\* The line and, if asked, its pair.
WithPair(l, includePair) == {l} \cup (IF includePair THEN FindPair(db, l) ELSE {})

LEMMA WithPairLines ==
  ASSUME NEW l \in LineId, Active(db, Line(l)), NEW pair \in BOOLEAN
  PROVE  WithPair(l, pair) \in SUBSET LineId /\ \A m \in WithPair(l, pair) : Active(db, Line(m))
BY DEF WithPair, FindPair, Pairs

LEMMA DeleteLineType ==
  ASSUME TypeOK, NEW a \in Actor, NEW l \in LineId, NEW pair \in BOOLEAN, DeleteLine(a, l, pair)
  PROVE  TypeOK'
<1> DEFINE L == WithPair(l, pair)
           d == RemoveLines(db, L, clock)
<1>1. clock \in Stamp /\ DbOk(db)
  BY BoundsAssumption DEF DeleteLine, Commit, TypeOK, Stamp
<1>2. L \in SUBSET LineId /\ \A m \in L : db[Line(m)] # NULL
  BY WithPairLines DEF DeleteLine, Active
<1>3. DbOk(d)
  BY <1>1, <1>2, RemoveLinesType
<1>4. Commit(a, "DELETE_LINE", LinesWithPipes(L), d) /\ UNCHANGED seq
  BY DEF DeleteLine, WithPair
<1>5. LinesWithPipes(L) \in SUBSET Key
  BY <1>2, Keys
<1> HIDE DEF d, L
<1> QED BY <1>3, <1>4, <1>5, CommitType DEF OpName, TypeOK, SeqType

LEMMA ReverseLineType ==
  ASSUME TypeOK, NEW a \in Actor, NEW l \in LineId, NEW pair \in BOOLEAN, ReverseLine(a, l, pair)
  PROVE  TypeOK'
<1> DEFINE L == WithPair(l, pair)
           d == Turned(db, L, clock)
<1>1. clock \in Stamp /\ DbOk(db)
  BY BoundsAssumption DEF ReverseLine, Commit, TypeOK, Stamp
<1>2. L \in SUBSET LineId /\ \A m \in L : db[Line(m)] # NULL
  BY WithPairLines DEF ReverseLine, Active
<1>3. DbOk(d)
  BY <1>1, <1>2, TurnedType
<1>4. Commit(a, "REVERSE", LineKeysOf(L), d) /\ UNCHANGED seq
  BY DEF ReverseLine, WithPair
<1>5. LineKeysOf(L) \in SUBSET Key
  BY <1>2, Keys
<1> HIDE DEF d, L
<1> QED BY <1>3, <1>4, <1>5, CommitType DEF OpName, TypeOK, SeqType

\* The line with its new vertices, and its ends put at the nodes.
Redrawn(l, via) ==
  LET d1 == Update(db, {Line(l)}, LAMBDA k : [db[k] EXCEPT !.shape.via = via])
  IN SnapEnds(SnapEnds(d1, {l}, db[Line(l)].n1, clock), {l}, db[Line(l)].n2, clock)

LEMMA RedrawnRows ==
  ASSUME DbOk(db), clock \in Stamp, NEW l \in LineId, NEW via \in {0, 1},
         db[Line(l)] # NULL, \A n \in Ends(db, l) : db[Node(n)] # NULL
  PROVE  DbOk(Redrawn(l, via)) /\ Kept(db, Redrawn(l, via))
<1> DEFINE d1 == Update(db, {Line(l)}, LAMBDA k : [db[k] EXCEPT !.shape.via = via])
           d2 == SnapEnds(d1, {l}, db[Line(l)].n1, clock)
           d3 == SnapEnds(d2, {l}, db[Line(l)].n2, clock)
<1>1. Line(l) \in Key /\ Line(l) \in LineKeys
  BY Keys, KeyTables
<1>2. db[Line(l)] \in LineRow
  BY LineRows
<1>3. db[Line(l)].n1 \in NodeId /\ db[Line(l)].n2 \in NodeId
  BY <1>2 DEF LineRow
<1>4. db[Node(db[Line(l)].n1)] # NULL /\ db[Node(db[Line(l)].n2)] # NULL
  BY DEF Ends
<1>5. d1[Line(l)] \in LineRow
  BY <1>1, <1>2 DEF Update, LineRow, Shape
<1>6. DOMAIN d1 = Key /\ \A k \in Key \ {Line(l)} : d1[k] = db[k]
  BY DEF Update
<1> HIDE DEF d1
<1>7. DbOk(d1) /\ Kept(db, d1)
  <2>1. {Line(l)} \in SUBSET Key /\ \A k \in {Line(l)} : k \in LineKeys /\ db[k] # NULL /\ d1[k] \in LineRow
    BY <1>1, <1>2, <1>5, NullAssumption
  <2> QED BY <1>1, <1>6, <2>1, TableReplaced
<1>8. DbOk(d2) /\ Kept(d1, d2)
  <2>1. d1[Line(l)] # NULL /\ d1[Node(db[Line(l)].n1)] # NULL
    BY <1>3, <1>4, <1>5, <1>7, NullAssumption, Keys DEF Kept
  <2> QED BY <1>1, <1>3, <1>7, <2>1, SnapEndsType
<1>9. DbOk(d3) /\ Kept(d2, d3)
  BY <1>1, <1>2, <1>3, <1>4, <1>7, <1>8, NullAssumption, SnapEndsType, Keys DEF Kept
<1>10. Redrawn(l, via) = d3
  BY DEF Redrawn, d1
<1> QED BY <1>7, <1>8, <1>9, <1>10 DEF Kept

LEMMA UpdateGeometryType ==
  ASSUME TypeOK, NEW a \in Actor, NEW l \in LineId, NEW via \in {0, 1}, UpdateGeometry(a, l, via)
  PROVE  TypeOK'
<1> DEFINE d == Measured(Redrawn(l, via), {l})
<1>1. clock \in Stamp /\ DbOk(db) /\ db[Line(l)] # NULL /\ \A n \in Ends(db, l) : db[Node(n)] # NULL
  BY BoundsAssumption DEF UpdateGeometry, Commit, TypeOK, Stamp, Active
<1>2. DbOk(Redrawn(l, via)) /\ Kept(db, Redrawn(l, via))
  BY <1>1, RedrawnRows
<1>3. DbOk(d)
  BY <1>1, <1>2, MeasuredType, Keys DEF Kept
<1>4. Commit(a, "GEOMETRY", LinesWithPipes({l}), d) /\ UNCHANGED seq
  BY DEF UpdateGeometry, Reshaped, Redrawn
<1>5. LinesWithPipes({l}) \in SUBSET Key
  BY Keys
<1> HIDE DEF d
<1> QED BY <1>3, <1>4, <1>5, CommitType DEF OpName, TypeOK, SeqType

\* Rows of equipment are moved to another line, or to another node.
LEMMA RefsMoved ==
  ASSUME NEW d, DbOk(d), NEW e, DOMAIN e = Key,
         NEW S \in SUBSET (EquipKeys \cup TypeKeys \cup FlagKeys), \A k \in S : d[k] # NULL,
         \A k \in Key \ S : e[k] = d[k],
         \/ \E m \in LineId : S \subseteq EquipKeys /\ \A k \in S : e[k] = [d[k] EXCEPT !.lineid = m]
         \/ \E t \in NodeId : \A k \in S : e[k] = [d[k] EXCEPT !.nodeid = t]
  PROVE  DbOk(e) /\ Kept(d, e)
<1>1. /\ \A k \in S \cap EquipKeys : d[k] \in EquipRow
      /\ \A k \in S \ EquipKeys : d[k] \in CardRow
  BY RowsOfTables
<1>2. /\ \A k \in S \cap EquipKeys : e[k] \in EquipRow
      /\ \A k \in S \ EquipKeys : e[k] \in CardRow
  <2>1. CASE \E m \in LineId : S \subseteq EquipKeys /\ \A k \in S : e[k] = [d[k] EXCEPT !.lineid = m]
    BY <1>1, <2>1 DEF EquipRow
  <2>2. CASE \E t \in NodeId : \A k \in S : e[k] = [d[k] EXCEPT !.nodeid = t]
    <3>1. PICK t \in NodeId : \A k \in S : e[k] = [d[k] EXCEPT !.nodeid = t]
      BY <2>2
    <3>2. \A k \in S \cap EquipKeys : e[k] \in EquipRow
      BY <1>1, <3>1 DEF EquipRow
    <3>3. \A k \in S \ EquipKeys : e[k] \in CardRow
      BY <1>1, <3>1 DEF CardRow
    <3> QED BY <3>2, <3>3
  <2> QED BY <2>1, <2>2
<1>3. \A k \in S : RowOk(k, e[k]) /\ e[k] # NULL
  BY <1>2, NullAssumption DEF RowOk
<1> QED BY <1>3, Replaced DEF Kept

\* The line cut in two, before the passports are measured.
Cut(l, n, m, p, via1, via2) ==
  LET old == db[Line(l)]
      d1  == Update(db, {Node(n)}, LAMBDA k : [pos |-> p, removed |-> FALSE, stamp |-> clock])
      d2  == Update(d1, {Line(m)},
                    LAMBDA k : [old EXCEPT !.n1 = n, !.stamp = clock,
                                  !.shape = [start |-> p, via |-> via2, finish |-> @.finish]])
      d3  == Update(d2, {Line(l)},
                    LAMBDA k : [old EXCEPT !.n2 = n, !.stamp = clock,
                                  !.shape = [start |-> @.start, via |-> via1, finish |-> p]])
  IN Update(d3, {Pipe(m)}, LAMBDA k : d3[Pipe(l)])

LEMMA CutRows ==
  ASSUME TypeOK, clock \in Stamp, NEW l \in LineId, NEW n \in NodeId, NEW m \in LineId, NEW p \in Pos,
         NEW via1 \in {0, 1}, NEW via2 \in {0, 1}, db[Line(l)] # NULL, db[Pipe(l)] # NULL
  PROVE  /\ DbOk(Cut(l, n, m, p, via1, via2))
         /\ Cut(l, n, m, p, via1, via2)[Line(m)] # NULL
         /\ Cut(l, n, m, p, via1, via2)[Line(l)] # NULL
<1> DEFINE old == db[Line(l)]
           d1  == Update(db, {Node(n)}, LAMBDA k : [pos |-> p, removed |-> FALSE, stamp |-> clock])
           d2  == Update(d1, {Line(m)},
                         LAMBDA k : [old EXCEPT !.n1 = n, !.stamp = clock,
                                       !.shape = [start |-> p, via |-> via2, finish |-> @.finish]])
           d3  == Update(d2, {Line(l)},
                         LAMBDA k : [old EXCEPT !.n2 = n, !.stamp = clock,
                                       !.shape = [start |-> @.start, via |-> via1, finish |-> p]])
           d4  == Update(d3, {Pipe(m)}, LAMBDA k : d3[Pipe(l)])
<1>1. DbOk(db) /\ old \in LineRow
  BY LineRows DEF TypeOK
<1>2. /\ Node(n) \in Key /\ Node(n) \in NodeKeys
      /\ \A i \in LineId : Line(i) \in Key /\ Pipe(i) \in Key /\ Line(i) \in LineKeys /\ Pipe(i) \in PipeKeys
  BY Keys, KeyTables
<1>3. /\ [start |-> p, via |-> via2, finish |-> old.shape.finish] \in Shape
      /\ [start |-> old.shape.start, via |-> via1, finish |-> p] \in Shape
  BY <1>1 DEF LineRow, Shape
<1>4. DbOk(d1)
  <2>1. d1[Node(n)] \in NodeRow
    BY <1>2 DEF Update, NodeRow
  <2>2. DOMAIN d1 = Key /\ \A k \in Key : k # Node(n) => d1[k] = db[k]
    BY DEF Update
  <2> HIDE DEF d1
  <2> QED BY <1>1, <1>2, <2>1, <2>2, Replaced DEF RowOk
<1>5. DbOk(d2) /\ d2[Line(m)] \in LineRow
  <2>1. d2[Line(m)] \in LineRow
    BY <1>1, <1>2, <1>3 DEF Update, LineRow
  <2>2. DOMAIN d2 = Key /\ \A k \in Key : k # Line(m) => d2[k] = d1[k]
    BY DEF Update
  <2> HIDE DEF d2, d1
  <2> QED BY <1>2, <1>4, <2>1, <2>2, Replaced DEF RowOk
<1>6. DbOk(d3) /\ d3[Line(m)] \in LineRow /\ d3[Line(l)] \in LineRow
  <2>1. d3[Line(l)] \in LineRow
    BY <1>1, <1>2, <1>3 DEF Update, LineRow
  <2>2. DOMAIN d3 = Key /\ \A k \in Key : k # Line(l) => d3[k] = d2[k]
    BY DEF Update
  <2> HIDE DEF d3, d2
  <2> QED BY <1>2, <1>5, <2>1, <2>2, Replaced DEF RowOk
<1>7. DbOk(d4) /\ d4[Line(m)] # NULL /\ d4[Line(l)] # NULL
  <2>1. DOMAIN d4 = Key /\ d4[Pipe(m)] = d3[Pipe(l)] /\ \A k \in Key : k # Pipe(m) => d4[k] = d3[k]
    BY <1>2 DEF Update
  <2> HIDE DEF d4, d3
  <2>2. RowOk(Pipe(m), d3[Pipe(l)])
    BY <1>2, <1>6, RowsOfTables DEF RowOk
  <2>3. DbOk(d4)
    BY <1>6, <2>1, <2>2, Replaced
  <2>4. Pipe(m) # Line(m) /\ Pipe(m) # Line(l)
    BY DEF Pipe, Line
  <2> QED BY <1>2, <1>6, <2>1, <2>3, <2>4, NullAssumption
<1>8. Cut(l, n, m, p, via1, via2) = d4
  BY DEF Cut
<1> HIDE DEF d4
<1> QED BY <1>7, <1>8

LEMMA HalvesType ==
  ASSUME TypeOK, clock \in Stamp, NEW l \in LineId, NEW n \in NodeId, NEW m \in LineId, NEW p \in Pos,
         NEW via1 \in {0, 1}, NEW via2 \in {0, 1}, db[Line(l)] # NULL, db[Pipe(l)] # NULL
  PROVE  DbOk(Halves(db, l, n, m, p, via1, via2, clock))
<1>1. Halves(db, l, n, m, p, via1, via2, clock) = Measured(Cut(l, n, m, p, via1, via2), {l, m})
  BY DEF Halves, Cut
<1> QED BY <1>1, CutRows, MeasuredType

LEMMA SplitLineType ==
  ASSUME TypeOK, NEW a \in Actor, NEW l \in LineId, NEW p \in Pos, NEW via1 \in {0, 1}, NEW via2 \in {0, 1},
         NEW toNew \in SUBSET Review(db, l), SplitLine(a, l, p, via1, via2, toNew)
  PROVE  TypeOK'
<1> DEFINE n     == NextNode
           m     == NextLine
           moved == FollowsEnd(db, l) \cup toNew
           d1    == Halves(db, l, n, m, p, via1, via2, clock)
           d2    == Update(d1, moved, LAMBDA k : [db[k] EXCEPT !.lineid = m])
<1>1. /\ Commit(a, "SPLIT", SplitCaptured(l, n, m), d2)
      /\ seq' = [seq EXCEPT !.node = n, !.line = m]
      /\ n \in NodeId /\ m \in LineId
      /\ db[Line(l)] # NULL /\ db[Pipe(l)] # NULL
  BY DEF SplitLine, Active
<1>2. clock \in Stamp /\ DbOk(db)
  BY <1>1, BoundsAssumption DEF Commit, TypeOK, Stamp
<1> HIDE DEF n, m
<1>3. DbOk(d1)
  BY <1>1, <1>2, HalvesType
<1>4. moved \in SUBSET EquipKeys /\ \A k \in moved : db[k] # NULL /\ d1[k] = db[k]
  <2>1. moved \in SUBSET EquipKeys /\ \A k \in moved : db[k] # NULL
    BY DEF FollowsEnd, Review, OnLine
  <2>2. \A k \in EquipKeys : k \in Key /\ k # Node(n) /\ k # Line(m) /\ k # Line(l) /\ k # Pipe(m) /\ k # Pipe(l)
    BY KeyTables DEF Node, Line, Pipe, Key
  <2>3. \A k \in EquipKeys : d1[k] = db[k]
    BY <2>2 DEF Halves, Measured, PipeKeysOf, Update
  <2> QED BY <2>1, <2>3
<1>5. \A k \in moved : k \in Key /\ d2[k] = [d1[k] EXCEPT !.lineid = m]
  BY <1>4 DEF Update, Key
<1>6. DOMAIN d2 = Key /\ \A k \in Key \ moved : d2[k] = d1[k]
  BY DEF Update
<1> HIDE DEF d1, d2, moved
<1>7. DbOk(d2)
  <2>1. \A k \in moved : d1[k] # NULL
    BY <1>4
  <2>2. \E i \in LineId : moved \subseteq EquipKeys /\ \A k \in moved : d2[k] = [d1[k] EXCEPT !.lineid = i]
    BY <1>1, <1>4, <1>5
  <2>3. moved \in SUBSET (EquipKeys \cup TypeKeys \cup FlagKeys)
    BY <1>4
  <2> QED BY <1>3, <1>6, <2>1, <2>2, <2>3, RefsMoved
<1>8. SplitCaptured(l, n, m) \in SUBSET Key
  BY <1>1, Keys DEF SplitCaptured
<1>9. seq' \in SeqType
  <2>1. seq \in SeqType /\ n \in 0 .. MaxNode /\ m \in 0 .. MaxLine
    BY <1>1 DEF TypeOK, SeqType, NodeId, LineId
  <2> QED BY <1>1, <2>1 DEF SeqType
<1> QED BY <1>1, <1>7, <1>8, <1>9, CommitType DEF OpName

\* The lines between the nodes removed, the others brought to the target.
Gathered(t, s) ==
  LET gone  == Connecting(db, t, s)
      lines == ActiveIncident(db, s) \ gone
  IN SnapEnds(Relinked(RemoveLines(db, gone, clock), lines, t, s), lines, t, clock)

LEMMA GatheredRows ==
  ASSUME DbOk(db), clock \in Stamp, NEW t \in NodeId, NEW s \in NodeId, db[Node(t)] # NULL
  PROVE  /\ DbOk(RemoveLines(db, Connecting(db, t, s), clock))
         /\ DbOk(Gathered(t, s)) /\ Kept(db, Gathered(t, s))
<1> DEFINE gone  == Connecting(db, t, s)
           lines == ActiveIncident(db, s) \ gone
           d0    == RemoveLines(db, gone, clock)
           d1    == Relinked(d0, lines, t, s)
           d2    == SnapEnds(d1, lines, t, clock)
<1>1. /\ gone \in SUBSET LineId /\ \A l \in gone : db[Line(l)] # NULL
      /\ lines \in SUBSET LineId /\ \A l \in lines : db[Line(l)] # NULL
  BY DEF Connecting, ActiveIncident, Incident
<1>2. Node(t) \in Key /\ \A l \in LineId : Line(l) \in Key
  BY Keys
<1>3. Gathered(t, s) = d2
  BY DEF Gathered
<1> HIDE DEF gone, lines
<1>4. DbOk(d0) /\ Kept(db, d0)
  BY <1>1, RemoveLinesType
<1> HIDE DEF d0
<1>5. DbOk(d1) /\ Kept(d0, d1)
  <2>1. \A l \in lines : d0[Line(l)] # NULL
    BY <1>1, <1>2, <1>4 DEF Kept
  <2> QED BY <1>1, <1>4, <2>1, RelinkedType
<1> HIDE DEF d1
<1>6. DbOk(d2) /\ Kept(d1, d2)
  <2>1. d1[Node(t)] # NULL /\ \A l \in lines : d1[Line(l)] # NULL
    BY <1>1, <1>2, <1>4, <1>5 DEF Kept
  <2> QED BY <1>1, <1>5, <2>1, SnapEndsType
<1> HIDE DEF d2
<1> QED BY <1>3, <1>4, <1>5, <1>6 DEF Kept, d0, gone

\* The whole of a merge.
LEMMA MergedRows ==
  ASSUME DbOk(db), clock \in Stamp, NEW t \in NodeId, NEW s \in NodeId, db[Node(t)] # NULL, db[Node(s)] # NULL
  PROVE  DbOk(NodesMerged(db, t, s, clock)) /\ Kept(db, NodesMerged(db, t, s, clock))
<1> DEFINE gone  == Connecting(db, t, s)
           lines == ActiveIncident(db, s) \ gone
           refs  == NodeRefs(db, s)
           d1    == Gathered(t, s)
           d2    == Measured(d1, lines)
           d3    == Update(d2, refs, LAMBDA k : [d2[k] EXCEPT !.nodeid = t])
           d4    == Update(d3, {Node(t)}, LAMBDA k : [d3[k] EXCEPT !.stamp = clock])
           d5    == RemoveNode(d4, s, clock)
<1>1. NodesMerged(db, t, s, clock) = d5
  BY DEF NodesMerged, Gathered
<1>2. DbOk(db) /\ db[Node(t)] # NULL /\ db[Node(s)] # NULL
  OBVIOUS
<1>3. /\ gone \in SUBSET LineId /\ \A l \in gone : db[Line(l)] # NULL
      /\ lines \in SUBSET LineId /\ \A l \in lines : db[Line(l)] # NULL
  BY DEF Connecting, ActiveIncident, Incident
<1>4. refs \in SUBSET (EquipKeys \cup TypeKeys \cup FlagKeys) /\ \A k \in refs : k \in Key /\ db[k] # NULL
  BY DEF NodeRefs, Key
<1>5. Node(t) \in Key /\ Node(s) \in Key /\ Node(t) \in NodeKeys
      /\ \A l \in LineId : Line(l) \in Key
  BY Keys, KeyTables
<1> HIDE DEF gone, lines, refs
<1>6. DbOk(d1) /\ Kept(db, d1)
  BY <1>2, GatheredRows
<1> HIDE DEF d1
<1>7. DbOk(d2) /\ Kept(d1, d2)
  <2>1. \A l \in lines : d1[Line(l)] # NULL
    BY <1>3, <1>5, <1>6 DEF Kept
  <2> QED BY <1>3, <1>6, <2>1, MeasuredType
<1> HIDE DEF d2
<1>8. DbOk(d3) /\ Kept(d2, d3)
  <2>1. \A k \in refs : d2[k] # NULL
    BY <1>4, <1>6, <1>7 DEF Kept
  <2>2. DOMAIN d3 = Key /\ \A k \in Key \ refs : d3[k] = d2[k]
    BY DEF Update
  <2>3. \A k \in refs : d3[k] = [d2[k] EXCEPT !.nodeid = t]
    BY <1>4 DEF Update
  <2> HIDE DEF d3
  <2>4. \E i \in NodeId : \A k \in refs : d3[k] = [d2[k] EXCEPT !.nodeid = i]
    BY <2>3
  <2> QED BY <1>4, <1>7, <2>1, <2>2, <2>4, RefsMoved
<1> HIDE DEF d3
<1>9. DbOk(d4) /\ Kept(d3, d4)
  <2>1. d3[Node(t)] # NULL
    BY <1>2, <1>5, <1>6, <1>7, <1>8 DEF Kept
  <2>2. d3[Node(t)] \in NodeRow
    BY <1>8, <2>1, NodeRows
  <2>3. DOMAIN d4 = Key /\ \A k \in Key \ {Node(t)} : d4[k] = d3[k]
    BY DEF Update
  <2>4. d4[Node(t)] \in NodeRow
    BY <1>2, <1>5, <2>2 DEF Update, NodeRow
  <2> HIDE DEF d4
  <2>5. {Node(t)} \in SUBSET Key /\ \A k \in {Node(t)} : k \in NodeKeys /\ d3[k] # NULL /\ d4[k] \in NodeRow
    BY <1>5, <2>1, <2>4
  <2> QED BY <1>8, <2>3, <2>5, TableReplaced
<1> HIDE DEF d4
<1>10. DbOk(d5) /\ Kept(d4, d5)
  <2>1. d4[Node(s)] # NULL
    BY <1>2, <1>5, <1>6, <1>7, <1>8, <1>9 DEF Kept
  <2> QED BY <1>2, <1>9, <2>1, RemoveNodeType
<1> HIDE DEF d5
<1> QED BY <1>1, <1>6, <1>7, <1>8, <1>9, <1>10 DEF Kept

LEMMA MergeNodesType ==
  ASSUME TypeOK, NEW a \in Actor, NEW t \in NodeId, NEW s \in NodeId, MergeNodes(a, t, s)
  PROVE  TypeOK'
<1> DEFINE refs  == NodeRefs(db, s)
           d     == NodesMerged(db, t, s, clock)
           rows  == {Node(t), Node(s)} \cup LinesWithPipes(ActiveIncident(db, s)) \cup refs
<1>1. /\ Commit(a, "MERGE", rows, d) /\ UNCHANGED seq
      /\ db[Node(t)] # NULL /\ db[Node(s)] # NULL
  BY DEF MergeNodes, Active
<1>2. clock \in Stamp /\ DbOk(db)
  BY <1>1, BoundsAssumption DEF Commit, TypeOK, Stamp
<1>3. rows \in SUBSET Key
  <2>1. ActiveIncident(db, s) \in SUBSET LineId
    BY DEF ActiveIncident, Incident
  <2> QED BY <2>1, Keys
<1>4. DbOk(d)
  BY <1>1, <1>2, MergedRows
<1> HIDE DEF d, rows
<1> QED BY <1>1, <1>3, <1>4, CommitType DEF OpName, TypeOK, SeqType

LEMMA JoinedType ==
  ASSUME NEW d, DbOk(d), NEW now \in Stamp, NEW n \in NodeId, NEW j \in LineId \X LineId,
         d[Line(j[1])] # NULL, d[Line(j[2])] # NULL
  PROVE  Joined(d, j, n, now) \in LineRow
<1> DEFINE keep  == d[Line(j[1])]
           rest  == d[Line(j[2])]
           first == IF rest.n2 = n THEN rest.shape.start ELSE rest.shape.finish
           last  == IF rest.n1 = n THEN rest.shape.finish ELSE rest.shape.start
<1>1. keep \in LineRow /\ rest \in LineRow
  BY LineRows
<1>2. Other(d, j[2], n) \in NodeId /\ first \in Pos /\ last \in Pos
  BY <1>1 DEF Other, LineRow, Shape
<1>3. CASE keep.n2 = n
  <2>1. Joined(d, j, n, now) =
          [keep EXCEPT !.n2 = Other(d, j[2], n), !.stamp = now,
             !.shape = [start |-> @.start, via |-> 1, finish |-> last]]
    BY <1>3 DEF Joined
  <2>2. [start |-> keep.shape.start, via |-> 1, finish |-> last] \in Shape
    BY <1>1, <1>2 DEF LineRow, Shape
  <2> QED BY <1>1, <1>2, <2>1, <2>2 DEF LineRow
<1>4. CASE keep.n2 # n
  <2>1. Joined(d, j, n, now) =
          [keep EXCEPT !.n1 = Other(d, j[2], n), !.stamp = now,
             !.shape = [start |-> first, via |-> 1, finish |-> @.finish]]
    BY <1>4 DEF Joined
  <2>2. [start |-> first, via |-> 1, finish |-> keep.shape.finish] \in Shape
    BY <1>1, <1>2 DEF LineRow, Shape
  <2> QED BY <1>1, <1>2, <2>1, <2>2 DEF LineRow
<1> QED BY <1>3, <1>4

LEMMA JoinLines ==
  ASSUME NEW n
  PROVE  \A j \in Joins(db, n) :
           j \in LineId \X LineId /\ db[Line(j[1])] # NULL /\ db[Line(j[2])] # NULL
BY DEF Joins, KeptLines, ActiveIncident, Incident

LEMMA ExtendedRows ==
  ASSUME DbOk(db), clock \in Stamp, NEW n \in NodeId
  PROVE  LET e == Extended(db, Joins(db, n), n, clock) IN DbOk(e) /\ Kept(db, e)
<1> DEFINE joins == Joins(db, n)
           kept  == {j[1] : j \in joins}
           d1    == Extended(db, joins, n, clock)
<1>1. \A j \in joins : j \in LineId \X LineId /\ db[Line(j[1])] # NULL /\ db[Line(j[2])] # NULL
  BY JoinLines
<1>2. kept \in SUBSET LineId /\ \A l \in kept : db[Line(l)] # NULL
  BY <1>1
<1>3. \A l \in LineId : Line(l) \in Key /\ Line(l) \in LineKeys
  BY Keys, KeyTables
<1>4. d1 = [k \in Key |-> IF \E j \in joins : k = Line(j[1])
                          THEN Joined(db, CHOOSE j \in joins : k = Line(j[1]), n, clock)
                          ELSE db[k]]
  BY DEF Extended
<1> HIDE DEF joins, d1
<1>5. ASSUME NEW k \in LineKeysOf(kept)
      PROVE  k \in LineKeys /\ k \in Key /\ db[k] # NULL /\ d1[k] \in LineRow
  <2>1. k \in LineKeys /\ k \in Key /\ db[k] # NULL /\ \E j \in joins : k = Line(j[1])
    BY <1>2, <1>3 DEF LineKeysOf
  <2> DEFINE c == CHOOSE j \in joins : k = Line(j[1])
  <2>2. c \in joins /\ k = Line(c[1])
    BY <2>1
  <2>3. d1[k] = Joined(db, c, n, clock)
    BY <1>4, <2>1
  <2> HIDE DEF c
  <2>4. Joined(db, c, n, clock) \in LineRow
    BY <1>1, <2>2, JoinedType
  <2> QED BY <2>1, <2>2, <2>3, <2>4
<1>6. DOMAIN d1 = Key /\ \A k \in Key \ LineKeysOf(kept) : d1[k] = db[k]
  BY <1>4 DEF LineKeysOf
<1> HIDE DEF kept
<1>7. LineKeysOf(kept) \in SUBSET Key
  BY <1>2, Keys
<1>8. DbOk(d1) /\ Kept(db, d1)
  BY <1>5, <1>6, <1>7, TableReplaced
<1> QED BY <1>8 DEF d1, joins

LEMMA DissolveNodeType ==
  ASSUME TypeOK, NEW a \in Actor, NEW n \in NodeId, DissolveNode(a, n)
  PROVE  TypeOK'
<1> DEFINE joins == Joins(db, n)
           kept  == {j[1] : j \in joins}
           gone  == {j[2] : j \in joins}
           d1    == Extended(db, joins, n, clock)
           d2    == Measured(d1, kept)
           d3    == RemoveLines(d2, gone, clock)
           d4    == RemoveNode(d3, n, clock)
           rows  == {Node(n)} \cup LinesWithPipes(kept \cup gone)
<1>1. Commit(a, "DISSOLVE_NODE", rows, d4) /\ UNCHANGED seq /\ db[Node(n)] # NULL
  BY DEF DissolveNode, NodeDissolved, Active
<1>2. clock \in Stamp /\ DbOk(db)
  BY <1>1, BoundsAssumption DEF Commit, TypeOK, Stamp
<1>3. \A j \in joins : j \in LineId \X LineId /\ db[Line(j[1])] # NULL /\ db[Line(j[2])] # NULL
  BY JoinLines
<1>4. /\ kept \in SUBSET LineId /\ \A l \in kept : db[Line(l)] # NULL
      /\ gone \in SUBSET LineId /\ \A l \in gone : db[Line(l)] # NULL
  BY <1>3
<1>5. Node(n) \in Key /\ \A l \in LineId : Line(l) \in Key /\ Line(l) \in LineKeys
  BY Keys, KeyTables
<1>6. rows \in SUBSET Key
  BY <1>4, <1>5, Keys
<1>7. DbOk(d1) /\ Kept(db, d1)
  BY <1>2, ExtendedRows
<1> HIDE DEF d1
<1> HIDE DEF joins
<1> HIDE DEF kept, gone, rows
<1>8. DbOk(d2) /\ Kept(d1, d2)
  <2>1. \A l \in kept : d1[Line(l)] # NULL
    BY <1>4, <1>5, <1>7 DEF Kept
  <2> QED BY <1>4, <1>7, <2>1, MeasuredType
<1> HIDE DEF d2
<1>9. DbOk(d3) /\ Kept(d2, d3)
  <2>1. \A l \in gone : d2[Line(l)] # NULL
    BY <1>4, <1>5, <1>7, <1>8 DEF Kept
  <2> QED BY <1>2, <1>4, <1>8, <2>1, RemoveLinesType
<1> HIDE DEF d3
<1>10. DbOk(d4)
  <2>1. d3[Node(n)] # NULL
    BY <1>1, <1>5, <1>7, <1>8, <1>9 DEF Kept
  <2> QED BY <1>2, <1>9, <2>1, RemoveNodeType
<1> HIDE DEF d4
<1> QED BY <1>1, <1>6, <1>10, CommitType DEF OpName, TypeOK, SeqType

\* Rows of the cards and the flags are deleted.
LEMMA Deleted ==
  ASSUME NEW d, DbOk(d), NEW S
  PROVE  DbOk(Update(d, S, LAMBDA k : NULL))
<1>1. /\ DOMAIN Update(d, S, LAMBDA k : NULL) = Key
      /\ \A k \in Key : Update(d, S, LAMBDA m : NULL)[k] \in {d[k], NULL}
  BY DEF Update
<1> QED BY <1>1, Replaced DEF RowOk, Update

LEMMA ChangeNodeTypeType ==
  ASSUME TypeOK, NEW a \in Actor, NEW n \in NodeId, NEW table, ChangeNodeType(a, n, table)
  PROVE  TypeOK'
<1> DEFINE cards == TypesAt(db, n)
           same  == {k \in cards : k[1] = table}
           keep  == {k \in same : \A j \in same : k[2] <= j[2]}
           new   == IF keep = {} THEN NewCards(table) ELSE {}
           d1    == Update(db, cards \ keep, LAMBDA k : NULL)
           d2    == Update(d1, {Node(n)}, LAMBDA k : [d1[k] EXCEPT !.stamp = clock])
           d3    == WithCards(d2, new, n)
           rows  == {Node(n)} \cup (cards \ keep) \cup new
<1>1. /\ Commit(a, "CHANGE_NODE_TYPE", rows, d3)
      /\ seq' = [seq EXCEPT !.card = @ + Cardinality(new)]
      /\ new \subseteq TypeKeys /\ db[Node(n)] # NULL
  BY DEF ChangeNodeType, Active
<1>2. clock \in Stamp /\ DbOk(db)
  BY <1>1, BoundsAssumption DEF Commit, TypeOK, Stamp
<1>3. Node(n) \in Key /\ Node(n) \in NodeKeys /\ cards \in SUBSET TypeKeys /\ TypeKeys \subseteq Key
  BY Keys, KeyTables DEF TypesAt, Key
<1>4. rows \in SUBSET Key
  BY <1>1, <1>3
<1>5. seq' \in SeqType
  <2>1. CASE keep = {}
    BY <1>1, <2>1, NewCardsType
  <2>2. CASE keep # {}
    <3>1. Cardinality(new) = 0 /\ seq \in SeqType
      BY <2>2, FS_EmptySet DEF TypeOK, SeqType
    <3> QED BY <1>1, <3>1 DEF SeqType
  <2> QED BY <2>1, <2>2
<1> HIDE DEF cards, keep, new, rows
<1>6. DbOk(d1) /\ d1[Node(n)] = db[Node(n)]
  BY <1>2, <1>3, Deleted, TablesDisjoint DEF Update
<1>7. DbOk(d2)
  <2>1. d1[Node(n)] \in NodeRow
    BY <1>1, <1>6, NodeRows
  <2>2. d2[Node(n)] \in NodeRow
    BY <1>2, <1>3, <2>1 DEF Update, NodeRow
  <2>3. DOMAIN d2 = Key /\ \A k \in Key : k # Node(n) => d2[k] = d1[k]
    BY DEF Update
  <2> HIDE DEF d2, d1
  <2> QED BY <1>3, <1>6, <2>2, <2>3, Replaced DEF RowOk
<1> HIDE DEF d2
<1>8. DbOk(d3)
  BY <1>1, <1>7, WithCardsType
<1> HIDE DEF d3
<1> QED BY <1>1, <1>4, <1>5, <1>8, CommitType DEF OpName

LEMMA SetFlagType ==
  ASSUME TypeOK, NEW a \in Actor, NEW n \in NodeId, SetFlag(a, n)
  PROVE  TypeOK'
<1> DEFINE k == <<FlagTable, NextCard>>
           d == WithCards(db, {k}, n)
<1>1. /\ Commit(a, "SET_NODE_FLAG", {k}, d) /\ k \in FlagKeys
      /\ seq' = [seq EXCEPT !.card = NextCard]
  BY DEF SetFlag
<1>2. DbOk(d)
  BY <1>1, WithCardsType DEF TypeOK
<1>3. NextCard \in 0 .. MaxCard
  BY <1>1 DEF FlagKeys, CardId
<1>4. seq' \in SeqType
  BY <1>1, <1>3 DEF TypeOK, SeqType
<1>5. {k} \in SUBSET Key
  BY <1>1 DEF Key
<1> HIDE DEF d, k
<1> QED BY <1>1, <1>2, <1>4, <1>5, CommitType DEF OpName

LEMMA ClearFlagType ==
  ASSUME TypeOK, NEW a \in Actor, NEW n \in NodeId, ClearFlag(a, n)
  PROVE  TypeOK'
<1> DEFINE flags == FlagsAt(db, n)
           d == Update(db, flags, LAMBDA k : NULL)
<1>1. Commit(a, "SET_NODE_FLAG", flags, d) /\ UNCHANGED seq
  BY DEF ClearFlag
<1>2. DbOk(d)
  BY Deleted DEF TypeOK
<1>3. flags \in SUBSET Key
  BY Keys
<1> HIDE DEF d, flags
<1> QED BY <1>1, <1>2, <1>3, CommitType DEF OpName, TypeOK, SeqType

\* Undo and redo rewrite one entry of the journal.
LEMMA RewriteType ==
  ASSUME TypeOK, NEW n \in DOMAIN journal, NEW e, EntryOk(e),
         journal' = [journal EXCEPT ![n] = e], DbOk(db'),
         clock <= MaxClock, clock' = clock + 1, UNCHANGED seq
  PROVE  TypeOK'
<1>1. /\ DOMAIN journal' = DOMAIN journal
      /\ \A i \in DOMAIN journal : i # n => journal'[i] = journal[i]
      /\ journal'[n] = e
  OBVIOUS
<1>2. journal' \in Seq({journal'[i] : i \in DOMAIN journal'})
  <2> DEFINE T == {journal[i] : i \in DOMAIN journal} \cup {e}
  <2>1. journal \in Seq(T) /\ e \in T
    BY DEF TypeOK
  <2>2. journal' \in Seq(T)
    BY <2>1
  <2>3. \A s \in Seq(T) : s \in Seq({s[i] : i \in DOMAIN s})
    BY SeqOfElements
  <2> HIDE DEF T
  <2> QED BY <2>2, <2>3
<1>3. \A i \in DOMAIN journal' : EntryOk(journal'[i])
  BY <1>1 DEF TypeOK
<1>4. clock' \in 1 .. MaxClock + 1
  BY BoundsAssumption, SMTT(20) DEF TypeOK
<1>5. seq' \in SeqType
  BY DEF TypeOK, SeqType
<1> QED BY <1>2, <1>3, <1>4, <1>5 DEF TypeOK, SeqType, DbOk, RowOk, EntryOk, ImageOk

LEMMA UndoType ==
  ASSUME TypeOK, NEW a \in Actor, Undo(a)
  PROVE  TypeOK'
<1>1. PICK n \in Undoable(a) :
        /\ Unchanged(journal[n].after)
        /\ journal' = [journal EXCEPT ![n].undone = clock,
                                      ![n].redo = Image(db, DOMAIN journal[n].after)]
        /\ db' = Restore(db, journal[n].before)
  BY DEF Undo
<1>2. n \in DOMAIN journal /\ EntryOk(journal[n])
  BY DEF Undoable, Mine, TypeOK
<1>3. clock \in 1 .. MaxClock /\ clock <= MaxClock /\ clock' = clock + 1 /\ UNCHANGED seq
  BY BoundsAssumption DEF Undo, TypeOK
<1> DEFINE image == Image(db, DOMAIN journal[n].after)
           e == [journal[n] EXCEPT !.undone = clock, !.redo = image]
<1>4. EntryOk(e)
  <2>1. ImageOk(image) /\ DOMAIN image = DOMAIN journal[n].after
    BY <1>2, ImageType DEF EntryOk, ImageOk, TypeOK
  <2> HIDE DEF image
  <2> QED BY <1>2, <1>3, <2>1 DEF EntryOk
<1>5. journal' = [journal EXCEPT ![n] = e]
  BY <1>1, <1>2
<1>6. DbOk(db')
  BY <1>1, <1>2, RestoreType DEF EntryOk, TypeOK
<1> HIDE DEF e, image
<1> QED BY <1>2, <1>3, <1>4, <1>5, <1>6, RewriteType

LEMMA RedoType ==
  ASSUME TypeOK, NEW a \in Actor, Redo(a)
  PROVE  TypeOK'
<1>1. PICK n \in Redoable(a) :
        /\ Unchanged(journal[n].before)
        /\ journal' = [journal EXCEPT ![n].undone = 0]
        /\ db' = Restore(db, journal[n].redo)
  BY DEF Redo
<1>2. n \in DOMAIN journal /\ EntryOk(journal[n]) /\ journal[n].redo # NULL
  BY DEF Redoable, Reopened, Mine, TypeOK
<1>3. clock <= MaxClock /\ clock' = clock + 1 /\ UNCHANGED seq
  BY DEF Redo
<1> DEFINE e == [journal[n] EXCEPT !.undone = 0]
<1>4. EntryOk(e)
  BY <1>2, BoundsAssumption DEF EntryOk
<1>5. journal' = [journal EXCEPT ![n] = e]
  BY <1>1, <1>2
<1>6. DbOk(db')
  BY <1>1, <1>2, RestoreType DEF EntryOk, TypeOK
<1> HIDE DEF e
<1> QED BY <1>2, <1>3, <1>4, <1>5, <1>6, RewriteType

\* The rows, the images in the journal and the counters keep their types,
\* whatever the users do (TypeOK).
THEOREM TypeCorrect == Spec => []TypeOK
<1>1. Init => TypeOK
  <2> SUFFICES ASSUME Init PROVE TypeOK
    OBVIOUS
  <2>1. journal \in Seq({journal[i] : i \in DOMAIN journal})
    BY DEF Init
  <2>2. clock \in 1 .. MaxClock + 1
    BY BoundsAssumption DEF Init
  <2> QED BY <2>1, <2>2, InitialDbAssumption DEF Init, TypeOK
<1>2. TypeOK /\ [Next]_vars => TypeOK'
  <2> SUFFICES ASSUME TypeOK, [Next]_vars PROVE TypeOK'
    OBVIOUS
  <2>1. ASSUME NEW a \in Actor, EditNode(a) PROVE TypeOK'
    BY <2>1, MoveNodeType, DeleteNodeType, MergeNodesType, DissolveNodeType,
       ChangeNodeTypeType, SetFlagType, ClearFlagType DEF EditNode
  <2>2. ASSUME NEW a \in Actor, EditLine(a) PROVE TypeOK'
    BY <2>2, DeleteLineType, ReverseLineType, UpdateGeometryType, SplitLineType DEF EditLine
  <2>3. ASSUME NEW a \in Actor, Create(a) PROVE TypeOK'
    BY <2>3, CreateNodeType, CreateLineType DEF Create
  <2>4. ASSUME UNCHANGED vars PROVE TypeOK'
    BY <2>4 DEF vars, TypeOK, DbOk, RowOk, EntryOk, ImageOk
  <2> QED BY <2>1, <2>2, <2>3, <2>4, UndoType, RedoType DEF Next
<1> QED BY <1>1, <1>2, PTL DEF Spec

(***************************************************************************)
(* The journal captures every row an operation changes (JournalCovers).     *)
(* Each statement changes the rows it names and no other; an operation      *)
(* captures, before its first statement, the rows its statements name.      *)
(***************************************************************************)
\* The databases agree on the keys outside S.
SameOutside(S, d, e) == \A k \in Key \ S : e[k] = d[k]

(***************************************************************************)
(* What a statement leaves alone.                                           *)
(***************************************************************************)
LEMMA Frames ==
  /\ \A d, L, n, now : SameOutside(LineKeysOf(L), d, SnapEnds(d, L, n, now))
  /\ \A d, L : SameOutside(PipeKeysOf(d, L), d, Measured(d, L))
  /\ \A d, L, now :
       SameOutside(LineKeysOf(L) \cup PipeKeysOf(d, L), d, RemoveLines(d, L, now))
  /\ \A d, n, now : SameOutside({Node(n)}, d, RemoveNode(d, n, now))
  /\ \A d, L, now : SameOutside(LineKeysOf(L), d, Turned(d, L, now))
  /\ \A d, L, t, s : SameOutside(LineKeysOf(L), d, Relinked(d, L, t, s))
  /\ \A d, S, n : SameOutside(S, d, WithCards(d, S, n))
<1>1. \A d, L, n, now : SameOutside(LineKeysOf(L), d, SnapEnds(d, L, n, now))
  BY DEF SameOutside, SnapEnds, Update
<1>2. \A d, L : SameOutside(PipeKeysOf(d, L), d, Measured(d, L))
  BY DEF SameOutside, Measured, Update
<1>3. \A d, L, now :
        SameOutside(LineKeysOf(L) \cup PipeKeysOf(d, L), d, RemoveLines(d, L, now))
  BY DEF SameOutside, RemoveLines, Update
<1>4. \A d, n, now : SameOutside({Node(n)}, d, RemoveNode(d, n, now))
  BY DEF SameOutside, RemoveNode, Update
<1>5. \A d, L, now : SameOutside(LineKeysOf(L), d, Turned(d, L, now))
  BY DEF SameOutside, Turned, Update
<1>6. \A d, L, t, s : SameOutside(LineKeysOf(L), d, Relinked(d, L, t, s))
  BY DEF SameOutside, Relinked, Update
<1>7. \A d, S, n : SameOutside(S, d, WithCards(d, S, n))
  BY DEF SameOutside, WithCards, Update
<1> QED BY <1>1, <1>2, <1>3, <1>4, <1>5, <1>6, <1>7

\* One statement after another.
LEMMA Composed ==
  ASSUME NEW S, NEW T, NEW U, S \subseteq U, T \subseteq U,
         NEW d, NEW e, NEW f, SameOutside(S, d, e), SameOutside(T, e, f)
  PROVE  SameOutside(U, d, f)
BY DEF SameOutside

\* A passport is not created by a statement that does not name it.
LEMMA PipesNamed ==
  ASSUME NEW d, NEW e, NEW S, SameOutside(S, d, e), NEW L \in SUBSET LineId,
         \A l \in L : Pipe(l) \notin S
  PROVE  PipeKeysOf(e, L) = PipeKeysOf(d, L)
<1>1. \A l \in L : Pipe(l) \in Key
  BY Keys
<1> QED BY <1>1 DEF SameOutside, PipeKeysOf

\* Measuring and removing lines, when what went before has not touched their
\* passports.
LEMMA MeasuredCovered ==
  ASSUME NEW e, NEW S, SameOutside(S, db, e), NEW L \in SUBSET LineId,
         \A l \in L : Pipe(l) \notin S
  PROVE  SameOutside(S \cup PipeKeysOf(db, L), db, Measured(e, L))
<1>1. PipeKeysOf(e, L) = PipeKeysOf(db, L)
  BY PipesNamed
<1>2. SameOutside(PipeKeysOf(db, L), e, Measured(e, L))
  BY <1>1, Frames
<1> QED BY <1>2, Composed

LEMMA RemovedCovered ==
  ASSUME NEW e, NEW S, SameOutside(S, db, e), NEW L \in SUBSET LineId,
         \A l \in L : Pipe(l) \notin S, NEW now
  PROVE  SameOutside(S \cup LinesWithPipes(L), db, RemoveLines(e, L, now))
<1>1. PipeKeysOf(e, L) = PipeKeysOf(db, L)
  BY PipesNamed
<1>2. SameOutside(LinesWithPipes(L), e, RemoveLines(e, L, now))
  BY <1>1, Frames DEF LinesWithPipes
<1> QED BY <1>2, Composed

LEMMA FirstRemoved ==
  ASSUME NEW L \in SUBSET LineId, NEW now
  PROVE  SameOutside(LinesWithPipes(L), db, RemoveLines(db, L, now))
BY Frames DEF LinesWithPipes

\* The passports are none of the lines and nodes.
LEMMA PipeKeysApart ==
  ASSUME NEW L \in SUBSET LineId, NEW l \in LineId
  PROVE  /\ Pipe(l) \notin LineKeysOf(L)
         /\ \A n \in NodeId : Pipe(l) # Node(n)
         /\ \A d : l \notin L => Pipe(l) \notin PipeKeysOf(d, L)
BY DEF Pipe, Line, Node, LineKeysOf, PipeKeysOf

(***************************************************************************)
(* An operation.                                                            *)
(***************************************************************************)
Covered ==
  Len(journal') > Len(journal) =>
    \A k \in Key : db'[k] # db[k] => k \in DOMAIN journal'[Len(journal')].before

LEMMA CommitCovers ==
  ASSUME TypeOK, NEW a, NEW op, NEW captured \in SUBSET Key, NEW d, Commit(a, op, captured, d),
         SameOutside(captured, db, d)
  PROVE  Covered
<1> DEFINE e == Entry(a, op, captured, d)
<1>1. DOMAIN e.before = captured
  BY DEF Entry, Image
<1>2. journal' = Append(journal, e) /\ db' = d
  BY DEF Commit
<1> HIDE DEF e
<1>3. journal'[Len(journal')] = e
  <2>1. journal \in Seq({journal[i] : i \in DOMAIN journal})
    BY DEF TypeOK
  <2> QED BY <1>2, <2>1, JournalAppend
<1> QED BY <1>1, <1>2, <1>3 DEF Covered, SameOutside

LEMMA MoveNodeCovers ==
  ASSUME TypeOK, NEW a, NEW n \in NodeId, NEW p, MoveNode(a, n, p)
  PROVE  Covered
<1> DEFINE inc == Incident(db, n)
           d1  == Update(db, {Node(n)}, LAMBDA k : [db[k] EXCEPT !.pos = p, !.stamp = clock])
           d2  == SnapEnds(d1, inc, n, clock)
           d3  == Measured(d2, inc)
           S   == {Node(n)} \cup LineKeysOf(inc)
<1>1. inc \in SUBSET LineId
  BY Keys
<1>2. SameOutside({Node(n)}, db, d1)
  BY DEF SameOutside, Update
<1>3. Commit(a, "MOVE", {Node(n)} \cup LinesWithPipes(inc), d3)
  BY DEF MoveNode, NodeMoved, IncidentLines
<1> HIDE DEF inc, d1
<1>4. SameOutside(S, db, d2)
  BY <1>2, Frames, Composed
<1> HIDE DEF d2
<1>5. SameOutside(S \cup PipeKeysOf(db, inc), db, d3)
  BY <1>1, <1>4, MeasuredCovered, PipeKeysApart
<1> HIDE DEF d3
<1>6. S \cup PipeKeysOf(db, inc) = {Node(n)} \cup LinesWithPipes(inc)
  BY DEF LinesWithPipes
<1>7. {Node(n)} \cup LinesWithPipes(inc) \in SUBSET Key
  BY <1>1, Keys
<1> QED BY <1>3, <1>5, <1>6, <1>7, CommitCovers

LEMMA DeleteNodeCovers ==
  ASSUME TypeOK, NEW a, NEW n \in NodeId, NEW cascade, DeleteNode(a, n, cascade)
  PROVE  Covered
<1> DEFINE inc == ActiveIncident(db, n)
           d1  == RemoveLines(db, inc, clock)
           d2  == RemoveNode(d1, n, clock)
<1>1. inc \in SUBSET LineId
  BY Keys
<1>2. Commit(a, "DELETE_NODE", {Node(n)} \cup LinesWithPipes(inc), d2)
  BY DEF DeleteNode, NodeDeleted
<1> HIDE DEF inc
<1>3. SameOutside(LinesWithPipes(inc), db, d1)
  BY <1>1, FirstRemoved
<1> HIDE DEF d1
<1>4. SameOutside({Node(n)} \cup LinesWithPipes(inc), db, d2)
  BY <1>3, Frames, Composed
<1> HIDE DEF d2
<1> QED BY <1>1, <1>2, <1>4, Keys, CommitCovers

LEMMA CreateNodeCovers ==
  ASSUME TypeOK, NEW a, NEW p, NEW table, CreateNode(a, p, table)
  PROVE  Covered
<1> DEFINE n     == NextNode
           cards == NewCards(table)
           d1    == Update(db, {Node(n)}, LAMBDA k : [pos |-> p, removed |-> FALSE, stamp |-> clock])
           d2    == WithCards(d1, cards, n)
<1>1. /\ n \in NodeId /\ cards \subseteq TypeKeys
      /\ Commit(a, "CREATE_NODE", {Node(n)} \cup cards, d2)
  BY DEF CreateNode
<1>2. SameOutside({Node(n)}, db, d1)
  BY DEF SameOutside, Update
<1>3. {Node(n)} \cup cards \in SUBSET Key
  BY <1>1, Keys DEF Key
<1> HIDE DEF n, cards, d1
<1>4. SameOutside({Node(n)} \cup cards, db, d2)
  BY <1>2, Frames, Composed
<1> HIDE DEF d2
<1> QED BY <1>1, <1>3, <1>4, CommitCovers

LEMMA CreateLineCovers ==
  ASSUME TypeOK, NEW a, NEW x, NEW y, CreateLine(a, x, y)
  PROVE  Covered
<1> DEFINE l == NextLine
           d == NewLine(db, l, x, y, clock)
<1>1. l \in LineId /\ Commit(a, "CREATE_LINE", {Line(l), Pipe(l)}, d)
  BY DEF CreateLine
<1>2. SameOutside({Line(l), Pipe(l)}, db, d)
  BY DEF SameOutside, NewLine, Update
<1> HIDE DEF d, l
<1> QED BY <1>1, <1>2, Keys, CommitCovers

LEMMA DeleteLineCovers ==
  ASSUME TypeOK, NEW a, NEW l \in LineId, NEW pair \in BOOLEAN, DeleteLine(a, l, pair)
  PROVE  Covered
<1> DEFINE L == WithPair(l, pair)
           d == RemoveLines(db, L, clock)
<1>1. L \in SUBSET LineId
  BY WithPairLines DEF DeleteLine
<1>2. Commit(a, "DELETE_LINE", LinesWithPipes(L), d)
  BY DEF DeleteLine, WithPair
<1> HIDE DEF L
<1>3. SameOutside(LinesWithPipes(L), db, d)
  BY <1>1, FirstRemoved
<1> HIDE DEF d
<1> QED BY <1>1, <1>2, <1>3, Keys, CommitCovers

LEMMA ReverseLineCovers ==
  ASSUME TypeOK, NEW a, NEW l \in LineId, NEW pair \in BOOLEAN, ReverseLine(a, l, pair)
  PROVE  Covered
<1> DEFINE L == WithPair(l, pair)
           d == Turned(db, L, clock)
<1>1. L \in SUBSET LineId
  BY WithPairLines DEF ReverseLine
<1>2. Commit(a, "REVERSE", LineKeysOf(L), d)
  BY DEF ReverseLine, WithPair
<1> HIDE DEF L
<1>3. SameOutside(LineKeysOf(L), db, d)
  BY Frames
<1> HIDE DEF d
<1> QED BY <1>1, <1>2, <1>3, Keys, CommitCovers

LEMMA UpdateGeometryCovers ==
  ASSUME TypeOK, NEW a, NEW l \in LineId, NEW via, UpdateGeometry(a, l, via)
  PROVE  Covered
<1> DEFINE d1 == Update(db, {Line(l)}, LAMBDA k : [db[k] EXCEPT !.shape.via = via])
           d2 == SnapEnds(d1, {l}, db[Line(l)].n1, clock)
           d3 == SnapEnds(d2, {l}, db[Line(l)].n2, clock)
           d4 == Measured(d3, {l})
<1>1. Commit(a, "GEOMETRY", LinesWithPipes({l}), d4)
  BY DEF UpdateGeometry, Reshaped
<1>2. SameOutside(LineKeysOf({l}), db, d1)
  BY DEF SameOutside, Update, LineKeysOf
<1> HIDE DEF d1
<1>3. SameOutside(LineKeysOf({l}), db, d2)
  BY <1>2, Frames, Composed
<1> HIDE DEF d2
<1>4. SameOutside(LineKeysOf({l}), db, d3)
  BY <1>3, Frames, Composed
<1> HIDE DEF d3
<1>5. SameOutside(LinesWithPipes({l}), db, d4)
  BY <1>4, MeasuredCovered, PipeKeysApart DEF LinesWithPipes
<1> HIDE DEF d4
<1> QED BY <1>1, <1>5, Keys, CommitCovers

LEMMA SplitLineCovers ==
  ASSUME TypeOK, NEW a, NEW l \in LineId, NEW p, NEW via1, NEW via2,
         NEW toNew \in SUBSET Review(db, l), SplitLine(a, l, p, via1, via2, toNew)
  PROVE  Covered
<1> DEFINE n     == NextNode
           m     == NextLine
           moved == FollowsEnd(db, l) \cup toNew
           d1    == Halves(db, l, n, m, p, via1, via2, clock)
           d2    == Update(d1, moved, LAMBDA k : [db[k] EXCEPT !.lineid = m])
           new   == {Node(n), Line(m), Pipe(m)}
           halves == {Line(l), Pipe(l)} \cup new
<1>1. /\ Commit(a, "SPLIT", SplitCaptured(l, n, m), d2)
      /\ n \in NodeId /\ m \in LineId /\ db[Pipe(l)] # NULL
  BY DEF SplitLine
<1> HIDE DEF n, m
<1>2. SameOutside(halves, db, d1)
  BY DEF SameOutside, Halves, Measured, PipeKeysOf, Update
<1>3. SameOutside(moved, d1, d2)
  BY DEF SameOutside, Update
<1>4. halves \subseteq SplitCaptured(l, n, m)
  BY <1>1 DEF SplitCaptured, LinesWithPipes, LineKeysOf, PipeKeysOf
<1>5. moved \subseteq SplitCaptured(l, n, m)
  BY DEF SplitCaptured, FollowsEnd, Review
<1>6. SplitCaptured(l, n, m) \in SUBSET Key
  BY <1>1, Keys DEF SplitCaptured
<1> HIDE DEF d1, d2, moved, halves
<1>7. SameOutside(SplitCaptured(l, n, m), db, d2)
  BY <1>2, <1>3, <1>4, <1>5, Composed
<1> QED BY <1>1, <1>6, <1>7, CommitCovers

LEMMA MergeNodesCovers ==
  ASSUME TypeOK, NEW a, NEW t \in NodeId, NEW s \in NodeId, MergeNodes(a, t, s)
  PROVE  Covered
<1> DEFINE gone  == Connecting(db, t, s)
           lines == ActiveIncident(db, s) \ gone
           refs  == NodeRefs(db, s)
           r     == RemoveLines(db, gone, clock)
           d0    == Relinked(r, lines, t, s)
           d1    == SnapEnds(d0, lines, t, clock)
           d2    == Measured(d1, lines)
           d3    == Update(d2, refs, LAMBDA k : [d2[k] EXCEPT !.nodeid = t])
           d4    == Update(d3, {Node(t)}, LAMBDA k : [d3[k] EXCEPT !.stamp = clock])
           d5    == RemoveNode(d4, s, clock)
           S     == LinesWithPipes(gone) \cup LineKeysOf(lines)
           C     == {Node(t), Node(s)} \cup LinesWithPipes(gone \cup lines) \cup refs
<1>1. Commit(a, "MERGE", C, d5)
  <2>1. gone \cup lines = ActiveIncident(db, s)
    BY DEF Connecting
  <2> QED BY <2>1 DEF MergeNodes, NodesMerged
<1>2. gone \in SUBSET LineId /\ lines \in SUBSET LineId /\ gone \cap lines = {}
  BY Keys DEF Connecting
<1>3. C \in SUBSET Key
  BY <1>2, Keys
<1> HIDE DEF gone, lines, refs
<1>4. SameOutside(LinesWithPipes(gone), db, r)
  BY <1>2, FirstRemoved
<1> HIDE DEF r
<1>5. SameOutside(S, db, d0)
  BY <1>4, Frames, Composed
<1> HIDE DEF d0
<1>6. SameOutside(S, db, d1)
  BY <1>5, Frames, Composed
<1> HIDE DEF d1
<1>7. SameOutside(S \cup PipeKeysOf(db, lines), db, d2)
  <2>1. \A l \in lines : Pipe(l) \notin S
    BY <1>2, PipeKeysApart DEF LinesWithPipes
  <2> HIDE DEF S
  <2> QED BY <1>2, <1>6, <2>1, MeasuredCovered
<1> HIDE DEF d2
<1>8. SameOutside(refs, d2, d3) /\ SameOutside({Node(t)}, d3, d4)
  BY DEF SameOutside, Update
<1> HIDE DEF d3, d4
<1>9. SameOutside({Node(s)}, d4, d5)
  BY Frames
<1> HIDE DEF d5
<1>10. /\ S \cup PipeKeysOf(db, lines) \subseteq C /\ refs \subseteq C
       /\ {Node(t)} \subseteq C /\ {Node(s)} \subseteq C
  BY DEF LinesWithPipes, LineKeysOf, PipeKeysOf
<1> HIDE DEF S, C
<1>11. SameOutside(C, db, d3)
  BY <1>7, <1>8, <1>10, Composed
<1>12. SameOutside(C, db, d4)
  BY <1>8, <1>10, <1>11, Composed
<1>13. SameOutside(C, db, d5)
  BY <1>9, <1>10, <1>12, Composed
<1> QED BY <1>1, <1>3, <1>13, CommitCovers

LEMMA DissolveNodeCovers ==
  ASSUME TypeOK, NEW a, NEW n \in NodeId, DissolveNode(a, n)
  PROVE  Covered
<1> DEFINE joins == Joins(db, n)
           kept  == {j[1] : j \in joins}
           gone  == {j[2] : j \in joins}
           d1    == Extended(db, joins, n, clock)
           d2    == Measured(d1, kept)
           d3    == RemoveLines(d2, gone, clock)
           d4    == RemoveNode(d3, n, clock)
           S     == LineKeysOf(kept) \cup PipeKeysOf(db, kept)
           C     == {Node(n)} \cup LinesWithPipes(kept \cup gone)
<1>1. Commit(a, "DISSOLVE_NODE", C, d4)
  BY DEF DissolveNode, NodeDissolved
<1>2. kept \in SUBSET LineId /\ gone \in SUBSET LineId /\ kept \cap gone = {}
  <2>1. ActiveIncident(db, n) \subseteq LineId
    BY Keys
  <2> QED BY <2>1 DEF Joins, KeptLines
<1>3. C \in SUBSET Key
  BY <1>2, Keys
<1>4. SameOutside(LineKeysOf(kept), db, d1)
  BY DEF SameOutside, Extended, LineKeysOf
<1> HIDE DEF joins, kept, gone, d1
<1>5. SameOutside(S, db, d2)
  BY <1>2, <1>4, MeasuredCovered, PipeKeysApart
<1> HIDE DEF d2
<1>6. SameOutside(S \cup LinesWithPipes(gone), db, d3)
  <2>1. \A l \in gone : Pipe(l) \notin S
    BY <1>2, PipeKeysApart
  <2> HIDE DEF S
  <2> QED BY <1>2, <1>5, <2>1, RemovedCovered
<1> HIDE DEF d3
<1>7. SameOutside({Node(n)}, d3, d4)
  BY Frames
<1> HIDE DEF d4
<1>8. S \cup LinesWithPipes(gone) \subseteq C /\ {Node(n)} \subseteq C
  BY DEF LinesWithPipes, LineKeysOf, PipeKeysOf
<1> HIDE DEF S, C
<1>9. SameOutside(C, db, d4)
  BY <1>6, <1>7, <1>8, Composed
<1> QED BY <1>1, <1>3, <1>9, CommitCovers

LEMMA ChangeNodeTypeCovers ==
  ASSUME TypeOK, NEW a, NEW n \in NodeId, NEW table, ChangeNodeType(a, n, table)
  PROVE  Covered
<1> DEFINE cards == TypesAt(db, n)
           same  == {k \in cards : k[1] = table}
           keep  == {k \in same : \A j \in same : k[2] <= j[2]}
           out   == cards \ keep
           new   == IF keep = {} THEN NewCards(table) ELSE {}
           d1    == Update(db, out, LAMBDA k : NULL)
           d2    == Update(d1, {Node(n)}, LAMBDA k : [d1[k] EXCEPT !.stamp = clock])
           d3    == WithCards(d2, new, n)
           C     == {Node(n)} \cup out \cup new
<1>1. Commit(a, "CHANGE_NODE_TYPE", C, d3) /\ new \subseteq TypeKeys
  BY DEF ChangeNodeType
<1>2. out \subseteq Key
  BY Keys
<1> HIDE DEF out, new
<1>3. C \in SUBSET Key
  BY <1>1, <1>2, Keys DEF Key
<1>4. SameOutside(out, db, d1) /\ SameOutside({Node(n)}, d1, d2)
  BY DEF SameOutside, Update
<1> HIDE DEF d1, d2
<1>5. SameOutside(new, d2, d3)
  BY Frames
<1> HIDE DEF d3
<1>6. out \subseteq C /\ {Node(n)} \subseteq C /\ new \subseteq C
  OBVIOUS
<1> HIDE DEF C
<1>7. SameOutside(C, db, d2)
  BY <1>4, <1>6, Composed
<1>8. SameOutside(C, db, d3)
  BY <1>5, <1>6, <1>7, Composed
<1> QED BY <1>1, <1>3, <1>8, CommitCovers

LEMMA SetFlagCovers ==
  ASSUME TypeOK, NEW a, NEW n \in NodeId, SetFlag(a, n)
  PROVE  Covered
<1> DEFINE k == <<FlagTable, NextCard>>
           d == WithCards(db, {k}, n)
<1>1. Commit(a, "SET_NODE_FLAG", {k}, d) /\ k \in Key
  BY DEF SetFlag, Key
<1> HIDE DEF k
<1>2. SameOutside({k}, db, d)
  BY Frames
<1> HIDE DEF d
<1> QED BY <1>1, <1>2, CommitCovers

LEMMA ClearFlagCovers ==
  ASSUME TypeOK, NEW a, NEW n \in NodeId, ClearFlag(a, n)
  PROVE  Covered
<1> DEFINE flags == FlagsAt(db, n)
           d     == Update(db, flags, LAMBDA k : NULL)
<1>1. Commit(a, "SET_NODE_FLAG", flags, d)
  BY DEF ClearFlag
<1>2. SameOutside(flags, db, d)
  BY DEF SameOutside, Update
<1> HIDE DEF d
<1> QED BY <1>1, <1>2, Keys, CommitCovers

\* Undo and redo add nothing to the journal.
LEMMA EntryReplaced ==
  ASSUME NEW j, j \in Seq({j[i] : i \in DOMAIN j}), NEW n \in DOMAIN j, NEW e
  PROVE  Len([j EXCEPT ![n] = e]) = Len(j) /\ Len(j) \in Nat
<1> DEFINE T == {j[i] : i \in DOMAIN j} \cup {e}
<1>1. j \in Seq(T) /\ e \in T
  OBVIOUS
<1> HIDE DEF T
<1> QED BY <1>1

LEMMA UndoRedoCover ==
  ASSUME TypeOK, NEW a, Undo(a) \/ Redo(a)
  PROVE  Covered
<1>1. journal \in Seq({journal[i] : i \in DOMAIN journal})
  BY DEF TypeOK
<1>2. CASE Undo(a)
  <2>1. PICK n \in DOMAIN journal :
          journal' = [journal EXCEPT ![n].undone = clock,
                                     ![n].redo = Image(db, DOMAIN journal[n].after)]
    BY <1>2 DEF Undo, Undoable, Mine
  <2> DEFINE e == [journal[n] EXCEPT !.undone = clock, !.redo = Image(db, DOMAIN journal[n].after)]
  <2>2. journal' = [journal EXCEPT ![n] = e]
    BY <2>1
  <2> HIDE DEF e
  <2>3. Len(journal') = Len(journal)
    BY <1>1, <2>2, EntryReplaced
  <2> QED BY <2>3, <1>1 DEF Covered
<1>3. CASE Redo(a)
  <2>1. PICK n \in DOMAIN journal : journal' = [journal EXCEPT ![n].undone = 0]
    BY <1>3 DEF Redo, Redoable, Reopened, Mine
  <2> DEFINE e == [journal[n] EXCEPT !.undone = 0]
  <2>2. journal' = [journal EXCEPT ![n] = e]
    BY <2>1
  <2> HIDE DEF e
  <2>3. Len(journal') = Len(journal)
    BY <1>1, <2>2, EntryReplaced
  <2> QED BY <2>3, <1>1 DEF Covered
<1> QED BY <1>2, <1>3

LEMMA OperationCovers ==
  ASSUME TypeOK, NEW a \in Actor, EditNode(a) \/ EditLine(a) \/ Create(a)
  PROVE  Covered
<1>1. ASSUME EditNode(a) PROVE Covered
  BY <1>1, MoveNodeCovers, DeleteNodeCovers, MergeNodesCovers, DissolveNodeCovers,
     ChangeNodeTypeCovers, SetFlagCovers, ClearFlagCovers DEF EditNode
<1>2. ASSUME EditLine(a) PROVE Covered
  BY <1>2, DeleteLineCovers, ReverseLineCovers, UpdateGeometryCovers, SplitLineCovers
     DEF EditLine
<1>3. ASSUME Create(a) PROVE Covered
  BY <1>3, CreateNodeCovers, CreateLineCovers DEF Create
<1> QED BY <1>1, <1>2, <1>3

\* Whatever an operation changes is in the image its journal entry keeps
\* (JournalCovers): no statement of any of the twelve operations writes a row
\* that its capture has missed, and the undo can take all of it back.
THEOREM CaptureComplete == Spec => JournalCovers
<1>1. TypeOK /\ [Next]_vars => [Covered]_vars
  BY OperationCovers, UndoRedoCover DEF Next
<1>2. Spec => [][Covered]_vars
  BY <1>1, TypeCorrect, PTL DEF Spec
<1> QED BY <1>2 DEF JournalCovers, Covered

(***************************************************************************)
(* The length in a pipe's passport is the length of its line, through every *)
(* operation, undo and redo of any number of users (LengthsFollowLines).    *)
(*                                                                          *)
(* The property is not inductive: an undo puts back the rows of an old      *)
(* image, and a line put back without its passport would be out of step     *)
(* with it.  The invariant says in addition that the images are in step     *)
(* (EntrySized): an entry holds a line with its passport, or the line alone *)
(* when the operation has left its length as it was (a reversal), or the    *)
(* line never had a passport.                                               *)
(***************************************************************************)
\* The lines of the initial network that have no passport: they never get one.
PipeLess == {l \in LineId : InitialDb[Line(l)] # NULL /\ InitialDb[Pipe(l)] = NULL}

\* A line has a passport with its length.
Sized(line, pipe) == line # NULL => pipe # NULL /\ pipe.len = Length(line.shape)

AllSized(d) ==
  /\ \A l \in LineId \ PipeLess : Sized(d[Line(l)], d[Pipe(l)])
  /\ \A l \in PipeLess : d[Pipe(l)] = NULL

\* The line is there before and after, and is as long after as before.
SameLength(line, after) ==
  line # NULL /\ after # NULL /\ Length(line.shape) = Length(after.shape)

\* The rows captured of d, which an operation turns into e.
CapturedSized(captured, d, e) ==
  \A l \in LineId :
    /\ Pipe(l) \in captured =>
         /\ l \notin PipeLess /\ Line(l) \in captured
         /\ Sized(d[Line(l)], d[Pipe(l)]) /\ Sized(e[Line(l)], e[Pipe(l)])
    /\ l \notin PipeLess /\ Line(l) \in captured /\ Pipe(l) \notin captured =>
         SameLength(d[Line(l)], e[Line(l)])

EntrySized(e) ==
  /\ CapturedSized(DOMAIN e.before, e.before, e.after)
  /\ e.redo # NULL => \A k \in DOMAIN e.before : e.redo[k] = e.after[k]

SizedInv ==
  /\ AllSized(db)
  /\ \A i \in DOMAIN journal : EntrySized(journal[i])
  /\ \A l \in PipeLess : l <= seq.line

LEMMA SizedImplies ==
  ASSUME SizedInv
  PROVE  LengthsFollowLines
BY DEF SizedInv, AllSized, Sized, LengthsFollowLines, LengthOk

(***************************************************************************)
(* The statements.                                                          *)
(***************************************************************************)
\* The lines and the passports are as they were.
LEMMA OthersSized ==
  ASSUME NEW d, AllSized(d), NEW e, NEW S, SameOutside(S, d, e),
         S \cap (LineKeys \cup PipeKeys) = {}
  PROVE  AllSized(e)
<1>1. \A l \in LineId : e[Line(l)] = d[Line(l)] /\ e[Pipe(l)] = d[Pipe(l)]
  BY KeyTables DEF SameOutside, Key
<1> QED BY <1>1 DEF AllSized, Sized, PipeLess

\* Some lines are given another shape and their passports are measured.
LEMMA MeasuredSized ==
  ASSUME NEW d, AllSized(d), NEW e, DbOk(e), NEW L \in SUBSET LineId,
         \A l \in L : e[Line(l)] # NULL,
         \A l \in LineId \ L : e[Line(l)] = d[Line(l)] /\ e[Pipe(l)] = d[Pipe(l)],
         \A l \in L \ PipeLess : e[Pipe(l)] # NULL,
         \A l \in PipeLess : e[Pipe(l)] = NULL
  PROVE  AllSized(Measured(e, L))
<1> DEFINE f == Measured(e, L)
<1>1. Kept(e, f)
  BY MeasuredType
<1>2. \A l \in LineId : f[Line(l)] = e[Line(l)]
  <2>1. \A l \in LineId : Line(l) \in Key /\ Line(l) \notin PipeKeysOf(e, L)
    BY Keys DEF Line, Pipe, PipeKeysOf
  <2> QED BY <2>1 DEF Measured, Update
<1>3. \A l \in LineId \ L : f[Pipe(l)] = e[Pipe(l)]
  BY Keys DEF Measured, Update, PipeKeysOf, Pipe
<1>4. ASSUME NEW l \in L, e[Pipe(l)] # NULL
      PROVE  f[Pipe(l)].len = Length(f[Line(l)].shape)
  <2>1. e[Pipe(l)] \in PipeRow
    BY <1>4, PipeRows
  <2>2. Pipe(l) \in PipeKeysOf(e, L) /\ Pipe(l)[2] = l /\ Pipe(l) \in Key
    BY <1>4, Keys DEF PipeKeysOf, Pipe
  <2>3. f[Pipe(l)] = [e[Pipe(l)] EXCEPT !.len = Length(e[Line(l)].shape)]
    BY <2>2 DEF Measured, Update
  <2> QED BY <2>1, <2>3, <1>2 DEF PipeRow
<1> HIDE DEF f
<1>5. ASSUME NEW l \in LineId \ PipeLess PROVE Sized(f[Line(l)], f[Pipe(l)])
  <2>1. CASE l \in L
    BY <2>1, <1>1, <1>4, Keys DEF Sized, Kept
  <2>2. CASE l \notin L
    <3>1. f[Line(l)] = d[Line(l)] /\ f[Pipe(l)] = d[Pipe(l)]
      BY <2>2, <1>2, <1>3
    <3> QED BY <3>1 DEF AllSized
  <2> QED BY <2>1, <2>2
<1>6. \A l \in PipeLess : f[Pipe(l)] = NULL
  BY <1>1, Keys DEF Kept, PipeLess
<1>7. AllSized(f)
  BY <1>5, <1>6 DEF AllSized
<1> QED BY <1>7 DEF f

\* Removed lines keep their shape and their passports' length.
LEMMA RemovedSized ==
  ASSUME NEW d, AllSized(d), DbOk(d), NEW L \in SUBSET LineId, NEW now \in Stamp,
         \A l \in L : d[Line(l)] # NULL
  PROVE  AllSized(RemoveLines(d, L, now))
<1> DEFINE f == RemoveLines(d, L, now)
<1>1. DbOk(f) /\ Kept(d, f)
  BY RemoveLinesType
<1>2. ASSUME NEW l \in LineId, d[Line(l)] # NULL PROVE f[Line(l)].shape = d[Line(l)].shape
  <2>1. d[Line(l)] \in LineRow /\ Line(l) \in Key
    BY <1>2, LineRows, Keys
  <2>2. Line(l) \notin PipeKeysOf(d, L)
    BY DEF Line, Pipe, PipeKeysOf
  <2>3. f[Line(l)] = d[Line(l)] \/ f[Line(l)] = [d[Line(l)] EXCEPT !.removed = TRUE, !.stamp = now]
    BY <2>1, <2>2 DEF RemoveLines, Update
  <2> QED BY <2>1, <2>3 DEF LineRow
<1>3. ASSUME NEW l \in LineId, d[Pipe(l)] # NULL PROVE f[Pipe(l)].len = d[Pipe(l)].len
  <2>1. d[Pipe(l)] \in PipeRow /\ Pipe(l) \in Key
    BY <1>3, PipeRows, Keys
  <2>2. Pipe(l) \notin LineKeysOf(L)
    BY DEF Line, Pipe, LineKeysOf
  <2>3. f[Pipe(l)] = d[Pipe(l)] \/ f[Pipe(l)] = [d[Pipe(l)] EXCEPT !.removed = TRUE]
    BY <2>1, <2>2 DEF RemoveLines, Update
  <2> QED BY <2>1, <2>3 DEF PipeRow
<1> HIDE DEF f
<1>4. ASSUME NEW l \in LineId \ PipeLess PROVE Sized(f[Line(l)], f[Pipe(l)])
  <2>1. CASE f[Line(l)] = NULL
    BY <2>1 DEF Sized
  <2>2. CASE f[Line(l)] # NULL
    <3>1. d[Line(l)] # NULL
      BY <2>2, <1>1, Keys DEF Kept
    <3>2. d[Pipe(l)] # NULL /\ d[Pipe(l)].len = Length(d[Line(l)].shape)
      BY <3>1 DEF AllSized, Sized
    <3>3. f[Pipe(l)] # NULL
      BY <3>2, <1>1, Keys DEF Kept
    <3> QED BY <3>1, <3>2, <3>3, <1>2, <1>3 DEF Sized
  <2> QED BY <2>1, <2>2
<1>5. \A l \in PipeLess : f[Pipe(l)] = NULL
  BY <1>1, Keys DEF Kept, AllSized, PipeLess
<1>6. AllSized(f)
  BY <1>4, <1>5 DEF AllSized
<1> QED BY <1>6 DEF f

(***************************************************************************)
(* The end of an operation.                                                 *)
(***************************************************************************)
\* An operation that captures its lines with their passports, and no other line.
LEMMA LinesCaptured ==
  ASSUME AllSized(db), NEW e, AllSized(e), NEW L \in SUBSET LineId,
         \A l \in L : db[Line(l)] # NULL,
         NEW S, S \cap (LineKeys \cup PipeKeys) = {}
  PROVE  CapturedSized(S \cup LinesWithPipes(L), db, e)
<1> DEFINE C == S \cup LinesWithPipes(L)
<1>1. ASSUME NEW l \in LineId, Pipe(l) \in C PROVE l \in L /\ db[Pipe(l)] # NULL /\ Line(l) \in C
  BY <1>1, KeyTables DEF LinesWithPipes, LineKeysOf, PipeKeysOf, Pipe, Line
<1>2. ASSUME NEW l \in LineId, Line(l) \in C PROVE l \in L
  <2>1. Line(l) \notin S /\ Line(l) \notin PipeKeysOf(db, L)
    BY KeyTables DEF PipeKeysOf, Pipe, Line
  <2>2. Line(l) \in LineKeysOf(L)
    BY <1>2, <2>1 DEF LinesWithPipes
  <2> QED BY <2>2 DEF LineKeysOf, Line
<1>3. ASSUME NEW l \in L, db[Pipe(l)] # NULL PROVE Pipe(l) \in C
  BY <1>3 DEF LinesWithPipes, PipeKeysOf
<1> HIDE DEF C
<1>4. ASSUME NEW l \in LineId, Pipe(l) \in C
      PROVE  /\ l \notin PipeLess /\ Line(l) \in C
             /\ Sized(db[Line(l)], db[Pipe(l)]) /\ Sized(e[Line(l)], e[Pipe(l)])
  BY <1>1, <1>4 DEF AllSized
<1>5. ASSUME NEW l \in LineId, l \notin PipeLess, Line(l) \in C PROVE Pipe(l) \in C
  <2>1. l \in L
    BY <1>2, <1>5
  <2>2. db[Pipe(l)] # NULL
    BY <1>5, <2>1 DEF AllSized, Sized
  <2> QED BY <1>3, <2>1, <2>2
<1>6. CapturedSized(C, db, e)
  BY <1>4, <1>5 DEF CapturedSized
<1> QED BY <1>6 DEF C

LEMMA CommitSized ==
  ASSUME TypeOK, SizedInv, NEW a, NEW op, NEW captured \in SUBSET Key, NEW d,
         Commit(a, op, captured, d), AllSized(d), CapturedSized(captured, db, d),
         seq'.line \in Nat, seq.line <= seq'.line
  PROVE  SizedInv'
<1> DEFINE e == Entry(a, op, captured, d)
<1>1. journal' = Append(journal, e) /\ db' = d
  BY DEF Commit
<1>2. EntrySized(e)
  <2>1. e.before = Image(db, captured) /\ e.after = Image(d, captured) /\ e.redo = NULL
    BY DEF Entry
  <2>2. DOMAIN e.before = captured /\ \A k \in captured : e.before[k] = db[k] /\ e.after[k] = d[k]
    BY <2>1 DEF Image
  <2> HIDE DEF e
  <2>3. CapturedSized(captured, e.before, e.after)
    BY <2>2 DEF CapturedSized
  <2> QED BY <2>1, <2>2, <2>3 DEF EntrySized
<1> HIDE DEF e
<1>3. DOMAIN journal' = DOMAIN journal \cup {Len(journal) + 1} /\ journal'[Len(journal) + 1] = e
      /\ \A i \in DOMAIN journal : journal'[i] = journal[i]
  <2>1. journal \in Seq({journal[i] : i \in DOMAIN journal})
    BY DEF TypeOK
  <2> QED BY <1>1, <2>1, JournalAppend
<1>4. \A i \in DOMAIN journal' : EntrySized(journal'[i])
  BY <1>2, <1>3 DEF SizedInv
<1>5. \A l \in PipeLess : l <= seq'.line
  BY DEF SizedInv, PipeLess, LineId, TypeOK
<1>6. AllSized(db')
  BY <1>1
<1> QED BY <1>4, <1>5, <1>6 DEF SizedInv, AllSized, Sized, EntrySized, CapturedSized, SameLength

LEMMA Stamped ==
  ASSUME TypeOK, NEW a, NEW op, NEW captured, NEW d, Commit(a, op, captured, d)
  PROVE  clock \in Stamp /\ DbOk(db)
BY BoundsAssumption DEF Commit, TypeOK, Stamp

LEMMA SeqKept ==
  ASSUME TypeOK, UNCHANGED seq
  PROVE  seq'.line \in Nat /\ seq.line <= seq'.line
BY DEF TypeOK

\* The nodes and their cards are apart from the lines and the passports.
LEMMA NodesApart ==
  /\ \A n \in NodeId : {Node(n)} \cap (LineKeys \cup PipeKeys) = {}
  /\ \A S : S \subseteq EquipKeys \cup TypeKeys \cup FlagKeys => S \cap (LineKeys \cup PipeKeys) = {}
BY KeyTables, TablesDisjoint

LEMMA MoveNodeSized ==
  ASSUME TypeOK, SizedInv, NEW a, NEW n \in NodeId, NEW p \in Pos, MoveNode(a, n, p)
  PROVE  SizedInv'
<1> DEFINE inc == Incident(db, n)
           d   == Measured(Moved(n, p), inc)
<1>1. /\ Commit(a, "MOVE", {Node(n)} \cup LinesWithPipes(inc), d) /\ UNCHANGED seq
      /\ db[Node(n)] # NULL
  BY DEF MoveNode, NodeMoved, Moved, IncidentLines, Active
<1>2. inc \in SUBSET LineId /\ \A l \in inc : db[Line(l)] # NULL
  BY Keys DEF Incident
<1>3. DbOk(Moved(n, p)) /\ Kept(db, Moved(n, p))
  BY <1>1, Stamped, MovedRows
<1>4. SameOutside({Node(n)} \cup LineKeysOf(inc), db, Moved(n, p))
  BY DEF SameOutside, Moved, SnapEnds, Update
<1> HIDE DEF inc
<1>5. \A l \in LineId : Moved(n, p)[Pipe(l)] = db[Pipe(l)]
  BY <1>2, <1>4, PipeKeysApart, Keys DEF SameOutside
<1>6. \A l \in LineId \ inc : Moved(n, p)[Line(l)] = db[Line(l)]
  BY <1>4, Keys DEF SameOutside, LineKeysOf, Line, Node
<1>7. AllSized(d)
  <2>1. AllSized(db)
    BY DEF SizedInv
  <2>2. \A l \in inc \ PipeLess : db[Pipe(l)] # NULL
    BY <1>2, <2>1 DEF AllSized, Sized
  <2>3. \A l \in inc : Moved(n, p)[Line(l)] # NULL
    BY <1>2, <1>3, Keys DEF Kept
  <2>4. \A l \in PipeLess : db[Pipe(l)] = NULL /\ l \in LineId
    BY <2>1 DEF AllSized, PipeLess
  <2> QED BY <1>2, <1>3, <1>5, <1>6, <2>1, <2>2, <2>3, <2>4, MeasuredSized
<1> HIDE DEF d
<1>8. CapturedSized({Node(n)} \cup LinesWithPipes(inc), db, d)
  BY <1>2, <1>7, LinesCaptured, NodesApart DEF SizedInv
<1>9. {Node(n)} \cup LinesWithPipes(inc) \in SUBSET Key
  BY <1>2, Keys
<1> QED BY <1>1, <1>7, <1>8, <1>9, SeqKept, CommitSized

LEMMA DeleteNodeSized ==
  ASSUME TypeOK, SizedInv, NEW a, NEW n \in NodeId, NEW cascade, DeleteNode(a, n, cascade)
  PROVE  SizedInv'
<1> DEFINE inc == ActiveIncident(db, n)
           d1  == RemoveLines(db, inc, clock)
           d2  == RemoveNode(d1, n, clock)
<1>1. Commit(a, "DELETE_NODE", {Node(n)} \cup LinesWithPipes(inc), d2) /\ UNCHANGED seq
  BY DEF DeleteNode, NodeDeleted
<1>2. inc \in SUBSET LineId /\ \A l \in inc : db[Line(l)] # NULL
  BY DEF ActiveIncident, Incident
<1> HIDE DEF inc
<1>3. AllSized(d1)
  BY <1>1, <1>2, Stamped, RemovedSized DEF SizedInv
<1> HIDE DEF d1
<1>4. AllSized(d2)
  BY <1>3, Frames, NodesApart, OthersSized
<1> HIDE DEF d2
<1>5. CapturedSized({Node(n)} \cup LinesWithPipes(inc), db, d2)
  BY <1>2, <1>4, LinesCaptured, NodesApart DEF SizedInv
<1>6. {Node(n)} \cup LinesWithPipes(inc) \in SUBSET Key
  BY <1>2, Keys
<1> QED BY <1>1, <1>4, <1>5, <1>6, SeqKept, CommitSized

LEMMA DeleteLineSized ==
  ASSUME TypeOK, SizedInv, NEW a, NEW l \in LineId, NEW pair \in BOOLEAN, DeleteLine(a, l, pair)
  PROVE  SizedInv'
<1> DEFINE L == WithPair(l, pair)
           d == RemoveLines(db, L, clock)
<1>1. L \in SUBSET LineId /\ \A m \in L : db[Line(m)] # NULL
  BY WithPairLines DEF DeleteLine, Active
<1>2. Commit(a, "DELETE_LINE", LinesWithPipes(L), d) /\ UNCHANGED seq
  BY DEF DeleteLine, WithPair
<1> HIDE DEF L
<1>3. AllSized(d)
  BY <1>1, <1>2, Stamped, RemovedSized DEF SizedInv
<1> HIDE DEF d
<1>4. CapturedSized({} \cup LinesWithPipes(L), db, d)
  BY <1>1, <1>3, LinesCaptured DEF SizedInv
<1>5. {} \cup LinesWithPipes(L) = LinesWithPipes(L) /\ LinesWithPipes(L) \in SUBSET Key
  BY <1>1, Keys
<1> QED BY <1>2, <1>3, <1>4, <1>5, SeqKept, CommitSized

\* An operation that captures neither lines nor passports changes none.
LEMMA NodesOnlySized ==
  ASSUME TypeOK, SizedInv, NEW a, NEW op, NEW captured \in SUBSET Key, NEW d,
         Commit(a, op, captured, d), Covered, captured \cap (LineKeys \cup PipeKeys) = {},
         seq'.line = seq.line
  PROVE  SizedInv'
<1> DEFINE e == Entry(a, op, captured, d)
<1>1. journal' = Append(journal, e) /\ db' = d /\ DOMAIN e.before = captured
  BY DEF Commit, Entry, Image
<1> HIDE DEF e
<1>2. Len(journal') > Len(journal) /\ journal'[Len(journal')] = e
  <2>1. journal \in Seq({journal[i] : i \in DOMAIN journal})
    BY DEF TypeOK
  <2> QED BY <1>1, <2>1, JournalAppend
<1>3. SameOutside(captured, db, d)
  BY <1>1, <1>2 DEF Covered, SameOutside
<1>4. AllSized(d)
  BY <1>3, OthersSized DEF SizedInv
<1>5. CapturedSized(captured, db, d)
  BY KeyTables DEF CapturedSized
<1>6. seq'.line \in Nat /\ seq.line <= seq'.line
  BY DEF TypeOK
<1> QED BY <1>4, <1>5, <1>6, CommitSized

LEMMA CreateNodeSized ==
  ASSUME TypeOK, SizedInv, NEW a, NEW p, NEW table, CreateNode(a, p, table)
  PROVE  SizedInv'
<1> DEFINE n     == NextNode
           cards == NewCards(table)
           d     == WithCards(Update(db, {Node(n)},
                                     LAMBDA k : [pos |-> p, removed |-> FALSE, stamp |-> clock]),
                              cards, n)
<1>1. /\ n \in NodeId /\ cards \subseteq TypeKeys
      /\ Commit(a, "CREATE_NODE", {Node(n)} \cup cards, d)
      /\ seq' = [seq EXCEPT !.node = n, !.card = @ + Cardinality(cards)]
  BY DEF CreateNode
<1>2. seq'.line = seq.line
  BY <1>1 DEF TypeOK
<1>3. {Node(n)} \cup cards \in SUBSET Key
  BY <1>1, Keys DEF Key
<1>4. ({Node(n)} \cup cards) \cap (LineKeys \cup PipeKeys) = {}
  BY <1>1, NodesApart
<1> HIDE DEF n, cards, d
<1> QED BY <1>1, <1>2, <1>3, <1>4, CreateNodeCovers, NodesOnlySized

LEMMA ChangeNodeTypeSized ==
  ASSUME TypeOK, SizedInv, NEW a, NEW n \in NodeId, NEW table, ChangeNodeType(a, n, table)
  PROVE  SizedInv'
<1> DEFINE cards == TypesAt(db, n)
           same  == {k \in cards : k[1] = table}
           keep  == {k \in same : \A j \in same : k[2] <= j[2]}
           out   == cards \ keep
           new   == IF keep = {} THEN NewCards(table) ELSE {}
           d1    == Update(db, out, LAMBDA k : NULL)
           d2    == Update(d1, {Node(n)}, LAMBDA k : [d1[k] EXCEPT !.stamp = clock])
           C     == {Node(n)} \cup out \cup new
<1>1. /\ Commit(a, "CHANGE_NODE_TYPE", C, WithCards(d2, new, n)) /\ new \subseteq TypeKeys
      /\ seq' = [seq EXCEPT !.card = @ + Cardinality(new)]
  BY DEF ChangeNodeType
<1>2. out \subseteq TypeKeys
  BY DEF TypesAt
<1> HIDE DEF out, new
<1>3. C \in SUBSET Key
  BY <1>1, <1>2, Keys DEF Key
<1>4. C \cap (LineKeys \cup PipeKeys) = {}
  BY <1>1, <1>2, NodesApart
<1>5. seq'.line = seq.line
  BY <1>1 DEF TypeOK
<1> HIDE DEF C, d1, d2
<1> QED BY <1>1, <1>3, <1>4, <1>5, ChangeNodeTypeCovers, NodesOnlySized

LEMMA SetFlagSized ==
  ASSUME TypeOK, SizedInv, NEW a, NEW n \in NodeId, SetFlag(a, n)
  PROVE  SizedInv'
<1> DEFINE k == <<FlagTable, NextCard>>
<1>1. Commit(a, "SET_NODE_FLAG", {k}, WithCards(db, {k}, n)) /\ k \in FlagKeys
      /\ seq' = [seq EXCEPT !.card = NextCard]
  BY DEF SetFlag
<1>2. {k} \in SUBSET Key /\ {k} \cap (LineKeys \cup PipeKeys) = {}
  BY <1>1, NodesApart DEF Key
<1>3. seq'.line = seq.line
  BY <1>1 DEF TypeOK
<1> HIDE DEF k
<1> QED BY <1>1, <1>2, <1>3, SetFlagCovers, NodesOnlySized

LEMMA ClearFlagSized ==
  ASSUME TypeOK, SizedInv, NEW a, NEW n \in NodeId, ClearFlag(a, n)
  PROVE  SizedInv'
<1> DEFINE flags == FlagsAt(db, n)
           d     == Update(db, flags, LAMBDA k : NULL)
<1>1. Commit(a, "SET_NODE_FLAG", flags, d) /\ UNCHANGED seq
  BY DEF ClearFlag
<1>2. flags \in SUBSET Key /\ flags \cap (LineKeys \cup PipeKeys) = {}
  BY Keys, NodesApart DEF FlagsAt
<1> HIDE DEF flags, d
<1> QED BY <1>1, <1>2, ClearFlagCovers, NodesOnlySized

LEMMA CreateLineSized ==
  ASSUME TypeOK, SizedInv, NEW a, NEW x \in NodeId, NEW y \in NodeId, CreateLine(a, x, y)
  PROVE  SizedInv'
<1> DEFINE l     == NextLine
           shape == [start |-> db[Node(x)].pos, via |-> 0, finish |-> db[Node(y)].pos]
           d     == NewLine(db, l, x, y, clock)
<1>1. /\ l \in LineId /\ Commit(a, "CREATE_LINE", {Line(l), Pipe(l)}, d)
      /\ seq' = [seq EXCEPT !.line = l]
      /\ Active(db, Node(x)) /\ Active(db, Node(y))
  BY DEF CreateLine
<1>2. l \notin PipeLess
  BY DEF SizedInv, NextLine, TypeOK
<1>3. Line(l) \in Key /\ Pipe(l) \in Key /\ Line(l) # Pipe(l)
  BY <1>1, Keys DEF Line, Pipe
<1>4. d[Line(l)] = [n1 |-> x, n2 |-> y, sign |-> 0, shape |-> shape, removed |-> FALSE, stamp |-> clock]
  BY <1>3 DEF NewLine, Update
<1>5. d[Pipe(l)] = [len |-> Length(shape), removed |-> FALSE]
  BY <1>3 DEF NewLine, Update
<1>6. SameOutside({Line(l), Pipe(l)}, db, d)
  BY DEF SameOutside, NewLine, Update
<1>7. d[Pipe(l)] # NULL
  <2>1. db[Node(x)] \in NodeRow /\ db[Node(y)] \in NodeRow
    BY <1>1, Stamped, NodeRows DEF Active
  <2>2. Length(shape) \in Measure
    BY <2>1, LengthType DEF Shape, NodeRow
  <2> HIDE DEF shape
  <2>3. d[Pipe(l)] \in PipeRow
    BY <1>5, <2>2 DEF PipeRow
  <2> QED BY <2>3, NullAssumption
<1>8. Sized(d[Line(l)], d[Pipe(l)])
  BY <1>4, <1>5, <1>7 DEF Sized
<1>9. \A i \in LineId \ {l} : d[Line(i)] = db[Line(i)] /\ d[Pipe(i)] = db[Pipe(i)]
  BY <1>6, Keys DEF SameOutside, Line, Pipe
<1>10. seq'.line \in Nat /\ seq.line <= seq'.line
  BY <1>1 DEF NextLine, TypeOK
<1> HIDE DEF l, d
<1>11. AllSized(d)
  BY <1>2, <1>8, <1>9 DEF AllSized, SizedInv, PipeLess
<1>12. CapturedSized({Line(l), Pipe(l)}, db, d)
  <2>1. Sized(db[Line(l)], db[Pipe(l)])
    BY <1>1, <1>2 DEF SizedInv, AllSized
  <2>2. \A i \in LineId : Pipe(i) \in {Line(l), Pipe(l)} => i = l
    BY DEF Pipe, Line
  <2>3. \A i \in LineId : Line(i) \in {Line(l), Pipe(l)} => i = l
    BY DEF Pipe, Line
  <2> QED BY <1>2, <1>8, <2>1, <2>2, <2>3 DEF CapturedSized
<1> QED BY <1>1, <1>3, <1>10, <1>11, <1>12, CommitSized

\* A reversed line is as long as it was.
LEMMA TurnedLength ==
  ASSUME NEW d, DbOk(d), NEW L \in SUBSET LineId, NEW l \in L, d[Line(l)] # NULL
  PROVE  Length(Turned(d, L, clock)[Line(l)].shape) = Length(d[Line(l)].shape)
<1> DEFINE r == d[Line(l)]
<1>1. r \in LineRow /\ Line(l) \in Key /\ Line(l) \in LineKeysOf(L)
  BY LineRows, Keys DEF LineKeysOf
<1>2. Turned(d, L, clock)[Line(l)] =
        [r EXCEPT !.n1 = r.n2, !.n2 = r.n1, !.sign = SwapSign[@],
           !.shape = [start |-> @.finish, via |-> @.via, finish |-> @.start], !.stamp = clock]
  BY <1>1 DEF Turned, Update
<1> HIDE DEF r
<1>3. Turned(d, L, clock)[Line(l)].shape =
        [start |-> r.shape.finish, via |-> r.shape.via, finish |-> r.shape.start]
  BY <1>1, <1>2 DEF LineRow
<1> QED BY <1>3 DEF Length, r

LEMMA ReverseLineSized ==
  ASSUME TypeOK, SizedInv, NEW a, NEW l \in LineId, NEW pair \in BOOLEAN, ReverseLine(a, l, pair)
  PROVE  SizedInv'
<1> DEFINE L == WithPair(l, pair)
           d == Turned(db, L, clock)
<1>1. L \in SUBSET LineId /\ \A m \in L : db[Line(m)] # NULL
  BY WithPairLines DEF ReverseLine, Active
<1>2. Commit(a, "REVERSE", LineKeysOf(L), d) /\ UNCHANGED seq
  BY DEF ReverseLine, WithPair
<1> HIDE DEF L
<1>3. DbOk(db) /\ Kept(db, d)
  BY <1>1, <1>2, Stamped, TurnedType
<1>4. SameOutside(LineKeysOf(L), db, d)
  BY Frames
<1>5. \A m \in L : SameLength(db[Line(m)], d[Line(m)])
  BY <1>1, <1>3, TurnedLength, Keys DEF SameLength, Kept
<1> HIDE DEF d
<1>6. \A m \in LineId : d[Pipe(m)] = db[Pipe(m)]
  BY <1>1, <1>4, PipeKeysApart, Keys DEF SameOutside
<1>7. \A m \in LineId \ L : d[Line(m)] = db[Line(m)]
  BY <1>4, Keys DEF SameOutside, LineKeysOf, Line
<1>8. AllSized(d)
  BY <1>1, <1>5, <1>6, <1>7 DEF AllSized, Sized, SameLength, SizedInv, PipeLess
<1>9. CapturedSized(LineKeysOf(L), db, d)
  <2>1. \A m \in LineId : Pipe(m) \notin LineKeysOf(L)
    BY <1>1, PipeKeysApart
  <2>2. \A m \in LineId : Line(m) \in LineKeysOf(L) => m \in L
    BY DEF LineKeysOf, Line
  <2> QED BY <1>5, <2>1, <2>2 DEF CapturedSized
<1>10. LineKeysOf(L) \in SUBSET Key
  BY <1>1, Keys
<1> QED BY <1>2, <1>8, <1>9, <1>10, SeqKept, CommitSized

LEMMA UpdateGeometrySized ==
  ASSUME TypeOK, SizedInv, NEW a, NEW l \in LineId, NEW via \in {0, 1}, UpdateGeometry(a, l, via)
  PROVE  SizedInv'
<1> DEFINE e == Redrawn(l, via)
           d == Measured(e, {l})
<1>1. /\ Commit(a, "GEOMETRY", LinesWithPipes({l}), d) /\ UNCHANGED seq
      /\ db[Line(l)] # NULL /\ \A n \in Ends(db, l) : db[Node(n)] # NULL
  BY DEF UpdateGeometry, Reshaped, Redrawn, Active
<1>2. DbOk(e) /\ Kept(db, e)
  BY <1>1, Stamped, RedrawnRows
<1>3. SameOutside(LineKeysOf({l}), db, e)
  BY DEF SameOutside, Redrawn, SnapEnds, Update, LineKeysOf
<1> HIDE DEF e
<1>4. \A m \in LineId : e[Pipe(m)] = db[Pipe(m)]
  BY <1>3, PipeKeysApart, Keys DEF SameOutside
<1>5. \A m \in LineId \ {l} : e[Line(m)] = db[Line(m)]
  BY <1>3, Keys DEF SameOutside, LineKeysOf, Line
<1>6. AllSized(d)
  <2>1. AllSized(db)
    BY DEF SizedInv
  <2>2. \A m \in {l} \ PipeLess : db[Pipe(m)] # NULL
    BY <1>1, <2>1 DEF AllSized, Sized
  <2>3. \A m \in {l} : e[Line(m)] # NULL
    BY <1>1, <1>2, Keys DEF Kept
  <2>4. \A m \in PipeLess : db[Pipe(m)] = NULL /\ m \in LineId
    BY <2>1 DEF AllSized, PipeLess
  <2> QED BY <1>2, <1>4, <1>5, <2>1, <2>2, <2>3, <2>4, MeasuredSized
<1> HIDE DEF d
<1>7. CapturedSized({} \cup LinesWithPipes({l}), db, d)
  BY <1>1, <1>6, LinesCaptured DEF SizedInv
<1>8. {} \cup LinesWithPipes({l}) = LinesWithPipes({l}) /\ LinesWithPipes({l}) \in SUBSET Key
  BY Keys
<1> QED BY <1>1, <1>6, <1>7, <1>8, SeqKept, CommitSized

LEMMA SplitLineSized ==
  ASSUME TypeOK, SizedInv, NEW a, NEW l \in LineId, NEW p \in Pos, NEW via1 \in {0, 1}, NEW via2 \in {0, 1},
         NEW toNew \in SUBSET Review(db, l), SplitLine(a, l, p, via1, via2, toNew)
  PROVE  SizedInv'
<1> DEFINE n     == NextNode
           m     == NextLine
           moved == FollowsEnd(db, l) \cup toNew
           e     == Cut(l, n, m, p, via1, via2)
           d1    == Measured(e, {l, m})
           d2    == Update(d1, moved, LAMBDA k : [db[k] EXCEPT !.lineid = m])
           C     == SplitCaptured(l, n, m)
<1>1. /\ Commit(a, "SPLIT", C, d2) /\ seq' = [seq EXCEPT !.node = n, !.line = m]
      /\ n \in NodeId /\ m \in LineId /\ db[Line(l)] # NULL /\ db[Pipe(l)] # NULL
  BY DEF SplitLine, Halves, Cut, Active
<1>2. m \notin PipeLess /\ l \notin PipeLess
  BY <1>1 DEF SizedInv, NextLine, TypeOK, AllSized
<1>3. seq'.line \in Nat /\ seq.line <= seq'.line
  BY <1>1 DEF NextLine, TypeOK
<1> HIDE DEF n, m
<1>4. DbOk(e) /\ e[Line(l)] # NULL /\ e[Line(m)] # NULL
  BY <1>1, Stamped, CutRows
<1>5. SameOutside({Node(n), Line(m), Line(l), Pipe(m)}, db, e) /\ e[Pipe(m)] = db[Pipe(l)]
  <2>1. Line(l) # Pipe(l) /\ Line(m) # Pipe(l) /\ Node(n) # Pipe(l) /\ Pipe(m) \in Key /\ Pipe(l) \in Key
    BY <1>1, Keys DEF Line, Pipe, Node
  <2> QED BY <2>1 DEF SameOutside, Cut, Update
<1> HIDE DEF e
<1>6. /\ \A i \in LineId \ {l, m} : e[Line(i)] = db[Line(i)]
      /\ \A i \in LineId \ {m} : e[Pipe(i)] = db[Pipe(i)]
  BY <1>5, Keys DEF SameOutside, Line, Pipe, Node
<1>7. AllSized(d1)
  <2>1. AllSized(db)
    BY DEF SizedInv
  <2>2. e[Pipe(l)] # NULL /\ e[Pipe(m)] # NULL
    BY <1>1, <1>5, <1>6
  <2>3. \A i \in PipeLess : e[Pipe(i)] = NULL
    BY <1>2, <1>6, <2>1 DEF AllSized, PipeLess
  <2> QED BY <1>1, <1>4, <1>6, <2>1, <2>2, <2>3, MeasuredSized
<1> HIDE DEF d1
<1>8. AllSized(d2)
  <2>1. SameOutside(moved, d1, d2)
    BY DEF SameOutside, Update
  <2>2. moved \cap (LineKeys \cup PipeKeys) = {}
    BY NodesApart DEF FollowsEnd, Review, OnLine
  <2> HIDE DEF d2, moved
  <2> QED BY <1>7, <2>1, <2>2, OthersSized
<1> HIDE DEF d2
<1>9. CapturedSized(C, db, d2)
  <2>1. \A i \in LineId : Pipe(i) \in C <=> i = l \/ i = m
    BY <1>1, KeyTables DEF SplitCaptured, LinesWithPipes, LineKeysOf, PipeKeysOf, OnLine, Pipe, Line, Node
  <2>2. \A i \in LineId : Line(i) \in C <=> i = l \/ i = m
    BY <1>1, KeyTables DEF SplitCaptured, LinesWithPipes, LineKeysOf, PipeKeysOf, OnLine, Pipe, Line, Node
  <2> HIDE DEF C
  <2>3. \A i \in {l, m} : Sized(db[Line(i)], db[Pipe(i)]) /\ Sized(d2[Line(i)], d2[Pipe(i)])
    BY <1>1, <1>2, <1>8 DEF AllSized, SizedInv
  <2> QED BY <1>2, <2>1, <2>2, <2>3 DEF CapturedSized
<1>10. C \in SUBSET Key
  BY <1>1, Keys DEF SplitCaptured
<1> QED BY <1>1, <1>3, <1>8, <1>9, <1>10, CommitSized

LEMMA MergeNodesSized ==
  ASSUME TypeOK, SizedInv, NEW a, NEW t \in NodeId, NEW s \in NodeId, MergeNodes(a, t, s)
  PROVE  SizedInv'
<1> DEFINE gone  == Connecting(db, t, s)
           lines == ActiveIncident(db, s) \ gone
           refs  == NodeRefs(db, s)
           r     == RemoveLines(db, gone, clock)
           e     == Gathered(t, s)
           d2    == Measured(e, lines)
           d3    == Update(d2, refs, LAMBDA k : [d2[k] EXCEPT !.nodeid = t])
           d4    == Update(d3, {Node(t)}, LAMBDA k : [d3[k] EXCEPT !.stamp = clock])
           d5    == RemoveNode(d4, s, clock)
           S     == {Node(t), Node(s)} \cup refs
           L     == gone \cup lines
<1>1. /\ Commit(a, "MERGE", {Node(t), Node(s)} \cup LinesWithPipes(L) \cup refs, d5) /\ UNCHANGED seq
      /\ db[Node(t)] # NULL
  <2>1. L = ActiveIncident(db, s)
    BY DEF Connecting
  <2> QED BY <2>1 DEF MergeNodes, NodesMerged, Gathered, Active
<1>2. /\ gone \in SUBSET LineId /\ lines \in SUBSET LineId /\ gone \cap lines = {}
      /\ \A l \in L : db[Line(l)] # NULL
  BY DEF Connecting, ActiveIncident, Incident
<1>3. clock \in Stamp /\ DbOk(db) /\ AllSized(db)
  BY <1>1, Stamped DEF SizedInv
<1>4. DbOk(r) /\ DbOk(e) /\ Kept(db, e)
  BY <1>1, <1>3, GatheredRows
<1>5. SameOutside(LineKeysOf(lines), r, e)
  BY DEF SameOutside, Gathered, SnapEnds, Relinked, Update
<1>6. refs \subseteq EquipKeys \cup TypeKeys \cup FlagKeys
  BY DEF NodeRefs
<1>7. AllSized(r)
  BY <1>2, <1>3, RemovedSized
<1>8. \A l \in lines : r[Line(l)] # NULL
  BY <1>2, <1>3, RemoveLinesType, Keys DEF Kept
<1> HIDE DEF gone, lines, refs, r, e
<1>9. /\ \A l \in LineId : e[Pipe(l)] = r[Pipe(l)]
      /\ \A l \in LineId \ lines : e[Line(l)] = r[Line(l)]
  <2>1. \A l \in LineId : Pipe(l) \notin LineKeysOf(lines)
    BY <1>2, PipeKeysApart
  <2>2. \A l \in LineId \ lines : Line(l) \notin LineKeysOf(lines)
    BY DEF LineKeysOf, Line
  <2> QED BY <1>5, <2>1, <2>2, Keys DEF SameOutside
<1>10. AllSized(d2)
  <2>1. \A l \in lines \ PipeLess : r[Pipe(l)] # NULL
    BY <1>2, <1>7, <1>8 DEF AllSized, Sized
  <2>2. \A l \in lines : e[Line(l)] # NULL
    BY <1>2, <1>4, Keys DEF Kept
  <2>3. \A l \in PipeLess : r[Pipe(l)] = NULL /\ l \in LineId
    BY <1>7 DEF AllSized, PipeLess
  <2> QED BY <1>2, <1>4, <1>7, <1>9, <2>1, <2>2, <2>3, MeasuredSized
<1> HIDE DEF d2
<1>11. SameOutside(refs, d2, d3) /\ SameOutside({Node(t)}, d3, d4) /\ SameOutside({Node(s)}, d4, d5)
  BY DEF SameOutside, RemoveNode, Update
<1> HIDE DEF d3, d4, d5
<1>12. AllSized(d5)
  <2>1. AllSized(d3)
    BY <1>6, <1>10, <1>11, NodesApart, OthersSized
  <2>2. AllSized(d4)
    BY <1>11, <2>1, NodesApart, OthersSized
  <2> QED BY <1>11, <2>2, NodesApart, OthersSized
<1>13. CapturedSized(S \cup LinesWithPipes(L), db, d5)
  <2>1. S \cap (LineKeys \cup PipeKeys) = {}
    BY <1>6, NodesApart
  <2>2. L \in SUBSET LineId
    BY <1>2
  <2> HIDE DEF S, L
  <2> QED BY <1>2, <1>3, <1>12, <2>1, <2>2, LinesCaptured
<1>14. S \cup LinesWithPipes(L) = {Node(t), Node(s)} \cup LinesWithPipes(L) \cup refs
  OBVIOUS
<1>15. S \cup LinesWithPipes(L) \in SUBSET Key
  BY <1>2, <1>6, Keys DEF Key
<1> HIDE DEF S, L
<1> QED BY <1>1, <1>12, <1>13, <1>14, <1>15, SeqKept, CommitSized

LEMMA DissolveNodeSized ==
  ASSUME TypeOK, SizedInv, NEW a, NEW n \in NodeId, DissolveNode(a, n)
  PROVE  SizedInv'
<1> DEFINE joins == Joins(db, n)
           kept  == {j[1] : j \in joins}
           gone  == {j[2] : j \in joins}
           e     == Extended(db, joins, n, clock)
           d2    == Measured(e, kept)
           d3    == RemoveLines(d2, gone, clock)
           d4    == RemoveNode(d3, n, clock)
           L     == kept \cup gone
<1>1. Commit(a, "DISSOLVE_NODE", {Node(n)} \cup LinesWithPipes(L), d4) /\ UNCHANGED seq
  BY DEF DissolveNode, NodeDissolved
<1>2. /\ kept \in SUBSET LineId /\ gone \in SUBSET LineId /\ L \in SUBSET LineId
      /\ \A l \in L : db[Line(l)] # NULL
  BY JoinLines
<1>3. clock \in Stamp /\ DbOk(db) /\ AllSized(db)
  BY <1>1, Stamped DEF SizedInv
<1>4. DbOk(e) /\ Kept(db, e)
  BY <1>3, ExtendedRows
<1>5. SameOutside(LineKeysOf(kept), db, e)
  BY DEF SameOutside, Extended, LineKeysOf
<1> HIDE DEF joins, kept, gone, e, L
<1>6. /\ \A l \in LineId : e[Pipe(l)] = db[Pipe(l)]
      /\ \A l \in LineId \ kept : e[Line(l)] = db[Line(l)]
  <2>1. \A l \in LineId : Pipe(l) \notin LineKeysOf(kept)
    BY <1>2, PipeKeysApart
  <2>2. \A l \in LineId \ kept : Line(l) \notin LineKeysOf(kept)
    BY DEF LineKeysOf, Line
  <2> QED BY <1>5, <2>1, <2>2, Keys DEF SameOutside
<1>7. \A l \in kept : e[Line(l)] # NULL
  BY <1>2, <1>4, Keys DEF Kept, L
<1>8. AllSized(d2)
  <2>1. \A l \in kept \ PipeLess : db[Pipe(l)] # NULL
    BY <1>2, <1>3 DEF AllSized, Sized, L
  <2>2. \A l \in PipeLess : db[Pipe(l)] = NULL /\ l \in LineId
    BY <1>3 DEF AllSized, PipeLess
  <2> QED BY <1>2, <1>3, <1>4, <1>6, <1>7, <2>1, <2>2, MeasuredSized
<1>9. DbOk(d2) /\ Kept(e, d2)
  BY <1>2, <1>4, <1>7, MeasuredType
<1> HIDE DEF d2
<1>10. AllSized(d3)
  <2>1. \A l \in gone : d2[Line(l)] # NULL
    BY <1>2, <1>4, <1>9, Keys DEF Kept, L
  <2> QED BY <1>2, <1>3, <1>8, <1>9, <2>1, RemovedSized
<1> HIDE DEF d3
<1>11. AllSized(d4)
  BY <1>10, Frames, NodesApart, OthersSized
<1> HIDE DEF d4
<1>12. CapturedSized({Node(n)} \cup LinesWithPipes(L), db, d4)
  BY <1>2, <1>3, <1>11, NodesApart, LinesCaptured
<1>13. {Node(n)} \cup LinesWithPipes(L) \in SUBSET Key
  BY <1>2, Keys
<1> QED BY <1>1, <1>11, <1>12, <1>13, SeqKept, CommitSized

(***************************************************************************)
(* Undo and redo.                                                           *)
(***************************************************************************)
\* Putting back an image that differs from the rows as CapturedSized says.
LEMMA RestoredSized ==
  ASSUME AllSized(db), NEW e, ImageOk(e.before), DOMAIN e.after = DOMAIN e.before,
         CapturedSized(DOMAIN e.before, e.before, e.after),
         NEW f, DOMAIN f = DOMAIN e.before,
         \/ \A k \in DOMAIN e.before : f[k] = e.before[k] /\ db[k] = e.after[k]
         \/ \A k \in DOMAIN e.before : f[k] = e.after[k] /\ db[k] = e.before[k]
  PROVE  AllSized(Restore(db, f))
<1> DEFINE C == DOMAIN e.before
           d == Restore(db, f)
<1>1. C \subseteq Key
  BY DEF ImageOk
<1>2. \A k \in Key : d[k] = IF k \in C THEN f[k] ELSE db[k]
  BY DEF Restore, Update
<1> HIDE DEF C, d
<1>3. ASSUME NEW l \in LineId \ PipeLess PROVE Sized(d[Line(l)], d[Pipe(l)])
  <2>1. Line(l) \in Key /\ Pipe(l) \in Key
    BY Keys
  <2>2. Sized(db[Line(l)], db[Pipe(l)])
    BY DEF AllSized
  <2>3. CASE Pipe(l) \in C
    <3>1. /\ Line(l) \in C /\ Sized(e.before[Line(l)], e.before[Pipe(l)])
          /\ Sized(e.after[Line(l)], e.after[Pipe(l)])
      BY <2>3 DEF CapturedSized, C
    <3>2. Sized(f[Line(l)], f[Pipe(l)])
      BY <2>3, <3>1 DEF C
    <3> QED BY <1>2, <2>1, <2>3, <3>1, <3>2
  <2>4. CASE Pipe(l) \notin C /\ Line(l) \in C
    <3>1. SameLength(e.before[Line(l)], e.after[Line(l)])
      BY <2>4 DEF CapturedSized, C
    <3>2. db[Line(l)] # NULL /\ Length(f[Line(l)].shape) = Length(db[Line(l)].shape)
      BY <2>4, <3>1 DEF SameLength, C
    <3> QED BY <1>2, <2>1, <2>2, <2>4, <3>2 DEF Sized
  <2>5. CASE Pipe(l) \notin C /\ Line(l) \notin C
    BY <1>2, <2>1, <2>2, <2>5
  <2> QED BY <2>3, <2>4, <2>5
<1>4. \A l \in PipeLess : d[Pipe(l)] = NULL
  <2> SUFFICES ASSUME NEW l \in PipeLess PROVE d[Pipe(l)] = NULL
    OBVIOUS
  <2>1. l \in LineId /\ db[Pipe(l)] = NULL
    BY DEF PipeLess, AllSized
  <2>2. Pipe(l) \notin C
    BY <2>1 DEF CapturedSized, C
  <2> QED BY <1>2, <2>1, <2>2, Keys
<1>5. AllSized(d)
  BY <1>3, <1>4 DEF AllSized
<1> QED BY <1>5 DEF d

\* One entry rewritten, its images left alone.
LEMMA RewrittenSized ==
  ASSUME TypeOK, SizedInv, NEW n \in DOMAIN journal, NEW e,
         e.before = journal[n].before, e.after = journal[n].after,
         e.redo # NULL => \A k \in DOMAIN e.before : e.redo[k] = e.after[k],
         journal' = [journal EXCEPT ![n] = e], AllSized(db'), UNCHANGED seq
  PROVE  SizedInv'
<1>1. EntrySized(e)
  BY DEF SizedInv, EntrySized
<1>2. \A i \in DOMAIN journal' : journal'[i] = e \/ (i \in DOMAIN journal /\ journal'[i] = journal[i])
  OBVIOUS
<1>3. \A i \in DOMAIN journal' : EntrySized(journal'[i])
  BY <1>1, <1>2 DEF SizedInv
<1>4. \A l \in PipeLess : l <= seq'.line
  BY DEF SizedInv
<1> QED BY <1>3, <1>4 DEF SizedInv, AllSized, Sized, EntrySized, CapturedSized, SameLength

LEMMA UndoSized ==
  ASSUME TypeOK, SizedInv, NEW a, Undo(a)
  PROVE  SizedInv'
<1>1. PICK n \in Undoable(a) :
        /\ Unchanged(journal[n].after)
        /\ journal' = [journal EXCEPT ![n].undone = clock,
                                      ![n].redo = Image(db, DOMAIN journal[n].after)]
        /\ db' = Restore(db, journal[n].before)
  BY DEF Undo
<1>2. n \in DOMAIN journal
  BY DEF Undoable, Mine
<1> DEFINE j == journal[n]
           e == [j EXCEPT !.undone = clock, !.redo = Image(db, DOMAIN j.after)]
<1>3. EntryOk(j) /\ EntrySized(j)
  BY <1>2 DEF TypeOK, SizedInv
<1>4. \A k \in DOMAIN j.before : db[k] = j.after[k]
  BY <1>1, <1>3 DEF Unchanged, EntryOk
<1>5. AllSized(db')
  BY <1>1, <1>3, <1>4, RestoredSized DEF EntryOk, EntrySized, SizedInv
<1>6. journal' = [journal EXCEPT ![n] = e] /\ UNCHANGED seq
  BY <1>1, <1>2 DEF Undo
<1>7. e.before = j.before /\ e.after = j.after /\ e.redo = Image(db, DOMAIN j.after)
  BY <1>3 DEF EntryOk
<1> HIDE DEF e
<1>8. \A k \in DOMAIN e.before : e.redo[k] = e.after[k]
  BY <1>3, <1>4, <1>7 DEF Image, EntryOk
<1> QED BY <1>2, <1>5, <1>6, <1>7, <1>8, RewrittenSized

LEMMA RedoSized ==
  ASSUME TypeOK, SizedInv, NEW a, Redo(a)
  PROVE  SizedInv'
<1>1. PICK n \in Redoable(a) :
        /\ Unchanged(journal[n].before)
        /\ journal' = [journal EXCEPT ![n].undone = 0]
        /\ db' = Restore(db, journal[n].redo)
  BY DEF Redo
<1>2. n \in DOMAIN journal /\ journal[n].redo # NULL
  BY DEF Redoable, Reopened, Mine
<1> DEFINE j == journal[n]
           e == [j EXCEPT !.undone = 0]
<1>3. EntryOk(j) /\ EntrySized(j)
  BY <1>2 DEF TypeOK, SizedInv
<1>4. /\ \A k \in DOMAIN j.before : j.redo[k] = j.after[k] /\ db[k] = j.before[k]
      /\ DOMAIN j.redo = DOMAIN j.before
  BY <1>1, <1>2, <1>3 DEF Unchanged, EntryOk, EntrySized
<1>5. AllSized(db')
  BY <1>1, <1>3, <1>4, RestoredSized DEF EntryOk, EntrySized, SizedInv
<1>6. journal' = [journal EXCEPT ![n] = e] /\ UNCHANGED seq
  BY <1>1, <1>2 DEF Redo
<1>7. e.before = j.before /\ e.after = j.after /\ e.redo = j.redo
  BY <1>3 DEF EntryOk
<1> HIDE DEF e
<1> QED BY <1>2, <1>4, <1>5, <1>6, <1>7, RewrittenSized

\* The passport of a line has the length of the line's geometry, after any
\* operations, undos and redos of any users (LengthsFollowLines): the heat and
\* hydraulic calculation never reads a stale length.
THEOREM LengthsCorrect == Spec => []LengthsFollowLines
<1>1. Init => SizedInv
  <2> SUFFICES ASSUME Init PROVE SizedInv
    OBVIOUS
  <2>1. AllSized(db)
    BY InitialDbAssumption, NullAssumption DEF Init, AllSized, Sized, PipeLess, NetworkOk, LengthOk
  <2>2. \A l \in PipeLess : l <= seq.line
    <3>1. \A l \in PipeLess : Line(l) \in LineKeys /\ Line(l)[2] = l /\ InitialDb[Line(l)] # NULL
      BY KeyTables DEF PipeLess, Line
    <3> QED BY <3>1 DEF Init, LastId
  <2> QED BY <2>1, <2>2 DEF Init, SizedInv
<1>2. TypeOK /\ SizedInv /\ [Next]_vars => SizedInv'
  <2> SUFFICES ASSUME TypeOK, SizedInv, [Next]_vars PROVE SizedInv'
    OBVIOUS
  <2>1. ASSUME NEW a \in Actor, EditNode(a) PROVE SizedInv'
    BY <2>1, MoveNodeSized, DeleteNodeSized, MergeNodesSized, DissolveNodeSized,
       ChangeNodeTypeSized, SetFlagSized, ClearFlagSized DEF EditNode
  <2>2. ASSUME NEW a \in Actor, EditLine(a) PROVE SizedInv'
    BY <2>2, DeleteLineSized, ReverseLineSized, UpdateGeometrySized, SplitLineSized DEF EditLine
  <2>3. ASSUME NEW a \in Actor, Create(a) PROVE SizedInv'
    BY <2>3, CreateNodeSized, CreateLineSized DEF Create
  <2>4. ASSUME UNCHANGED vars PROVE SizedInv'
    BY <2>4 DEF vars, SizedInv, AllSized, Sized, EntrySized, CapturedSized, SameLength
  <2> QED BY <2>1, <2>2, <2>3, <2>4, UndoSized, RedoSized DEF Next
<1>3. SizedInv => LengthsFollowLines
  BY SizedImplies
<1> QED BY <1>1, <1>2, <1>3, TypeCorrect, PTL DEF Spec
=============================================================================
