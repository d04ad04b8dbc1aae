---------------------------- MODULE TopologyLocks ----------------------------
(***************************************************************************)
(* The editor's transactions statement by statement, as the database        *)
(* interleaves them at READ COMMITTED.  A statement sees what is committed  *)
(* when it begins, and the transaction's own writes; a row it locks or      *)
(* updates it waits for, and looks at again when it gets it: the condition  *)
(* of the statement is evaluated anew on the newest version.  A lock is     *)
(* kept to the end of the transaction.                                      *)
(*                                                                          *)
(* The network is nodes, lines and passports; the references of a node are  *)
(* moved under the node's lock.  Statements that touch only rows the        *)
(* transaction has locked already are one step, since nobody can see or     *)
(* change these rows in between.  A session is a user with one tab, and of  *)
(* its journal the last entry.                                              *)
(***************************************************************************)
EXTENDS TopologyRows, TLC

CONSTANTS
  Session,    \* the connections that run transactions
  Ops,        \* the operations they run
  InitialDb

ASSUME InitialDbAssumption ==
  /\ DbOk(InitialDb) /\ NetworkOk(InitialDb)
  /\ \A k \in EquipKeys \cup TypeKeys \cup FlagKeys : InitialDb[k] = NULL

VARIABLES
  db,      \* the committed rows
  clock,   \* the number of the next transaction, also its time
  tx,      \* the transaction of each session
  last     \* its last journal entry: [before, after], or NULL

vars == <<db, clock, tx, last>>

(***************************************************************************)
(* Requests and transactions.                                               *)
(***************************************************************************)
\* The node is the source of a merge, or the start of a new line; the other one
\* the target or the end.
Request ==
  {r \in [op : {"MOVE"}, node : NodeId, pos : Pos]
         \cup [op : {"DELETE_NODE", "DISSOLVE_NODE"}, node : NodeId]
         \cup {r \in [op : {"CREATE_LINE", "MERGE"}, node : NodeId, other : NodeId] : r.node # r.other}
         \cup [op : {"DELETE_LINE", "REVERSE", "GEOMETRY"}, line : LineId]
         \cup [op : {"SPLIT"}, line : LineId, pos : Pos]
         \cup [op : {"UNDO"}] : r.op \in Ops}

\* The rows an operation locks first.
Wanted(r) ==
  {Node(r[f]) : f \in DOMAIN r \cap {"node", "other"}} \cup {Line(r[f]) : f \in DOMAIN r \cap {"line"}}

\* The last MaxClock ids are left to the sequences: one for each transaction.
NewNodeId(now) == MaxNode - MaxClock + now
NewLineId(now) == MaxLine - MaxClock + now

\* What the sequences hand out is not in use.
ASSUME SequencesAssumption ==
  \A now \in 1 .. MaxClock :
    /\ NewNodeId(now) \in NodeId /\ InitialDb[Node(NewNodeId(now))] = NULL
    /\ NewLineId(now) \in LineId /\ InitialDb[Line(NewLineId(now))] = NULL
    /\ InitialDb[Pipe(NewLineId(now))] = NULL

\* A request is not mistaken for none.
ASSUME RequestAssumption == NULL \notin Request

Idle ==
  [req   |-> NULL,     \* what the client asked for
   now   |-> 0,        \* the time of the transaction
   at    |-> "idle",   \* the statement that runs, or was the last to run
   todo  |-> {},       \* the rows it has yet to lock
   held  |-> {},       \* the rows the transaction has locked
   plan  |-> {},       \* the lines an earlier statement has chosen
   joins |-> {},       \* for a dissolve, which line goes on with which
   sizes |-> <<>>,     \* the lengths the passports are to get
   image |-> <<>>,     \* the images for the journal
   new   |-> <<>>]     \* the transaction's own writes

Existing(keys) == {k \in keys : db[k] # NULL}

\* The rows as the transaction of s sees them.
View(s) == [k \in Key |-> IF k \in DOMAIN tx[s].new THEN tx[s].new[k] ELSE db[k]]

Init ==
  /\ db = InitialDb
  /\ clock = 1
  /\ tx = [s \in Session |-> Idle]
  /\ last = [s \in Session |-> NULL]

\* What the operation does to the rows when it has them for itself.
Effect(d, r, now) ==
  CASE r.op = "MOVE"          -> NodeMoved(d, r.node, r.pos, now)
    [] r.op = "DELETE_NODE"   -> NodeDeleted(d, r.node, now)
    [] r.op = "DISSOLVE_NODE" -> NodeDissolved(d, r.node, now)
    [] r.op = "MERGE"         -> NodesMerged(d, r.other, r.node, now)
    [] r.op = "CREATE_LINE"   -> NewLine(d, NewLineId(now), r.node, r.other, now)
    [] r.op = "DELETE_LINE"   -> RemoveLines(d, {r.line}, now)
    [] r.op = "REVERSE"       -> Turned(d, {r.line}, now)
    [] r.op = "GEOMETRY"      -> Reshaped(d, r.line, 1, now)
    [] r.op = "SPLIT"         -> LET via == d[Line(r.line)].shape.via IN
                                 Halves(d, r.line, NewNodeId(now), NewLineId(now), r.pos, via, via, now)

(***************************************************************************)
(* The beginning, and the locks.                                            *)
(***************************************************************************)
\* Bugs: an operation on nodes, or on a line, does not lock them.
FirstLocksLines(r) == Wanted(r) \cap LineKeys
FirstLocksNodes(r) == Wanted(r) \cap NodeKeys

\* _lock_active at the head of every operation
FirstLocks(r) == Wanted(r)

Begin(s, r) ==
  /\ tx[s].req = NULL /\ clock <= MaxClock
  /\ Existing(Wanted(r)) = Wanted(r)
  /\ r.op = "UNDO" => last[s] # NULL
  /\ tx' = [tx EXCEPT ![s] = [Idle EXCEPT !.req = r, !.now = clock, !.at = "lock", !.todo = FirstLocks(r)]]
  /\ clock' = clock + 1
  /\ UNCHANGED <<db, last>>

Free(s, k) == \A u \in Session \ {s} : k \notin tx[u].held

\* A bug: no ORDER BY id.
NextRowsUnordered(s) == tx[s].todo

\* SELECT ... ORDER BY id FOR UPDATE takes the rows in this order, an UPDATE as
\* it finds them.
NextRows(s) ==
  IF tx[s].at \in {"starts", "finishes", "remove", "passports", "lengths"} THEN tx[s].todo
  ELSE {k \in tx[s].todo : \A j \in tx[s].todo : k[2] <= j[2]}

\* The condition of the UPDATE that runs.
Matches(s, row) ==
  LET t == tx[s] IN
  CASE t.at = "starts"   -> row.n1 = t.req.node /\ (t.req.op = "MERGE" => ~row.removed)
    [] t.at = "finishes" -> row.n2 = t.req.node /\ (t.req.op = "MERGE" => ~row.removed)
    [] OTHER             -> t.at \in {"remove", "passports", "lengths"}

\* What it makes of the row k: the end at the node is put at the node's new
\* place, or attached to the target of the merge.  The passport of a line that is
\* removed is removed, the passport of another one gets its length.
Updated(s, k, row) ==
  LET t     == tx[s]
      to    == IF t.req.op = "MERGE" THEN t.req.other ELSE t.req.node
      place == IF t.req.op = "MERGE" THEN db[Node(t.req.other)].pos ELSE t.req.pos
      line  == View(s)[Line(k[2])]
  IN CASE t.at = "starts"    -> [row EXCEPT !.n1 = to, !.shape.start = place, !.stamp = t.now]
       [] t.at = "finishes"  -> [row EXCEPT !.n2 = to, !.shape.finish = place, !.stamp = t.now]
       [] t.at = "remove"    -> [row EXCEPT !.removed = TRUE, !.stamp = t.now]
       [] t.at = "passports" -> IF line.removed THEN [row EXCEPT !.removed = TRUE]
                                ELSE [row EXCEPT !.len = Length(line.shape)]
       [] t.at = "lengths"   -> [row EXCEPT !.len = t.sizes[k]]

With(writes, k, row) == [j \in DOMAIN writes \cup {k} |-> IF j = k THEN row ELSE writes[j]]

\* One row of the statement that runs: lock it, and if it is an UPDATE and the
\* condition still holds, write it.
Take(s, k) ==
  /\ k \in NextRows(s) /\ Free(s, k)
  /\ tx' = [tx EXCEPT ![s].todo = @ \ {k}, ![s].held = @ \cup {k},
              ![s].new = IF View(s)[k] # NULL /\ Matches(s, View(s)[k])
                         THEN With(@, k, Updated(s, k, View(s)[k])) ELSE @]
  /\ UNCHANGED <<db, clock, last>>

(***************************************************************************)
(* The statements between the first lock and the last write.                *)
(***************************************************************************)
\* What the server finds in the rows and takes for a reason to roll back.
Refused(s) ==
  LET r == tx[s].req IN
  CASE tx[s].at = "lock" ->
         (\A k \in Wanted(r) : Active(db, k)) =>
            \/ r.op = "SPLIT" /\ \/ db[Pipe(r.line)] = NULL
                                 \/ r.pos \in {db[Line(r.line)].shape.start, db[Line(r.line)].shape.finish}
            \/ r.op = "GEOMETRY" /\ \E n \in Ends(db, r.line) : db[Node(n)] = NULL
            \/ r.op = "DISSOLVE_NODE" /\ ~Dissolvable(db, r.node)
    [] tx[s].at = "claim" -> r.op = "DISSOLVE_NODE" /\ \E l \in tx[s].plan : ~Active(db, Line(l))
    [] tx[s].at = "undo_nodes" -> \E k \in DOMAIN last[s].after : db[k] # last[s].after[k]
    [] OTHER -> FALSE

\* The statement at of one of the operations is over.
After(s, operations, at) ==
  /\ tx[s].req # NULL /\ tx[s].req.op \in operations
  /\ tx[s].at = at /\ tx[s].todo = {}
  /\ ~Refused(s)

Runs(s, t) == tx' = [tx EXCEPT ![s] = t] /\ UNCHANGED <<db, clock, last>>

CaptureNode(s) ==
  LET n == tx[s].req.node IN
  /\ After(s, {"MOVE"}, "lock")
  /\ Runs(s, [tx[s] EXCEPT !.at = "capture",
                !.image = Image(db, {Node(n)} \cup LineKeysOf(Incident(db, n)))])

FindIncident(s) ==
  /\ After(s, {"DELETE_NODE"}, "lock")
  /\ Runs(s, [tx[s] EXCEPT !.at = "incident", !.plan = ActiveIncident(db, tx[s].req.node)])

FindConnecting(s) ==
  /\ After(s, {"MERGE"}, "lock")
  /\ Runs(s, [tx[s] EXCEPT !.at = "connecting", !.plan = Connecting(db, tx[s].req.other, tx[s].req.node)])

\* SELECT ... FOR UPDATE of the other lines of the source
ClaimIncident(s) ==
  /\ After(s, {"MERGE"}, "connecting")
  /\ Runs(s, [tx[s] EXCEPT !.at = "claim",
                !.todo = LineKeysOf(ActiveIncident(db, tx[s].req.node) \ tx[s].plan)])

\* Those of the locked lines that are still active lines of the source.
Relinking(s) == {l \in ActiveIncident(db, tx[s].req.node) : Line(l) \in tx[s].held}

\* The images of the nodes, and of the lines that have been chosen.
CapturePlan(s) ==
  /\ After(s, {"DELETE_NODE"}, "incident") \/ After(s, {"MERGE"}, "claim")
  /\ Runs(s, [tx[s] EXCEPT !.at = "capture",
                !.image = Image(db, Wanted(tx[s].req) \cup LineKeysOf(tx[s].plan \cup Relinking(s)))])

LinesIn(image) == {l \in LineId : Line(l) \in DOMAIN image}

\* And of their passports, by another statement.
CapturePassports(s) ==
  /\ After(s, {"MOVE", "DELETE_NODE", "MERGE"}, "capture")
  /\ Runs(s, [tx[s] EXCEPT !.at = "captured",
                !.image = @ @@ Image(db, PipeKeysOf(db, LinesIn(tx[s].image)))])

RemovePlan(s) ==
  /\ After(s, {"DELETE_NODE", "MERGE"}, "captured")
  /\ Runs(s, [tx[s] EXCEPT !.at = "remove", !.todo = LineKeysOf(tx[s].plan)])

\* _soft_remove_heatpipesections
RemovePassports(s) ==
  /\ After(s, {"DELETE_NODE", "MERGE"}, "remove")
  /\ Runs(s, [tx[s] EXCEPT !.at = "passports", !.todo = PipeKeysOf(View(s), tx[s].plan)])

LinesWhere(s, Holds(_)) == {k \in LineKeys : View(s)[k] # NULL /\ Holds(View(s)[k])}

Starts(s) ==
  LET r == tx[s].req IN
  /\ After(s, {"MOVE"}, "captured") \/ After(s, {"MERGE"}, "passports")
  /\ Runs(s, [tx[s] EXCEPT !.at = "starts",
       !.todo = LinesWhere(s, LAMBDA row : row.n1 = r.node /\ (r.op = "MERGE" => ~row.removed))])

Finishes(s) ==
  LET r == tx[s].req IN
  /\ After(s, {"MOVE", "MERGE"}, "starts")
  /\ Runs(s, [tx[s] EXCEPT !.at = "finishes",
       !.todo = LinesWhere(s, LAMBDA row : row.n2 = r.node /\ (r.op = "MERGE" => ~row.removed))])

\* UPDATE heatpipesections ... FROM linesobj: a passport that is waited for gets
\* the length of the line as the statement saw it.
Lengths(s) ==
  LET t     == tx[s]
      lines == IF t.req.op = "MERGE" THEN LinesIn(t.image) \ t.plan ELSE Incident(View(s), t.req.node)
      pipes == PipeKeysOf(View(s), lines)
  IN /\ After(s, {"MOVE", "MERGE"}, "finishes")
     /\ Runs(s, [t EXCEPT !.at = "lengths", !.todo = pipes,
                   !.sizes = [k \in pipes |-> Length(View(s)[Line(k[2])].shape)]])

\* The plan is read, then its lines are locked.
PlanDissolve(s) ==
  LET joins == Joins(db, tx[s].req.node)
      lines == {j[1] : j \in joins} \cup {j[2] : j \in joins}
  IN /\ After(s, {"DISSOLVE_NODE"}, "lock")
     /\ Runs(s, [tx[s] EXCEPT !.at = "claim", !.joins = joins, !.plan = lines, !.todo = LineKeysOf(lines)])

\* The passports of the lines that are locked.
Passports(s) == LET r == tx[s].req IN
  PipeKeysOf(db, tx[s].plan \cup {r[f] : f \in DOMAIN r \cap {"line"}})

\* The images of the rows that are locked, of the passports of the lines unless
\* they are only reversed, and of new rows.
Captured(s) ==
  LET r   == tx[s].req
      new == NewLineId(tx[s].now)
  IN CASE r.op = "CREATE_LINE" -> {Line(new), Pipe(new)}
       [] r.op = "SPLIT" -> Wanted(r) \cup {Pipe(r.line), Line(new), Pipe(new), Node(NewNodeId(tx[s].now))}
       [] r.op = "REVERSE" -> Wanted(r)
       [] OTHER -> Wanted(r) \cup LineKeysOf(tx[s].plan) \cup Passports(s)

\* The rows d has and the database has not.
Written(d) == {k \in Key : d[k] # db[k]}

\* The images, and the writes to the locked lines and to new rows.  What is left
\* are the passports of the lines.
WriteLines(s) ==
  LET t     == tx[s]
      v     == View(s)
      d     == IF t.req.op = "DISSOLVE_NODE"
               THEN RemoveLines(Extended(v, t.joins, t.req.node, t.now), {j[2] : j \in t.joins}, t.now)
               ELSE Effect(v, t.req, t.now)
      pipes == Passports(s)
  IN /\ After(s, {"DELETE_LINE", "SPLIT", "GEOMETRY"}, "lock") \/ After(s, {"DISSOLVE_NODE"}, "claim")
     /\ Runs(s, [t EXCEPT !.at = "passports", !.todo = pipes, !.image = Image(db, Captured(s)),
                   !.new = [k \in Written(d) \ pipes |-> d[k]]])

\* current_hashes locks table by table, in the order of their names.
UndoTable(s, from, to, table) ==
  /\ After(s, {"UNDO"}, from)
  /\ Runs(s, [tx[s] EXCEPT !.at = to, !.todo = Existing(DOMAIN last[s].after \cap table)])

UndoPipes(s) == UndoTable(s, "lock", "undo_pipes", PipeKeys)
UndoLines(s) == UndoTable(s, "undo_pipes", "undo_lines", LineKeys)
UndoNodes(s) == UndoTable(s, "undo_lines", "undo_nodes", NodeKeys)

(***************************************************************************)
(* The last writes, and the end.                                            *)
(***************************************************************************)
\* The statement after which nothing is left but writes to rows that are locked
\* or new.
LastLock(op) ==
  CASE op \in {"MOVE", "MERGE"} -> "lengths"
    [] op \in {"DELETE_NODE", "DISSOLVE_NODE", "DELETE_LINE", "SPLIT", "GEOMETRY"} -> "passports"
    [] op = "UNDO" -> "undo_nodes"
    [] OTHER -> "lock"

LastWrites(s) ==
  LET r == tx[s].req
      v == View(s)
      now == tx[s].now
  IN CASE r.op = "MOVE" -> Update(v, {Node(r.node)}, LAMBDA k : [v[k] EXCEPT !.pos = r.pos, !.stamp = now])
       [] r.op = "MERGE" ->
            RemoveNode(Update(v, {Node(r.other)}, LAMBDA k : [v[k] EXCEPT !.stamp = now]), r.node, now)
       [] r.op \in {"DELETE_NODE", "DISSOLVE_NODE"} -> RemoveNode(v, r.node, now)
       [] r.op = "UNDO" -> Restore(v, last[s].before)
       [] r.op \in {"CREATE_LINE", "REVERSE"} -> Effect(v, r, now)
       [] OTHER -> v

Write(s) ==
  LET d == LastWrites(s) IN
  /\ After(s, Ops, LastLock(tx[s].req.op))
  /\ Runs(s, [tx[s] EXCEPT !.at = "written",
                !.image = IF @ = <<>> THEN Image(db, Captured(s)) ELSE @,
                !.new = [k \in Written(d) |-> d[k]]])

Commit(s) ==
  /\ tx[s].at = "written"
  /\ db' = View(s)
  /\ last' = [last EXCEPT ![s] =
       IF tx[s].req.op = "UNDO" THEN NULL
       ELSE [before |-> tx[s].image, after |-> Image(View(s), DOMAIN tx[s].image)]]
  /\ tx' = [tx EXCEPT ![s] = Idle]
  /\ UNCHANGED clock

\* A bug: the rows stay locked.
RollbackLocked(s) == Runs(s, [Idle EXCEPT !.held = tx[s].held])

Rollback(s) == Runs(s, Idle)

Refuse(s) ==
  /\ tx[s].req # NULL /\ tx[s].todo = {} /\ Refused(s)
  /\ Rollback(s)

\* Each session of the cycle waits for a row that another one of it has locked.
Cycle(C) ==
  /\ C # {}
  /\ \A s \in C : \E u \in C \ {s} : NextRows(s) \cap tx[u].held # {}

\* The database finds the cycle and aborts one of its transactions.
Victim(s) ==
  /\ \E C \in SUBSET Session : s \in C /\ Cycle(C)
  /\ Rollback(s)

\* The connection is lost.
Lost(s) == tx[s].req # NULL /\ Rollback(s)

(***************************************************************************)
(* The specification.                                                       *)
(***************************************************************************)
Statement(s) ==
  \/ \E k \in tx[s].todo : Take(s, k)
  \/ CaptureNode(s) \/ FindIncident(s) \/ FindConnecting(s) \/ ClaimIncident(s)
  \/ CapturePlan(s) \/ CapturePassports(s) \/ RemovePlan(s) \/ RemovePassports(s)
  \/ Starts(s) \/ Finishes(s) \/ Lengths(s) \/ PlanDissolve(s) \/ WriteLines(s)
  \/ UndoPipes(s) \/ UndoLines(s) \/ UndoNodes(s)
  \/ Write(s) \/ Commit(s) \/ Refuse(s) \/ Victim(s)

Next == \E s \in Session : (\E r \in Request : Begin(s, r)) \/ Statement(s) \/ Lost(s)

Spec == Init /\ [][Next]_vars

\* A session sends its next statement, the database grants a lock that is free
\* and breaks a cycle.
FairSpec == Spec /\ \A s \in Session : WF_vars(Statement(s))

(***************************************************************************)
(* Properties.                                                              *)
(***************************************************************************)
EndsActive == EndsOk(db)
LinesFollowNodes == GeometryOk(db)
LengthsFollowLines == LengthOk(db)

\* The rows without their times.
Plain(d) ==
  [k \in NodeKeys \cup LineKeys \cup PipeKeys |->
     IF d[k] = NULL \/ k \in PipeKeys THEN d[k] ELSE [d[k] EXCEPT !.stamp = 0]]

\* Whatever the statements of other transactions came in between, an operation
\* does to the committed rows what it would have done alone: the end nodes are
\* locked "so that they are not deleted or moved meanwhile" (create_line).
Serial ==
  [][db' # db =>
       \E s \in Session :
         /\ tx[s].at = "written" /\ tx'[s] = Idle
         /\ \/ tx[s].req.op = "UNDO"
            \/ Plain(db') = Plain(Effect(db, tx[s].req, tx[s].now))]_vars

\* The images in the journal are of the rows the operation overwrote, and of
\* every one of them.
ImagesFresh ==
  [][\A s \in Session : last'[s] # last[s] /\ last'[s] # NULL =>
       /\ \A k \in DOMAIN last'[s].before : last'[s].before[k] = db[k]
       /\ \A k \in Key : db'[k] # db[k] => k \in DOMAIN last'[s].before]_vars

\* "in the order of ids, without deadlocks" (_lock_objects)
NoDeadlock == \A C \in SUBSET Session : ~Cycle(C)

\* That is so of the operations on lines among themselves, and of undos.  Where
\* transactions wait for each other in a circle, an undo, which locks the
\* passports before the lines, has met an operation that locks its line before
\* the passport.
CirclesNeedUndos ==
  \A C \in SUBSET Session : Cycle(C) =>
    /\ \E s \in C : tx[s].at = "undo_lines" /\ tx[s].held \cap PipeKeys # {}
    /\ \E u \in C : tx[u].at = "passports"

\* Every transaction ends: no lock is kept, and nobody is waited for, for ever.
TransactionsEnd == \A s \in Session : tx[s].req # NULL ~> tx[s].req = NULL
=============================================================================
