----------------------------- MODULE LockProofs -----------------------------
(***************************************************************************)
(* What the interleaved transactions of the editor promise each other, for  *)
(* any number of sessions and any network: the operations that lock a line, *)
(* or the two ends of a new one, and undo.                                  *)
(***************************************************************************)
EXTENDS TopologyLocks, WellFoundedInduction, TLAPS

\* The operations of the run "lines".
LineOps == {"CREATE_LINE", "DELETE_LINE", "SPLIT", "REVERSE", "GEOMETRY", "UNDO"}

(***************************************************************************)
(* Keys and requests.                                                       *)
(***************************************************************************)
LEMMA Keys ==
  /\ \A k \in NodeKeys : k[1] = "nodes" /\ k[2] \in NodeId /\ k = Node(k[2])
  /\ \A k \in LineKeys : k[1] = "linesobj" /\ k[2] \in LineId /\ k = Line(k[2])
  /\ \A k \in PipeKeys : k[1] = "heatpipesections" /\ k[2] \in LineId /\ k = Pipe(k[2])
  /\ \A n \in NodeId : Node(n) \in NodeKeys /\ Node(n) \in Key
  /\ \A l \in LineId : Line(l) \in LineKeys /\ Line(l) \in Key /\ Pipe(l) \in PipeKeys /\ Pipe(l) \in Key
<1>1. \A k \in NodeKeys : k[1] = "nodes" /\ k[2] \in NodeId /\ k = Node(k[2])
  BY DEF NodeKeys, Node
<1>2. \A k \in LineKeys : k[1] = "linesobj" /\ k[2] \in LineId /\ k = Line(k[2])
  BY DEF LineKeys, Line
<1>3. \A k \in PipeKeys : k[1] = "heatpipesections" /\ k[2] \in LineId /\ k = Pipe(k[2])
  BY DEF PipeKeys, Pipe
<1>4. /\ \A n \in NodeId : Node(n) \in NodeKeys /\ Node(n) \in Key
      /\ \A l \in LineId : Line(l) \in LineKeys /\ Line(l) \in Key /\ Pipe(l) \in PipeKeys /\ Pipe(l) \in Key
  BY DEF NodeKeys, LineKeys, PipeKeys, Key
<1> QED BY <1>1, <1>2, <1>3, <1>4

LEMMA Requests ==
  ASSUME Ops \subseteq LineOps, NEW r \in Request
  PROVE  /\ r.op \in LineOps
         /\ r.op = "CREATE_LINE" =>
              r.node \in NodeId /\ r.other \in NodeId /\ Wanted(r) = {Node(r.node), Node(r.other)}
         /\ r.op \in {"DELETE_LINE", "SPLIT", "REVERSE", "GEOMETRY"} =>
              r.line \in LineId /\ Wanted(r) = {Line(r.line)}
         /\ r.op = "SPLIT" => r.pos \in Pos
         /\ r.op = "UNDO" => Wanted(r) = {}
<1>1. r.op \in LineOps
  BY DEF Request
<1>2. CASE r \in {q \in [op : {"CREATE_LINE", "MERGE"}, node : NodeId, other : NodeId] : q.node # q.other}
  <2>1. DOMAIN r = {"op", "node", "other"} /\ r.op \in {"CREATE_LINE", "MERGE"}
        /\ r.node \in NodeId /\ r.other \in NodeId
    BY <1>2
  <2>2. Wanted(r) = {Node(r.node), Node(r.other)}
    BY <2>1 DEF Wanted
  <2> QED BY <1>1, <2>1, <2>2
<1>3. CASE r \in [op : {"DELETE_LINE", "REVERSE", "GEOMETRY"}, line : LineId]
  <2>1. DOMAIN r = {"op", "line"} /\ r.op \in {"DELETE_LINE", "REVERSE", "GEOMETRY"} /\ r.line \in LineId
    BY <1>3
  <2>2. Wanted(r) = {Line(r.line)}
    BY <2>1 DEF Wanted
  <2> QED BY <1>1, <2>1, <2>2
<1>4. CASE r \in [op : {"SPLIT"}, line : LineId, pos : Pos]
  <2>1. DOMAIN r = {"op", "line", "pos"} /\ r.op = "SPLIT" /\ r.line \in LineId /\ r.pos \in Pos
    BY <1>4
  <2>2. Wanted(r) = {Line(r.line)}
    BY <2>1 DEF Wanted
  <2> QED BY <1>1, <2>1, <2>2
<1>5. CASE r \in [op : {"UNDO"}]
  <2>1. DOMAIN r = {"op"} /\ r.op = "UNDO"
    BY <1>5
  <2>2. Wanted(r) = {}
    BY <2>1 DEF Wanted
  <2> QED BY <1>1, <2>1, <2>2
<1>6. CASE \/ r \in [op : {"MOVE"}, node : NodeId, pos : Pos]
           \/ r \in [op : {"DELETE_NODE", "DISSOLVE_NODE"}, node : NodeId]
  <2>1. r.op \in {"MOVE", "DELETE_NODE", "DISSOLVE_NODE"}
    BY <1>6
  <2> QED BY <1>1, <2>1 DEF LineOps
<1> QED BY <1>2, <1>3, <1>4, <1>5, <1>6 DEF Request

(***************************************************************************)
(* The transactions.                                                        *)
(***************************************************************************)
Fields == {"req", "now", "at", "todo", "held", "plan", "joins", "sizes", "image", "new"}
Rows == NodeKeys \cup LineKeys \cup PipeKeys

\* The operations that write their line before its passport.
Redrawing == {"DELETE_LINE", "SPLIT", "GEOMETRY"}

\* A transaction is idle, locks its first rows, the passport of its line or the
\* rows of an undo, or has written; before it writes it has neither images nor
\* rows of its own.
TxOk(t) ==
  /\ DOMAIN t = Fields
  /\ t.at \in {"idle", "lock", "passports", "undo_pipes", "undo_lines", "undo_nodes", "written"}
  /\ t.at = "idle" => t = Idle
  /\ t.at # "idle" => t.req \in Request /\ t.now \in 1 .. MaxClock
  /\ t.at \in {"undo_pipes", "undo_lines", "undo_nodes"} => t.req.op = "UNDO"
  /\ t.at = "passports" => t.req.op \in Redrawing
  /\ t.at \notin {"passports", "written"} => t.image = <<>> /\ t.new = <<>>
  /\ t.at = "written" => t.todo = {}
  /\ t.plan = {}
  /\ t.todo \subseteq Rows /\ t.held \subseteq Rows

TxInv ==
  /\ clock \in 1 .. MaxClock + 1
  /\ DOMAIN tx = Session /\ DOMAIN last = Session /\ DOMAIN db = Key
  /\ \A s \in Session : TxOk(tx[s])

\* The rows a transaction comes to, by the tables and in each by the ids.
Ordered(t) ==
  /\ \E table \in {NodeKeys, LineKeys, PipeKeys} : t.todo \subseteq table
  /\ \A j \in t.held, k \in t.todo : j[1] = k[1] => j[2] < k[2]
  /\ t.at = "lock" => t.held \cup t.todo \subseteq Wanted(t.req)
  /\ t.at = "passports" /\ t.todo # {} => t.held \subseteq LineKeys /\ t.todo = {Pipe(t.req.line)}
  /\ t.at = "undo_pipes" => t.held \cup t.todo \subseteq PipeKeys
  /\ t.at = "undo_lines" => t.held \subseteq PipeKeys \cup LineKeys /\ t.todo \subseteq LineKeys
  /\ t.at = "undo_nodes" => t.todo \subseteq NodeKeys

(***************************************************************************)
(* What a step does to the transaction of its session.                      *)
(***************************************************************************)
Is(t, req, now, at, todo, held, image, new) ==
  /\ DOMAIN t = Fields
  /\ t.req = req /\ t.now = now /\ t.at = at /\ t.todo = todo /\ t.held = held
  /\ t.plan = {} /\ t.image = image /\ t.new = new

Others(s) == DOMAIN tx' = Session /\ \A u \in Session \ {s} : tx'[u] = tx[u]

Begins(s) ==
  /\ tx[s] = Idle /\ clock <= MaxClock /\ clock' = clock + 1 /\ UNCHANGED <<db, last>>
  /\ \E r \in Request : /\ Existing(Wanted(r)) = Wanted(r)
                        /\ r.op = "UNDO" => last[s] # NULL
                        /\ Is(tx'[s], r, clock, "lock", Wanted(r), {}, <<>>, <<>>)

Takes(s) ==
  LET t == tx[s] IN
  /\ t.at \in {"lock", "undo_pipes", "undo_lines", "undo_nodes"} /\ UNCHANGED <<db, clock, last>>
  /\ \E k \in t.todo :
       /\ \A j \in t.todo : k[2] <= j[2]
       /\ Free(s, k)
       /\ Is(tx'[s], t.req, t.now, t.at, t.todo \ {k}, t.held \cup {k}, t.image, t.new)

Measures(s) ==
  LET t == tx[s] IN
  /\ t.at = "passports" /\ UNCHANGED <<db, clock, last>>
  /\ \E k \in t.todo :
       /\ Free(s, k)
       /\ Is(tx'[s], t.req, t.now, t.at, t.todo \ {k}, t.held \cup {k}, t.image,
             IF View(s)[k] # NULL THEN With(t.new, k, Updated(s, k, View(s)[k])) ELSE t.new)

Asks(s, from, to, table) ==
  LET t == tx[s] IN
  /\ t.at = from /\ t.req.op = "UNDO" /\ t.todo = {} /\ UNCHANGED <<db, clock, last>>
  /\ Is(tx'[s], t.req, t.now, to, Existing(DOMAIN last[s].after \cap table), t.held, <<>>, <<>>)

AsksTables(s) ==
  \/ Asks(s, "lock", "undo_pipes", PipeKeys)
  \/ Asks(s, "undo_pipes", "undo_lines", LineKeys)
  \/ Asks(s, "undo_lines", "undo_nodes", NodeKeys)

Draws(s) ==
  LET t     == tx[s]
      d     == Effect(View(s), t.req, t.now)
      pipes == Passports(s)
  IN /\ t.at = "lock" /\ t.req.op \in Redrawing /\ t.todo = {} /\ ~Refused(s) /\ UNCHANGED <<db, clock, last>>
     /\ Is(tx'[s], t.req, t.now, "passports", pipes, t.held, Image(db, Captured(s)),
           [k \in Written(d) \ pipes |-> d[k]])

Writes(s) ==
  LET t == tx[s]
      d == LastWrites(s)
  IN /\ t.at = LastLock(t.req.op) /\ t.at # "idle" /\ t.todo = {} /\ ~Refused(s) /\ UNCHANGED <<db, clock, last>>
     /\ Is(tx'[s], t.req, t.now, "written", {}, t.held,
           IF t.image = <<>> THEN Image(db, Captured(s)) ELSE t.image, [k \in Written(d) |-> d[k]])

Commits(s) == Commit(s) /\ tx'[s] = Idle

RollsBack(s) == tx'[s] = Idle /\ UNCHANGED <<db, clock, last>>

Moves(s) ==
  \/ Begins(s) \/ Takes(s) \/ Measures(s) \/ AsksTables(s) \/ Draws(s)
  \/ Writes(s) \/ Commits(s) \/ RollsBack(s)

LEMMA IdleIs == Is(Idle, NULL, 0, "idle", {}, {}, <<>>, <<>>)
BY DEF Is, Idle, Fields

LEMMA Running ==
  ASSUME TxInv, NEW s \in Session
  PROVE  tx[s].req # NULL <=> tx[s].at # "idle"
BY RequestAssumption, IdleIs DEF TxInv, TxOk, Is

LEMMA BeginIs ==
  ASSUME TxInv, NEW s \in Session, NEW r \in Request, Begin(s, r)
  PROVE  Others(s) /\ Begins(s)
<1>1. tx[s] = Idle
  BY Running DEF Begin, TxInv, TxOk
<1>2. tx' = [tx EXCEPT ![s] = [Idle EXCEPT !.req = r, !.now = clock, !.at = "lock", !.todo = Wanted(r)]]
  BY DEF Begin, FirstLocks
<1>3. Others(s) /\ tx'[s] = [Idle EXCEPT !.req = r, !.now = clock, !.at = "lock", !.todo = Wanted(r)]
  BY <1>2 DEF TxInv, Others
<1>4. Is(tx'[s], r, clock, "lock", Wanted(r), {}, <<>>, <<>>)
  BY <1>3 DEF Is, Idle, Fields
<1> QED BY <1>1, <1>3, <1>4 DEF Begin, Begins

LEMMA TakeIs ==
  ASSUME TxInv, NEW s \in Session, NEW k \in tx[s].todo, Take(s, k)
  PROVE  Others(s) /\ (Takes(s) \/ Measures(s))
<1> DEFINE new == IF View(s)[k] # NULL /\ Matches(s, View(s)[k])
                  THEN With(tx[s].new, k, Updated(s, k, View(s)[k])) ELSE tx[s].new
<1>1. tx[s].at \in {"lock", "passports", "undo_pipes", "undo_lines", "undo_nodes"}
  BY IdleIs DEF TxInv, TxOk, Is
<1>2. /\ k \in NextRows(s) /\ Free(s, k) /\ UNCHANGED <<db, clock, last>>
      /\ tx' = [tx EXCEPT ![s].todo = @ \ {k}, ![s].held = @ \cup {k}, ![s].new = new]
  BY DEF Take
<1>3. Matches(s, View(s)[k]) <=> tx[s].at = "passports"
  BY <1>1 DEF Matches
<1> HIDE DEF new
<1>4. /\ Others(s)
      /\ tx'[s] = [tx[s] EXCEPT !.todo = @ \ {k}, !.held = @ \cup {k}, !.new = new]
  BY <1>2 DEF TxInv, Others
<1>5. Is(tx'[s], tx[s].req, tx[s].now, tx[s].at, tx[s].todo \ {k}, tx[s].held \cup {k}, tx[s].image, new)
  BY <1>4 DEF TxInv, TxOk, Is, Fields
<1>6. CASE tx[s].at = "passports"
  <2>1. new = IF View(s)[k] # NULL THEN With(tx[s].new, k, Updated(s, k, View(s)[k])) ELSE tx[s].new
    BY <1>3, <1>6 DEF new
  <2> QED BY <1>2, <1>4, <1>5, <1>6, <2>1 DEF Measures
<1>7. CASE tx[s].at # "passports"
  <2>1. new = tx[s].new
    BY <1>3, <1>7 DEF new
  <2>2. \A j \in tx[s].todo : k[2] <= j[2]
    BY <1>1, <1>2, <1>7 DEF NextRows
  <2> QED BY <1>1, <1>2, <1>4, <1>5, <1>7, <2>1, <2>2 DEF Takes
<1> QED BY <1>6, <1>7

LEMMA TableIs ==
  ASSUME TxInv, NEW s \in Session, NEW from \in {"lock", "undo_pipes", "undo_lines"}, NEW to, NEW table,
         UndoTable(s, from, to, table)
  PROVE  Others(s) /\ Asks(s, from, to, table)
<1> DEFINE rows == Existing(DOMAIN last[s].after \cap table)
<1>1. /\ tx[s].at = from /\ tx[s].req.op = "UNDO" /\ tx[s].todo = {} /\ UNCHANGED <<db, clock, last>>
      /\ tx' = [tx EXCEPT ![s] = [tx[s] EXCEPT !.at = to, !.todo = rows]]
  BY DEF UndoTable, After, Runs
<1> HIDE DEF rows
<1>2. Others(s) /\ tx'[s] = [tx[s] EXCEPT !.at = to, !.todo = rows]
  BY <1>1 DEF TxInv, Others
<1>3. Is(tx'[s], tx[s].req, tx[s].now, to, rows, tx[s].held, <<>>, <<>>)
  BY <1>1, <1>2 DEF TxInv, TxOk, Is, Fields
<1> QED BY <1>1, <1>2, <1>3 DEF Asks, rows

LEMMA AskIs ==
  ASSUME TxInv, NEW s \in Session, UndoPipes(s) \/ UndoLines(s) \/ UndoNodes(s)
  PROVE  Others(s) /\ AsksTables(s)
BY TableIs DEF UndoPipes, UndoLines, UndoNodes, AsksTables

LEMMA DrawIs ==
  ASSUME Ops \subseteq LineOps, TxInv, NEW s \in Session, WriteLines(s), tx[s].req.op \in LineOps
  PROVE  Others(s) /\ Draws(s)
<1> DEFINE t     == tx[s]
           d     == Effect(View(s), t.req, t.now)
           pipes == Passports(s)
           image == Image(db, Captured(s))
           new   == [k \in Written(d) \ pipes |-> d[k]]
<1>1. /\ t.at = "lock" /\ t.req.op \in Redrawing /\ t.todo = {} /\ ~Refused(s) /\ UNCHANGED <<db, clock, last>>
      /\ tx' = [tx EXCEPT ![s] = [t EXCEPT !.at = "passports", !.todo = pipes, !.image = image, !.new = new]]
  BY DEF WriteLines, After, Runs, LineOps, Redrawing
<1> HIDE DEF pipes, image, new
<1>2. Others(s) /\ tx'[s] = [t EXCEPT !.at = "passports", !.todo = pipes, !.image = image, !.new = new]
  BY <1>1 DEF TxInv, Others
<1>3. Is(tx'[s], t.req, t.now, "passports", pipes, t.held, image, new)
  BY <1>2 DEF TxInv, TxOk, Is, Fields
<1> QED BY <1>1, <1>2, <1>3 DEF Draws, pipes, image, new

LEMMA WriteIs ==
  ASSUME TxInv, NEW s \in Session, Write(s)
  PROVE  Others(s) /\ Writes(s)
<1> DEFINE d     == LastWrites(s)
           new   == [k \in Written(d) |-> d[k]]
           image == IF tx[s].image = <<>> THEN Image(db, Captured(s)) ELSE tx[s].image
<1>1. tx[s].at = LastLock(tx[s].req.op) /\ tx[s].at # "idle" /\ tx[s].todo = {} /\ ~Refused(s)
      /\ UNCHANGED <<db, clock, last>>
  BY Running DEF Write, After, Runs
<1>2. tx' = [tx EXCEPT ![s] = [tx[s] EXCEPT !.at = "written", !.image = image, !.new = new]]
  BY DEF Write, Runs
<1> HIDE DEF d, new, image
<1>3. Others(s) /\ tx'[s] = [tx[s] EXCEPT !.at = "written", !.image = image, !.new = new]
  BY <1>2 DEF TxInv, Others
<1>4. Is(tx'[s], tx[s].req, tx[s].now, "written", {}, tx[s].held, image, new)
  BY <1>1, <1>3 DEF TxInv, TxOk, Is, Fields
<1> QED BY <1>1, <1>3, <1>4 DEF Writes, d, new, image

LEMMA RollbackIs ==
  ASSUME TxInv, NEW s \in Session, Rollback(s)
  PROVE  Others(s) /\ RollsBack(s)
BY DEF Rollback, Runs, TxInv, Others, RollsBack

LEMMA CommitIs ==
  ASSUME TxInv, NEW s \in Session, Commit(s)
  PROVE  Others(s) /\ Commits(s)
BY DEF Commit, TxInv, Others, Commits

LEMMA StepIs ==
  ASSUME Ops \subseteq LineOps, TxInv, Next
  PROVE  \E s \in Session : Others(s) /\ Moves(s)
<1>1. PICK s \in Session : (\E r \in Request : Begin(s, r)) \/ Statement(s) \/ Lost(s)
  BY DEF Next
<1>2. CASE \E r \in Request : Begin(s, r)
  BY <1>2, BeginIs DEF Moves
<1>3. CASE Statement(s)
  <2>1. ASSUME NEW operations, NEW at, After(s, operations, at)
        PROVE  tx[s].at = at /\ tx[s].at \in {"lock", "passports", "undo_pipes", "undo_lines", "undo_nodes", "written"}
               /\ tx[s].req.op \in LineOps \cap operations /\ (at = "passports" => tx[s].req.op \in Redrawing)
    BY <2>1, Running, Requests DEF After, TxInv, TxOk
  <2>2. /\ ~CaptureNode(s) /\ ~FindIncident(s) /\ ~FindConnecting(s) /\ ~ClaimIncident(s) /\ ~PlanDissolve(s)
        /\ ~CapturePlan(s) /\ ~CapturePassports(s) /\ ~RemovePlan(s) /\ ~RemovePassports(s)
        /\ ~Starts(s) /\ ~Finishes(s) /\ ~Lengths(s)
    BY <2>1 DEF CaptureNode, FindIncident, FindConnecting, ClaimIncident, PlanDissolve, CapturePassports,
                CapturePlan, RemovePlan, RemovePassports, Starts, Finishes, Lengths, LineOps, Redrawing
  <2>3. \/ \E k \in tx[s].todo : Take(s, k)
        \/ UndoPipes(s) \/ UndoLines(s) \/ UndoNodes(s) \/ (WriteLines(s) /\ tx[s].req.op \in LineOps)
        \/ Write(s) \/ Commit(s) \/ Rollback(s)
    BY <1>3, <2>1, <2>2 DEF Statement, Refuse, Victim, WriteLines
  <2> QED BY <2>3, TakeIs, AskIs, DrawIs, WriteIs, CommitIs, RollbackIs DEF Moves
<1>4. CASE Lost(s)
  BY <1>4, RollbackIs DEF Lost, Moves
<1> QED BY <1>1, <1>2, <1>3, <1>4

-----------------------------------------------------------------------------
(* The transactions keep to their shape and to the order of the rows.      *)

LEMMA FirstRows ==
  ASSUME Ops \subseteq LineOps, NEW r \in Request
  PROVE  /\ Wanted(r) \subseteq NodeKeys \/ Wanted(r) \subseteq LineKeys
         /\ Wanted(r) \subseteq Rows
         /\ r.op \in Redrawing => r.line \in LineId /\ Wanted(r) = {Line(r.line)}
BY Requests, Keys DEF LineOps, Rows, Redrawing

\* The one passport that an operation on a line locks.
LEMMA OnePassport ==
  ASSUME NEW s \in Session, tx[s].req \in Request, tx[s].req.op \in Redrawing, tx[s].plan = {}
  PROVE  Passports(s) = PipeKeysOf(db, {tx[s].req.line}) /\ Passports(s) \subseteq {Pipe(tx[s].req.line)}
<1>1. DOMAIN tx[s].req \cap {"line"} = {"line"}
  BY DEF Request, Redrawing
<1>2. Passports(s) = PipeKeysOf(db, {tx[s].req.line})
  BY <1>1 DEF Passports
<1> QED BY <1>2 DEF PipeKeysOf

LEMMA MovesKeep ==
  ASSUME Ops \subseteq LineOps, TxInv, NEW s \in Session, Others(s), Moves(s)
  PROVE  TxInv'
<1>1. TxOk(tx'[s])
  <2>1. CASE Begins(s)
    BY <2>1, FirstRows, BoundsAssumption DEF Begins, Is, TxOk, TxInv
  <2>2. CASE Takes(s)
    BY <2>2 DEF Takes, Is, TxOk, TxInv
  <2>3. CASE Measures(s)
    BY <2>3 DEF Measures, Is, TxOk, TxInv
  <2>4. CASE AsksTables(s)
    BY <2>4 DEF AsksTables, Asks, Is, TxOk, TxInv, Existing, Rows
  <2>5. CASE Draws(s)
    <3>1. tx[s].req \in Request /\ tx[s].req.op \in Redrawing /\ tx[s].plan = {}
      BY <2>5 DEF Draws, TxInv, TxOk
    <3>2. Passports(s) \subseteq Rows
      <4>1. tx[s].req.line \in LineId /\ Passports(s) \subseteq {Pipe(tx[s].req.line)}
        BY <3>1, OnePassport, FirstRows
      <4>2. Pipe(tx[s].req.line) \in PipeKeys
        BY <4>1, Keys
      <4> QED BY <4>1, <4>2 DEF Rows
    <3> QED BY <2>5, <3>2 DEF Draws, Is, TxOk, TxInv
  <2>6. CASE Writes(s)
    BY <2>6 DEF Writes, Is, TxOk, TxInv
  <2>7. CASE Commits(s) \/ RollsBack(s)
    BY <2>7, IdleIs DEF Commits, RollsBack, Is, TxOk
  <2> QED BY <2>1, <2>2, <2>3, <2>4, <2>5, <2>6, <2>7 DEF Moves
<1>2. clock' \in 1 .. MaxClock + 1
  BY BoundsAssumption DEF TxInv, Moves, Begins, Takes, Measures, AsksTables, Asks, Draws, Writes, Commits, Commit,
                          RollsBack
<1>3. DOMAIN last' = Session /\ DOMAIN db' = Key
  <2>1. CASE Commits(s)
    BY <2>1 DEF Commits, Commit, View, TxInv
  <2>2. CASE ~Commits(s)
    BY <2>2 DEF TxInv, Moves, Begins, Takes, Measures, AsksTables, Asks, Draws, Writes, RollsBack
  <2> QED BY <2>1, <2>2
<1> QED BY <1>1, <1>2, <1>3 DEF TxInv, Others

LEMMA MovesOrdered ==
  ASSUME Ops \subseteq LineOps, TxInv, NEW s \in Session, Moves(s), Ordered(tx[s])
  PROVE  Ordered(tx'[s])
<1>1. CASE Begins(s)
  <2>1. PICK r \in Request : Is(tx'[s], r, clock, "lock", Wanted(r), {}, <<>>, <<>>)
    BY <1>1 DEF Begins
  <2> QED BY <2>1, FirstRows DEF Is, Ordered
<1>2. CASE Takes(s)
  <2>1. PICK k \in tx[s].todo :
          /\ \A j \in tx[s].todo : k[2] <= j[2]
          /\ Is(tx'[s], tx[s].req, tx[s].now, tx[s].at, tx[s].todo \ {k}, tx[s].held \cup {k}, tx[s].image, tx[s].new)
          /\ tx[s].at # "passports"
    BY <1>2 DEF Takes
  <2>2. \A j \in tx[s].todo \ {k} : k[2] < j[2]
    <3>1. PICK table \in {NodeKeys, LineKeys, PipeKeys} : tx[s].todo \subseteq table
      BY DEF Ordered
    <3>2. \A i, j \in table : i[2] = j[2] => i = j
      BY Keys
    <3>3. \A j \in table : j[2] \in Int
      BY Keys DEF NodeId, LineId
    <3> QED BY <2>1, <3>1, <3>2, <3>3
  <2>3. tx'[s].todo \subseteq tx[s].todo /\ tx'[s].held \cup tx'[s].todo = tx[s].held \cup tx[s].todo
        /\ tx'[s].at = tx[s].at /\ tx'[s].req = tx[s].req
    BY <2>1 DEF Is
  <2>4. \A i \in tx'[s].held, j \in tx'[s].todo : i[1] = j[1] => i[2] < j[2]
    BY <2>1, <2>2 DEF Is, Ordered
  <2> QED BY <2>1, <2>3, <2>4 DEF Ordered
<1>3. CASE Measures(s)
  <2>1. tx'[s].todo = {} /\ tx'[s].at = "passports"
    <3>1. PICK k \in tx[s].todo : tx'[s].todo = tx[s].todo \ {k} /\ tx'[s].at = "passports"
      BY <1>3 DEF Measures, Is
    <3>2. tx[s].todo = {Pipe(tx[s].req.line)}
      BY <1>3, <3>1 DEF Measures, Ordered
    <3> QED BY <3>1, <3>2
  <2> QED BY <2>1 DEF Ordered
<1>4. CASE AsksTables(s)
  <2>1. Wanted(tx[s].req) = {} /\ tx[s].req.op = "UNDO"
    BY <1>4, Requests DEF AsksTables, Asks, TxInv, TxOk
  <2>2. CASE Asks(s, "lock", "undo_pipes", PipeKeys)
    <3>1. tx[s].held = {} /\ tx'[s].held = {} /\ tx'[s].todo \subseteq PipeKeys /\ tx'[s].at = "undo_pipes"
      BY <2>1, <2>2 DEF Asks, Is, Ordered, Existing
    <3> QED BY <3>1 DEF Ordered
  <2>3. CASE Asks(s, "undo_pipes", "undo_lines", LineKeys)
    <3>1. tx'[s].held \subseteq PipeKeys /\ tx'[s].todo \subseteq LineKeys /\ tx'[s].at = "undo_lines"
      BY <2>3 DEF Asks, Is, Ordered, Existing
    <3>2. \A j \in tx'[s].held, k \in tx'[s].todo : j[1] # k[1]
      BY <3>1, Keys
    <3> QED BY <3>1, <3>2 DEF Ordered
  <2>4. CASE Asks(s, "undo_lines", "undo_nodes", NodeKeys)
    <3>1. tx'[s].held \subseteq PipeKeys \cup LineKeys /\ tx'[s].todo \subseteq NodeKeys /\ tx'[s].at = "undo_nodes"
      BY <2>4 DEF Asks, Is, Ordered, Existing
    <3>2. \A j \in tx'[s].held, k \in tx'[s].todo : j[1] # k[1]
      BY <3>1, Keys
    <3> QED BY <3>1, <3>2 DEF Ordered
  <2> QED BY <1>4, <2>2, <2>3, <2>4 DEF AsksTables
<1>5. CASE Draws(s)
  <2>1. /\ tx[s].req \in Request /\ tx[s].req.op \in Redrawing /\ tx[s].now \in 1 .. MaxClock /\ tx[s].plan = {}
        /\ tx'[s].todo = Passports(s) /\ tx'[s].req = tx[s].req
        /\ tx'[s].held = tx[s].held /\ tx'[s].at = "passports" /\ tx[s].at = "lock"
    BY <1>5 DEF Draws, Is, TxInv, TxOk
  <2>2. tx'[s].todo \subseteq {Pipe(tx[s].req.line)}
    BY <2>1, OnePassport
  <2>3. tx[s].held \subseteq LineKeys /\ tx[s].req.line \in LineId
    BY <2>1, FirstRows, Keys DEF Ordered
  <2>4. tx'[s].todo \subseteq PipeKeys /\ \A j \in tx'[s].held, k \in tx'[s].todo : j[1] # k[1]
    BY <2>1, <2>2, <2>3, Keys
  <2> QED BY <2>1, <2>2, <2>3, <2>4 DEF Ordered
<1>6. CASE Writes(s)
  BY <1>6 DEF Writes, Is, Ordered
<1>7. CASE Commits(s) \/ RollsBack(s)
  BY <1>7, IdleIs DEF Commits, RollsBack, Is, Ordered
<1> QED BY <1>1, <1>2, <1>3, <1>4, <1>5, <1>6, <1>7 DEF Moves

OrderInv == \A s \in Session : Ordered(tx[s])

LEMMA InitTx == ASSUME Init PROVE TxInv /\ OrderInv
<1>1. TxOk(Idle) /\ Ordered(Idle)
  BY IdleIs DEF Is, TxOk, Ordered
<1> QED BY <1>1, InitialDbAssumption, BoundsAssumption DEF Init, TxInv, OrderInv, DbOk

LEMMA TxAlways == ASSUME Ops \subseteq LineOps PROVE Spec => [](TxInv /\ OrderInv)
<1>1. TxInv /\ OrderInv /\ [Next]_vars => TxInv' /\ OrderInv'
  <2> SUFFICES ASSUME TxInv, OrderInv, [Next]_vars PROVE TxInv' /\ OrderInv'
    OBVIOUS
  <2>1. CASE UNCHANGED vars
    BY <2>1 DEF vars, TxInv, OrderInv
  <2>2. CASE Next
    <3>1. PICK s \in Session : Others(s) /\ Moves(s)
      BY <2>2, StepIs
    <3> QED BY <3>1, MovesKeep, MovesOrdered DEF Others, OrderInv
  <2> QED BY <2>1, <2>2
<1> QED BY <1>1, InitTx, PTL DEF Spec

\* Of some rows one is the last in an order.
LEMMA LastRow ==
  ASSUME NEW N \in Nat, NEW rank \in [Rows -> 0 .. N], NEW M \in SUBSET Rows, M # {}
  PROVE  \E x \in M : \A y \in M : ~(rank[x] < rank[y])
<1> DEFINE T == {N - rank[x] : x \in M}
<1>1. \A x \in M : rank[x] \in Nat /\ N - rank[x] \in Nat
  OBVIOUS
<1>2. T \in SUBSET Nat /\ T # {}
  BY <1>1
<1>3. \E u \in T : \A v \in T : ~(<<v, u>> \in OpToRel(<, Nat))
  BY <1>2, NatLessThanWellFounded, WFMin
<1>4. PICK x \in M : \A v \in T : ~(<<v, N - rank[x]>> \in OpToRel(<, Nat))
  BY <1>3
<1>5. ASSUME NEW y \in M PROVE ~(rank[x] < rank[y])
  <2>1. N - rank[y] \in Nat /\ N - rank[x] \in Nat /\ N - rank[y] \in T
    BY <1>1
  <2>2. ~(N - rank[y] < N - rank[x])
    BY <1>4, <2>1 DEF OpToRel
  <2> HIDE DEF T
  <2> QED BY <1>1, <2>2
<1> QED BY <1>5

\* Transactions that come to their rows in one order do not wait in a circle.
LEMMA NoCircle ==
  ASSUME TxInv, NEW N \in Nat, NEW rank \in [Rows -> 0 .. N], NEW C \in SUBSET Session, Cycle(C),
         \A s \in C : \A j \in tx[s].held, k \in tx[s].todo : rank[j] < rank[k]
  PROVE  FALSE
<1> DEFINE M == {k \in Rows : \E s, u \in C : k \in NextRows(s) /\ k \in tx[u].held}
<1>1. \A s \in C : \E k \in M : \E u \in C : k \in NextRows(s) /\ k \in tx[u].held
  BY DEF Cycle, TxInv, TxOk
<1>2. PICK x \in M : \A y \in M : ~(rank[x] < rank[y])
  <2>1. M \in SUBSET Rows
    OBVIOUS
  <2>2. PICK s \in C : TRUE
    BY DEF Cycle
  <2>3. M # {}
    BY <1>1, <2>2
  <2> HIDE DEF M
  <2> QED BY <2>1, <2>3, LastRow
<1>3. PICK u \in C : x \in tx[u].held
  OBVIOUS
<1>4. PICK y \in M : y \in NextRows(u)
  BY <1>1
<1>5. y \in tx[u].todo
  BY <1>4 DEF NextRows
<1> QED BY <1>2, <1>3, <1>5

\* Two orders: the lines before the passports, as operations come to them, and
\* the passports before the lines, as undos do; the nodes after both.
LinesFirst ==
  [k \in Rows |-> CASE k \in LineKeys -> k[2] [] k \in PipeKeys -> MaxLine + k[2]
                    [] OTHER -> MaxLine + MaxLine + k[2]]
PipesFirst ==
  [k \in Rows |-> CASE k \in PipeKeys -> k[2] [] k \in LineKeys -> MaxLine + k[2]
                    [] OTHER -> MaxLine + MaxLine + k[2]]
Top == MaxLine + MaxLine + MaxNode

LEMMA Ranks ==
  /\ Top \in Nat /\ LinesFirst \in [Rows -> 0 .. Top] /\ PipesFirst \in [Rows -> 0 .. Top]
  /\ \A j, k \in Rows : j[1] = k[1] /\ j[2] < k[2] => LinesFirst[j] < LinesFirst[k] /\ PipesFirst[j] < PipesFirst[k]
  /\ \A j \in LineKeys, k \in PipeKeys : LinesFirst[j] < LinesFirst[k] /\ PipesFirst[k] < PipesFirst[j]
  /\ \A j \in LineKeys \cup PipeKeys, k \in NodeKeys : LinesFirst[j] < LinesFirst[k] /\ PipesFirst[j] < PipesFirst[k]
<1>1. MaxLine \in Nat /\ MaxNode \in Nat /\ Top \in Nat
  BY BoundsAssumption DEF Top
<1>2. \A k \in NodeKeys : /\ LinesFirst[k] = MaxLine + MaxLine + k[2] /\ PipesFirst[k] = MaxLine + MaxLine + k[2]
                          /\ k[2] \in 1 .. MaxNode /\ k[1] = "nodes"
  BY Keys DEF LinesFirst, PipesFirst, NodeId, Rows
<1>3. \A k \in LineKeys : /\ LinesFirst[k] = k[2] /\ PipesFirst[k] = MaxLine + k[2]
                          /\ k[2] \in 1 .. MaxLine /\ k[1] = "linesobj"
  BY Keys DEF LinesFirst, PipesFirst, LineId, Rows
<1>4. \A k \in PipeKeys : /\ LinesFirst[k] = MaxLine + k[2] /\ PipesFirst[k] = k[2]
                          /\ k[2] \in 1 .. MaxLine /\ k[1] = "heatpipesections"
  BY Keys DEF LinesFirst, PipesFirst, LineId, Rows
<1>5. \A k \in Rows : LinesFirst[k] \in 0 .. Top /\ PipesFirst[k] \in 0 .. Top
  BY <1>1, <1>2, <1>3, <1>4 DEF Rows, Top
<1>6. LinesFirst \in [Rows -> 0 .. Top] /\ PipesFirst \in [Rows -> 0 .. Top]
  BY <1>5 DEF LinesFirst, PipesFirst
<1>7. \A j, k \in Rows : j[1] = k[1] /\ j[2] < k[2] => LinesFirst[j] < LinesFirst[k] /\ PipesFirst[j] < PipesFirst[k]
  BY <1>1, <1>2, <1>3, <1>4 DEF Rows
<1>8. \A j \in LineKeys, k \in PipeKeys : LinesFirst[j] < LinesFirst[k] /\ PipesFirst[k] < PipesFirst[j]
  BY <1>1, <1>3, <1>4
<1>9. \A j \in LineKeys \cup PipeKeys, k \in NodeKeys : LinesFirst[j] < LinesFirst[k] /\ PipesFirst[j] < PipesFirst[k]
  BY <1>1, <1>2, <1>3, <1>4
<1> QED BY <1>1, <1>6, <1>7, <1>8, <1>9

\* A transaction that waits has the one order or the other, or both.
LEMMA RowsRanked ==
  ASSUME Ops \subseteq LineOps, TxInv, OrderInv, NEW s \in Session, NEW j \in tx[s].held, NEW k \in tx[s].todo
  PROVE  /\ LinesFirst[j] < LinesFirst[k] \/ (tx[s].at = "undo_lines" /\ tx[s].held \cap PipeKeys # {})
         /\ PipesFirst[j] < PipesFirst[k] \/ tx[s].at = "passports"
<1>1. j \in Rows /\ k \in Rows /\ Ordered(tx[s]) /\ TxOk(tx[s])
  BY DEF TxInv, TxOk, OrderInv
<1>2. tx[s].at \in {"lock", "passports", "undo_pipes", "undo_lines", "undo_nodes"}
  BY <1>1, IdleIs DEF TxOk, Is
<1>3. CASE j[1] = k[1]
  BY <1>1, <1>3, Ranks DEF Ordered
<1>4. CASE j[1] # k[1]
  <2>1. tx[s].at \notin {"lock", "undo_pipes"}
    <3>1. CASE tx[s].at = "lock"
      <4>1. {j, k} \subseteq Wanted(tx[s].req) /\ tx[s].req \in Request
        BY <1>1, <3>1 DEF Ordered, TxOk
      <4> QED BY <1>4, <4>1, FirstRows, Keys
    <3>2. CASE tx[s].at = "undo_pipes"
      BY <1>1, <1>4, <3>2, Keys DEF Ordered
    <3> QED BY <3>1, <3>2
  <2>2. CASE tx[s].at = "passports"
    <3>1. j \in LineKeys /\ k = Pipe(tx[s].req.line)
      BY <1>1, <2>2 DEF Ordered
    <3>2. k \in PipeKeys
      <4>1. tx[s].req \in Request /\ tx[s].req.op \in Redrawing
        BY <1>1, <2>2 DEF TxOk
      <4> QED BY <3>1, <4>1, FirstRows, Keys
    <3> QED BY <2>2, <3>1, <3>2, Ranks
  <2>3. CASE tx[s].at = "undo_lines"
    <3>1. k \in LineKeys /\ j \in PipeKeys
      BY <1>1, <1>4, <2>3, Keys DEF Ordered
    <3> QED BY <2>3, <3>1, Ranks
  <2>4. CASE tx[s].at = "undo_nodes"
    <3>1. k \in NodeKeys
      BY <1>1, <2>4 DEF Ordered
    <3>2. j \in LineKeys \cup PipeKeys
      BY <1>1, <1>4, <3>1, Keys DEF Rows
    <3> QED BY <3>1, <3>2, Ranks
  <2> QED BY <1>2, <2>1, <2>2, <2>3, <2>4
<1> QED BY <1>3, <1>4

\* Whatever lines are split, reversed, redrawn, deleted or made and undone by any
\* sessions at once, transactions that wait for each other in a circle are never
\* operations alone, and never undos alone (CirclesNeedUndos): an operation comes
\* to its line before the passport, an undo to the passports before the lines,
\* and each of the two orders alone has no circles.
THEOREM CirclesHaveUndos == ASSUME Ops \subseteq LineOps PROVE Spec => []CirclesNeedUndos
<1>1. ASSUME TxInv, OrderInv, NEW C \in SUBSET Session, Cycle(C)
      PROVE  /\ \E s \in C : tx[s].at = "undo_lines" /\ tx[s].held \cap PipeKeys # {}
             /\ \E u \in C : tx[u].at = "passports"
  <2>1. CASE \A s \in C : ~(tx[s].at = "undo_lines" /\ tx[s].held \cap PipeKeys # {})
    <3>1. \A s \in C : \A j \in tx[s].held, k \in tx[s].todo : LinesFirst[j] < LinesFirst[k]
      BY <1>1, <2>1, RowsRanked
    <3> QED BY <1>1, <3>1, NoCircle, Ranks
  <2>2. CASE \A u \in C : tx[u].at # "passports"
    <3>1. \A s \in C : \A j \in tx[s].held, k \in tx[s].todo : PipesFirst[j] < PipesFirst[k]
      BY <1>1, <2>2, RowsRanked
    <3> QED BY <1>1, <3>1, NoCircle, Ranks
  <2> QED BY <2>1, <2>2
<1>2. TxInv /\ OrderInv => CirclesNeedUndos
  BY <1>1 DEF CirclesNeedUndos
<1> QED BY <1>2, TxAlways, PTL

(***************************************************************************)
(* What the operations do to the rows.                                      *)
(***************************************************************************)
\* A network of nodes, lines and passports.
Network(d) == \A k \in Key : RowOk(k, d[k]) /\ (k \notin Rows => d[k] = NULL)

\* Of the rows of C each is there afterwards; no other row changes.
Outcome(d, e, C) ==
  /\ C \subseteq Rows
  /\ \A k \in Key : IF k \in C THEN e[k] # NULL /\ RowOk(k, e[k]) ELSE e[k] = d[k]

LEMMA RowTables ==
  ASSUME NEW d, Network(d)
  PROVE  /\ \A n \in NodeId : d[Node(n)] # NULL => d[Node(n)] \in NodeRow
         /\ \A l \in LineId : d[Line(l)] # NULL => d[Line(l)] \in LineRow
         /\ \A l \in LineId : d[Pipe(l)] # NULL => d[Pipe(l)] \in PipeRow
<1>1. \A k \in EquipKeys \cup TypeKeys \cup FlagKeys :
        k[1] \in {"pressregulators", "dampers", "realconsumers", "heatsources", "setpressnodes"}
  BY DEF EquipKeys, TypeKeys, FlagKeys, EquipTable, TypeTable, FlagTable
<1>2. \A n \in NodeId : d[Node(n)] # NULL => d[Node(n)] \in NodeRow
  BY <1>1, Keys DEF Network, RowOk
<1>3. \A l \in LineId : d[Line(l)] # NULL => d[Line(l)] \in LineRow
  BY <1>1, Keys DEF Network, RowOk
<1>4. \A l \in LineId : d[Pipe(l)] # NULL => d[Pipe(l)] \in PipeRow
  BY <1>1, Keys DEF Network, RowOk
<1> QED BY <1>2, <1>3, <1>4

LEMMA GoodRows ==
  /\ \A l \in LineId, r \in LineRow : r # NULL /\ RowOk(Line(l), r)
  /\ \A l \in LineId, r \in PipeRow : r # NULL /\ RowOk(Pipe(l), r)
  /\ \A n \in NodeId, r \in NodeRow : r # NULL /\ RowOk(Node(n), r)
BY NullAssumption, Keys DEF RowOk

LEMMA OneRow ==
  ASSUME NEW d, NEW e, NEW l \in LineId, NEW r \in LineRow,
         \A k \in Key : e[k] = IF k = Line(l) THEN r ELSE d[k]
  PROVE  Outcome(d, e, {Line(l)})
<1>1. Line(l) \in Rows /\ Line(l) \in Key
  BY Keys DEF Rows
<1>2. r # NULL /\ RowOk(Line(l), r)
  BY GoodRows
<1> QED BY <1>1, <1>2 DEF Outcome

LEMMA OutcomeNetwork ==
  ASSUME NEW d, Network(d), NEW e, NEW C, Outcome(d, e, C)
  PROVE  Network(e)
BY DEF Network, Outcome

LEMMA Outcomes ==
  ASSUME NEW d, NEW e, NEW f, NEW C, NEW D, Outcome(d, e, C), Outcome(e, f, D)
  PROVE  Outcome(d, f, C \cup D)
BY DEF Outcome

\* Passports that are there and get another value.
LEMMA PipesOutcome ==
  ASSUME NEW d, Network(d), NEW e, NEW L \in SUBSET LineId,
         \A k \in Key : k \notin PipeKeysOf(d, L) => e[k] = d[k],
         \A l \in L : d[Pipe(l)] # NULL => e[Pipe(l)] \in PipeRow
  PROVE  Outcome(d, e, PipeKeysOf(d, L))
<1>1. PipeKeysOf(d, L) \subseteq Rows
  BY Keys DEF PipeKeysOf, Rows
<1>2. \A k \in PipeKeysOf(d, L) : e[k] # NULL /\ RowOk(k, e[k])
  BY GoodRows DEF PipeKeysOf
<1> QED BY <1>1, <1>2 DEF Outcome

LEMMA MeasuredOutcome ==
  ASSUME NEW d, Network(d), NEW L \in SUBSET LineId, \A l \in L : d[Line(l)] # NULL
  PROVE  Outcome(d, Measured(d, L), PipeKeysOf(d, L))
<1> DEFINE e == Measured(d, L)
<1>1. \A k \in Key : e[k] = IF k \in PipeKeysOf(d, L) THEN [d[k] EXCEPT !.len = Length(d[Line(k[2])].shape)] ELSE d[k]
  BY DEF Measured, Update
<1> HIDE DEF e
<1>2. ASSUME NEW l \in L, d[Pipe(l)] # NULL PROVE e[Pipe(l)] \in PipeRow
  <2>1. Pipe(l) \in PipeKeysOf(d, L) /\ Pipe(l) \in Key /\ Pipe(l)[2] = l
    BY <1>2, Keys DEF PipeKeysOf, Pipe
  <2>2. e[Pipe(l)] = [d[Pipe(l)] EXCEPT !.len = Length(d[Line(l)].shape)]
    BY <1>1, <2>1
  <2>3. d[Pipe(l)] \in PipeRow /\ d[Line(l)] \in LineRow
    BY <1>2, RowTables
  <2>4. Length(d[Line(l)].shape) \in Measure
    BY <2>3 DEF LineRow, Shape, Measure, Length
  <2> QED BY <2>2, <2>3, <2>4 DEF PipeRow
<1> QED BY <1>1, <1>2, PipesOutcome DEF e

LEMMA RemovedOutcome ==
  ASSUME NEW d, Network(d), NEW l \in LineId, d[Line(l)] # NULL, NEW now \in Stamp
  PROVE  Outcome(d, RemoveLines(d, {l}, now), {Line(l)} \cup PipeKeysOf(d, {l}))
<1> DEFINE row == [d[Line(l)] EXCEPT !.removed = TRUE, !.stamp = now]
           e   == Update(d, {Line(l)}, LAMBDA k : [d[k] EXCEPT !.removed = TRUE, !.stamp = now])
           f   == RemoveLines(d, {l}, now)
<1>1. LineKeysOf({l}) = {Line(l)}
  BY DEF LineKeysOf
<1>2. \A k \in Key : e[k] = IF k = Line(l) THEN row ELSE d[k]
  BY DEF Update
<1>3. \A k \in Key : f[k] = IF k \in PipeKeysOf(d, {l}) THEN [d[k] EXCEPT !.removed = TRUE] ELSE e[k]
  BY <1>1 DEF RemoveLines, Update
<1> HIDE DEF e, f
<1>4. row \in LineRow
  <2>1. d[Line(l)] \in LineRow
    BY RowTables
  <2> QED BY <2>1 DEF LineRow
<1> HIDE DEF row
<1>5. Outcome(d, e, {Line(l)})
  BY <1>2, <1>4, OneRow
<1>6. e[Pipe(l)] = d[Pipe(l)] /\ Pipe(l) \in Key /\ Pipe(l) # Line(l)
  BY <1>2, Keys DEF Pipe, Line
<1>7. PipeKeysOf(e, {l}) = PipeKeysOf(d, {l})
  BY <1>6 DEF PipeKeysOf
<1>8. Outcome(e, f, PipeKeysOf(e, {l}))
  <2>1. d[Pipe(l)] # NULL => f[Pipe(l)] \in PipeRow
    <3>1. d[Pipe(l)] # NULL => f[Pipe(l)] = [d[Pipe(l)] EXCEPT !.removed = TRUE]
      BY <1>3, <1>6 DEF PipeKeysOf
    <3> QED BY <3>1, RowTables DEF PipeRow
  <2>2. Network(e)
    BY <1>5, OutcomeNetwork
  <2> QED BY <1>3, <1>6, <1>7, <2>1, <2>2, PipesOutcome
<1> QED BY <1>5, <1>7, <1>8, Outcomes DEF f

LEMMA TurnedOutcome ==
  ASSUME NEW d, Network(d), NEW l \in LineId, d[Line(l)] # NULL, NEW now \in Stamp
  PROVE  Outcome(d, Turned(d, {l}, now), {Line(l)})
<1> DEFINE e   == Turned(d, {l}, now)
           old == d[Line(l)]
           row == [old EXCEPT !.n1 = old.n2, !.n2 = old.n1, !.sign = SwapSign[@],
                       !.shape = [start |-> @.finish, via |-> @.via, finish |-> @.start],
                       !.stamp = now]
<1>1. LineKeysOf({l}) = {Line(l)}
  BY DEF LineKeysOf
<1>2. \A k \in Key : e[k] = IF k = Line(l) THEN row ELSE d[k]
  BY <1>1 DEF Turned, Update
<1>3. old \in LineRow
  BY RowTables
<1>4. row \in LineRow
  <2>1. SwapSign[old.sign] \in Sign
    BY <1>3 DEF LineRow, Sign, SwapSign
  <2>2. [start |-> old.shape.finish, via |-> old.shape.via, finish |-> old.shape.start] \in Shape
    BY <1>3 DEF LineRow, Shape
  <2> QED BY <1>3, <2>1, <2>2 DEF LineRow
<1> HIDE DEF e, row
<1> QED BY <1>2, <1>4, OneRow DEF e

LEMMA SnappedOutcome ==
  ASSUME NEW d, Network(d), NEW l \in LineId, d[Line(l)] # NULL, NEW n \in NodeId, d[Node(n)] # NULL,
         NEW now \in Stamp
  PROVE  Outcome(d, SnapEnds(d, {l}, n, now), {Line(l)})
<1> DEFINE e   == SnapEnds(d, {l}, n, now)
           row == [d[Line(l)] EXCEPT !.shape = Snapped(d, d[Line(l)], n), !.stamp = now]
<1>1. LineKeysOf({l}) = {Line(l)}
  BY DEF LineKeysOf
<1>2. \A k \in Key : e[k] = IF k = Line(l) THEN row ELSE d[k]
  BY <1>1 DEF SnapEnds, Update
<1>3. d[Line(l)] \in LineRow /\ d[Node(n)] \in NodeRow
  BY RowTables
<1>4. Snapped(d, d[Line(l)], n) \in Shape
  BY <1>3 DEF Snapped, LineRow, NodeRow, Shape
<1>5. row \in LineRow
  BY <1>3, <1>4 DEF LineRow
<1> HIDE DEF e, row
<1> QED BY <1>2, <1>5, OneRow DEF e

LEMMA ReshapedOutcome ==
  ASSUME NEW d, Network(d), NEW l \in LineId, d[Line(l)] # NULL, NEW now \in Stamp,
         \A n \in Ends(d, l) : d[Node(n)] # NULL
  PROVE  Outcome(d, Reshaped(d, l, 1, now), {Line(l)} \cup PipeKeysOf(d, {l}))
<1> DEFINE d1 == Update(d, {Line(l)}, LAMBDA k : [d[k] EXCEPT !.shape.via = 1])
           n1 == d[Line(l)].n1
           n2 == d[Line(l)].n2
           d2 == SnapEnds(d1, {l}, n1, now)
           d3 == SnapEnds(d2, {l}, n2, now)
<1>1. d[Line(l)] \in LineRow /\ n1 \in NodeId /\ n2 \in NodeId /\ d[Node(n1)] # NULL /\ d[Node(n2)] # NULL
  BY RowTables DEF LineRow, Ends
<1>2. Outcome(d, d1, {Line(l)})
  <2>1. \A k \in Key : d1[k] = IF k = Line(l) THEN [d[Line(l)] EXCEPT !.shape.via = 1] ELSE d[k]
    BY DEF Update
  <2>2. [d[Line(l)].shape EXCEPT !.via = 1] \in Shape
    BY <1>1 DEF LineRow, Shape
  <2>3. [d[Line(l)] EXCEPT !.shape.via = 1] \in LineRow
    BY <1>1, <2>2 DEF LineRow
  <2> HIDE DEF d1
  <2> QED BY <2>1, <2>3, OneRow
<1> HIDE DEF d1, n1, n2
<1>3. /\ \A n \in NodeId : Node(n) \in Key /\ Node(n) # Line(l)
      /\ Line(l) \in Key /\ Pipe(l) \in Key /\ Pipe(l) # Line(l)
  BY Keys DEF Node, Line, Pipe
<1>4. Network(d1) /\ d1[Line(l)] # NULL /\ d1[Node(n1)] # NULL /\ d1[Node(n2)] # NULL
  BY <1>1, <1>2, <1>3, OutcomeNetwork DEF Outcome
<1>5. Outcome(d1, d2, {Line(l)})
  BY <1>1, <1>4, SnappedOutcome
<1> HIDE DEF d2
<1>6. Network(d2) /\ d2[Line(l)] # NULL /\ d2[Node(n2)] # NULL
  BY <1>1, <1>3, <1>4, <1>5, OutcomeNetwork DEF Outcome
<1>7. Outcome(d2, d3, {Line(l)})
  BY <1>1, <1>6, SnappedOutcome
<1> HIDE DEF d3
<1>8. Outcome(d, d3, {Line(l)})
  BY <1>2, <1>5, <1>7, Outcomes
<1>9. Network(d3) /\ d3[Line(l)] # NULL /\ d3[Pipe(l)] = d[Pipe(l)]
  BY <1>3, <1>8, OutcomeNetwork DEF Outcome
<1>10. Outcome(d3, Measured(d3, {l}), PipeKeysOf(d3, {l})) /\ PipeKeysOf(d3, {l}) = PipeKeysOf(d, {l})
  BY <1>9, MeasuredOutcome DEF PipeKeysOf
<1>11. Reshaped(d, l, 1, now) = Measured(d3, {l})
  BY DEF Reshaped, d1, d2, d3, n1, n2
<1> QED BY <1>8, <1>10, <1>11, Outcomes

LEMMA CutOutcome ==
  ASSUME NEW d, Network(d), NEW l \in LineId, d[Line(l)] # NULL, d[Pipe(l)] # NULL, NEW n \in NodeId,
         NEW m \in LineId, m # l, NEW p \in Pos, NEW via \in {0, 1}, NEW now \in Stamp
  PROVE  Outcome(d, Halves(d, l, n, m, p, via, via, now), {Node(n), Line(m), Line(l), Pipe(m), Pipe(l)})
<1> DEFINE old  == d[Line(l)]
           node == [pos |-> p, removed |-> FALSE, stamp |-> now]
           half == [old EXCEPT !.n1 = n, !.stamp = now, !.shape = [start |-> p, via |-> via, finish |-> @.finish]]
           rest == [old EXCEPT !.n2 = n, !.stamp = now, !.shape = [start |-> @.start, via |-> via, finish |-> p]]
           d1 == Update(d, {Node(n)}, LAMBDA k : node)
           d2 == Update(d1, {Line(m)}, LAMBDA k : half)
           d3 == Update(d2, {Line(l)}, LAMBDA k : rest)
           d4 == Update(d3, {Pipe(m)}, LAMBDA k : d3[Pipe(l)])
           C  == {Node(n), Line(m), Line(l), Pipe(m)}
<1>1. old \in LineRow /\ d[Pipe(l)] \in PipeRow
  BY RowTables
<1>2. node \in NodeRow /\ half \in LineRow /\ rest \in LineRow
  <2>1. [start |-> p, via |-> via, finish |-> old.shape.finish] \in Shape
        /\ [start |-> old.shape.start, via |-> via, finish |-> p] \in Shape
    BY <1>1 DEF LineRow, Shape
  <2> QED BY <1>1, <2>1 DEF LineRow, NodeRow
<1> HIDE DEF node, half, rest
<1>3. /\ Node(n) \in Rows /\ Line(m) \in Rows /\ Line(l) \in Rows /\ Pipe(m) \in Rows
      /\ Node(n) \in Key /\ Line(m) \in Key /\ Line(l) \in Key /\ Pipe(l) \in Key /\ Pipe(m) \in Key
  BY Keys DEF Rows
<1>4. /\ Node(n) # Line(m) /\ Node(n) # Line(l) /\ Line(m) # Line(l) /\ Pipe(l) # Pipe(m)
      /\ \A i \in {l, m} : Pipe(i) # Line(l) /\ Pipe(i) # Line(m) /\ Pipe(i) # Node(n)
  BY DEF Node, Line, Pipe
<1>5. \A k \in Key : d3[k] = CASE k = Line(l) -> rest [] k = Line(m) -> half [] k = Node(n) -> node [] OTHER -> d[k]
  BY <1>3, <1>4 DEF Update
<1>6. \A k \in Key : d4[k] = IF k = Pipe(m) THEN d3[Pipe(l)] ELSE d3[k]
  BY DEF Update
<1>7. Halves(d, l, n, m, p, via, via, now) = Measured(d4, {l, m})
  BY DEF Halves, d1, d2, d3, d4, node, half, rest
<1> HIDE DEF d1, d2, d3, d4, old
<1>8. d3[Pipe(l)] = d[Pipe(l)]
  BY <1>3, <1>4, <1>5
<1>9. /\ rest # NULL /\ RowOk(Line(l), rest) /\ half # NULL /\ RowOk(Line(m), half)
      /\ node # NULL /\ RowOk(Node(n), node) /\ RowOk(Pipe(m), d[Pipe(l)])
  BY <1>1, <1>2, GoodRows
<1>10. \A k \in Key : d4[k] = CASE k = Line(l) -> rest [] k = Line(m) -> half [] k = Node(n) -> node
                               [] k = Pipe(m) -> d[Pipe(l)] [] OTHER -> d[k]
  BY <1>4, <1>5, <1>6, <1>8
<1>11. Outcome(d, d4, C)
  BY <1>3, <1>4, <1>9, <1>10 DEF Outcome
<1> HIDE DEF C
<1>12. d4[Line(l)] = rest /\ d4[Line(m)] = half /\ d4[Pipe(l)] # NULL /\ d4[Pipe(m)] # NULL
  BY <1>3, <1>4, <1>10
<1>13. Outcome(d4, Measured(d4, {l, m}), PipeKeysOf(d4, {l, m}))
  <2>1. Network(d4) /\ \A i \in {l, m} : d4[Line(i)] # NULL
    BY <1>9, <1>11, <1>12, OutcomeNetwork
  <2> QED BY <2>1, MeasuredOutcome
<1>14. PipeKeysOf(d4, {l, m}) = {Pipe(l), Pipe(m)}
  BY <1>12 DEF PipeKeysOf
<1>15. C \cup {Pipe(l), Pipe(m)} = {Node(n), Line(m), Line(l), Pipe(m), Pipe(l)}
  BY DEF C
<1> QED BY <1>7, <1>11, <1>13, <1>14, <1>15, Outcomes

LEMMA DrawnOutcome ==
  ASSUME NEW d, Network(d), NEW l \in LineId, NEW x \in NodeId, NEW y \in NodeId,
         d[Node(x)] # NULL, d[Node(y)] # NULL, NEW now \in Stamp
  PROVE  Outcome(d, NewLine(d, l, x, y, now), {Line(l), Pipe(l)})
<1> DEFINE shape == [start |-> d[Node(x)].pos, via |-> 0, finish |-> d[Node(y)].pos]
           row  == [n1 |-> x, n2 |-> y, sign |-> 0, shape |-> shape, removed |-> FALSE, stamp |-> now]
           pipe == [len |-> Length(shape), removed |-> FALSE]
           e    == NewLine(d, l, x, y, now)
<1>1. d[Node(x)] \in NodeRow /\ d[Node(y)] \in NodeRow
  BY RowTables
<1>2. row \in LineRow /\ pipe \in PipeRow
  <2>1. shape \in Shape
    BY <1>1 DEF NodeRow, Shape
  <2>2. Length(shape) \in Measure
    BY <2>1 DEF Shape, Measure, Length
  <2> QED BY <2>1, <2>2 DEF LineRow, Sign, PipeRow
<1>3. \A k \in Key : e[k] = IF k = Pipe(l) THEN pipe ELSE IF k = Line(l) THEN row ELSE d[k]
  BY DEF NewLine, Update
<1>4. Pipe(l) # Line(l) /\ Pipe(l) \in Rows /\ Line(l) \in Rows
  BY Keys DEF Pipe, Line, Rows
<1> HIDE DEF e, row, pipe
<1>5. row # NULL /\ RowOk(Line(l), row) /\ pipe # NULL /\ RowOk(Pipe(l), pipe)
  BY <1>2, GoodRows
<1> QED BY <1>3, <1>4, <1>5 DEF Outcome, e

(***************************************************************************)
(* What a transaction writes is its own.                                    *)
(***************************************************************************)
Ids(t) == {Node(NewNodeId(t)), Line(NewLineId(t)), Pipe(NewLineId(t))}

\* The times, and with them the ids, that no transaction has committed.
Pending(t) == clock <= t \/ \E s \in Session : tx[s].at # "idle" /\ tx[s].now = t

\* What a transaction may write: the rows it holds and those it makes.
Own(t) == t.held \cup Ids(t.now)

\* The rows that its journal entry names.
Entered(e) == IF e = NULL THEN {} ELSE DOMAIN e.before

\* A row with the id of a transaction that has not committed is not there, and
\* nobody holds it or has it in the journal.
IdsFree ==
  \A t \in 1 .. MaxClock : Pending(t) =>
    \A k \in Ids(t) :
      /\ db[k] = NULL
      /\ \A s \in Session : k \notin tx[s].held \cup tx[s].todo /\ k \notin Entered(last[s])

\* The rows of transactions are their own.
Apart ==
  \A s \in Session : \A u \in Session \ {s} :
    /\ tx[s].held \cap tx[u].held = {}
    /\ tx[s].at # "idle" /\ tx[u].at # "idle" => tx[s].now # tx[u].now

Started == \A s \in Session : tx[s].at # "idle" => tx[s].now < clock

\* No passport is without its line.
Together(S) == \A l \in LineId : Pipe(l) \in S => Line(l) \in S

\* The rows of a journal entry were there after the operation.
EntryOk(e) ==
  e # NULL =>
    /\ DOMAIN e.after = DOMAIN e.before /\ DOMAIN e.before \subseteq Rows /\ Together(DOMAIN e.before)
    /\ \A k \in DOMAIN e.before : RowOk(k, e.before[k]) /\ e.after[k] # NULL

\* An undo comes to hold the rows of its entry that are there.
Reached(s, table) ==
  \A k \in DOMAIN last[s].after \cap table : k \in tx[s].held \cup tx[s].todo \/ db[k] = NULL

LockedOk(s) ==
  LET t == tx[s] IN
  /\ t.at = "lock" => t.held \cup t.todo = Wanted(t.req)
  /\ t.at # "idle" /\ t.req.op = "UNDO" => last[s] # NULL
  /\ t.at \in {"undo_pipes", "undo_lines", "undo_nodes"} => Reached(s, PipeKeys)
  /\ t.at \in {"undo_lines", "undo_nodes"} => Reached(s, LineKeys)
  /\ t.at = "undo_nodes" => Reached(s, NodeKeys)

Writing(t) == t.at \in {"passports", "written"}

\* A passport is written by the transaction that has its line.
WritesOk(s) ==
  LET t == tx[s] IN
  Writing(t) =>
    /\ \A k \in DOMAIN t.new : k \in Ids(t.now) \/ (k \in t.held /\ db[k] # NULL)
    /\ \A k \in DOMAIN t.new : k \in Rows /\ RowOk(k, t.new[k])
    /\ \A l \in LineId : Pipe(l) \in DOMAIN t.new => Line(l) \in Own(t)

\* The images are of the rows as they still are, of the passports that are yet to
\* be locked too.
ImagesOk(s) ==
  LET t == tx[s] IN
  Writing(t) /\ t.req.op # "UNDO" =>
    /\ DOMAIN t.image \subseteq Own(t) \cup t.todo /\ DOMAIN t.image \subseteq Rows
    /\ Together(DOMAIN t.image)
    /\ DOMAIN t.new \subseteq DOMAIN t.image
    /\ \A k \in DOMAIN t.image :
         t.image[k] = db[k] /\ (IF k \in DOMAIN t.new THEN t.new[k] # NULL ELSE db[k] # NULL)

\* The passport an operation waits for is that of its line, which it has.
DrawnOk(s) ==
  LET t == tx[s] IN
  t.at = "passports" =>
    /\ t.req.line \in LineId /\ Line(t.req.line) \in t.held \cap DOMAIN t.image
    /\ t.todo \subseteq {Pipe(t.req.line)} \cap DOMAIN t.image

WrittenOk(s) == WritesOk(s) /\ ImagesOk(s) /\ DrawnOk(s)

FreshInv ==
  /\ Network(db) /\ IdsFree /\ Apart /\ Started
  /\ \A s \in Session : EntryOk(last[s]) /\ LockedOk(s) /\ WrittenOk(s)

LEMMA IdsApart ==
  ASSUME NEW t \in 1 .. MaxClock, NEW u \in 1 .. MaxClock, t # u
  PROVE  Ids(t) \cap Ids(u) = {}
<1>1. NewNodeId(t) # NewNodeId(u) /\ NewLineId(t) # NewLineId(u)
  BY BoundsAssumption DEF NewNodeId, NewLineId
<1>2. /\ Node(NewNodeId(t)) # Node(NewNodeId(u)) /\ Line(NewLineId(t)) # Line(NewLineId(u))
      /\ Pipe(NewLineId(t)) # Pipe(NewLineId(u))
  BY <1>1 DEF Node, Line, Pipe
<1>3. \A i, j : Node(i) # Line(j) /\ Node(i) # Pipe(j) /\ Line(i) # Pipe(j)
  BY DEF Node, Line, Pipe
<1> QED BY <1>2, <1>3 DEF Ids

LEMMA IdsAreRows ==
  ASSUME NEW t \in 1 .. MaxClock
  PROVE  /\ NewNodeId(t) \in NodeId /\ NewLineId(t) \in LineId
         /\ Ids(t) \subseteq Rows /\ Rows \subseteq Key
         /\ \A k \in Ids(t) : InitialDb[k] = NULL
BY SequencesAssumption, Keys DEF Ids, Rows, Key

LEMMA OwnsApart ==
  ASSUME TxInv, IdsFree, Apart, NEW s \in Session, NEW u \in Session \ {s},
         tx[s].at # "idle", tx[u].at # "idle"
  PROVE  Own(tx[s]) \cap Own(tx[u]) = {}
<1>1. tx[s].now \in 1 .. MaxClock /\ tx[u].now \in 1 .. MaxClock /\ tx[s].now # tx[u].now
  BY DEF TxInv, TxOk, Apart
<1>2. Pending(tx[s].now) /\ Pending(tx[u].now)
  BY DEF Pending
<1>3. Ids(tx[s].now) \cap Ids(tx[u].now) = {}
  BY <1>1, IdsApart
<1>4. Ids(tx[s].now) \cap tx[u].held = {} /\ Ids(tx[u].now) \cap tx[s].held = {}
  BY <1>1, <1>2 DEF IdsFree
<1>5. tx[s].held \cap tx[u].held = {}
  BY DEF Apart
<1> QED BY <1>3, <1>4, <1>5 DEF Own

LEMMA NoIds ==
  ASSUME IdsFree, NEW K, \A k \in K : db[k] # NULL
  PROVE  \A t \in 1 .. MaxClock : Pending(t) => Ids(t) \cap K = {}
BY DEF IdsFree

-----------------------------------------------------------------------------
(* The steps that change no committed rows.                                *)

\* The other sessions notice nothing.
Quiet(s) == Others(s) /\ UNCHANGED <<db, last>>

LEMMA QuietOthers ==
  ASSUME FreshInv, NEW s \in Session, Quiet(s), NEW u \in Session \ {s}
  PROVE  LockedOk(u)' /\ WrittenOk(u)' /\ EntryOk(last[u])'
<1>1. tx'[u] = tx[u] /\ last'[u] = last[u] /\ db' = db
  BY DEF Quiet, Others
<1>2. LockedOk(u) /\ WritesOk(u) /\ ImagesOk(u) /\ DrawnOk(u) /\ EntryOk(last[u])
  BY DEF FreshInv, WrittenOk
<1>3. LockedOk(u)' /\ EntryOk(last[u])'
  BY <1>1, <1>2 DEF LockedOk, Reached, EntryOk
<1>4. WritesOk(u)' /\ ImagesOk(u)' /\ DrawnOk(u)'
  BY <1>1, <1>2 DEF WritesOk, ImagesOk, DrawnOk
<1> QED BY <1>3, <1>4 DEF WrittenOk

\* No transaction begins to be pending, and s keeps to rows of its own.
LEMMA ApartKept ==
  ASSUME TxInv, IdsFree, Apart, Started, NEW s \in Session, Quiet(s),
         clock <= clock', clock' \in Int,
         tx'[s].at # "idle" => \/ tx[s].at # "idle" /\ tx'[s].now = tx[s].now
                               \/ tx'[s].now = clock /\ clock < clock',
         \A k \in tx'[s].held \cup tx'[s].todo : k \in tx[s].held \cup tx[s].todo \/ db[k] # NULL,
         \A u \in Session \ {s} : tx'[s].held \cap tx[u].held = {}
  PROVE  IdsFree' /\ Apart' /\ Started'
<1>1. clock \in Int /\ \A u \in Session : tx[u].at # "idle" => tx[u].now \in Int /\ tx[u].now < clock
  BY DEF TxInv, TxOk, Started
<1>2. \A u \in Session \ {s} : tx'[u] = tx[u]
  BY DEF Quiet, Others
<1>3. \A t \in 1 .. MaxClock : Pending(t)' => Pending(t)
  <2> SUFFICES ASSUME NEW t \in 1 .. MaxClock, Pending(t)' PROVE Pending(t)
    OBVIOUS
  <2>1. CASE clock' <= t
    BY <1>1, <2>1 DEF Pending
  <2>2. ASSUME NEW u \in Session, tx'[u].at # "idle", tx'[u].now = t PROVE Pending(t)
    BY <1>1, <1>2, <2>2 DEF Pending
  <2> QED BY <2>1, <2>2 DEF Pending
<1>4. IdsFree'
  <2> SUFFICES ASSUME NEW t \in 1 .. MaxClock, Pending(t)', NEW k \in Ids(t)
               PROVE  /\ db'[k] = NULL
                      /\ \A u \in Session : k \notin tx'[u].held \cup tx'[u].todo /\ k \notin Entered(last'[u])
    BY DEF IdsFree, Ids
  <2>1. db[k] = NULL /\ \A u \in Session : k \notin tx[u].held \cup tx[u].todo /\ k \notin Entered(last[u])
    BY <1>3 DEF IdsFree
  <2> QED BY <1>2, <2>1 DEF Quiet
<1>5. Apart'
  BY <1>1, <1>2 DEF Apart
<1>6. Started'
  BY <1>1, <1>2 DEF Started
<1> QED BY <1>4, <1>5, <1>6

LEMMA QuietFresh ==
  ASSUME FreshInv, NEW s \in Session, Quiet(s), IdsFree', Apart', Started', LockedOk(s)', WrittenOk(s)'
  PROVE  FreshInv'
BY QuietOthers DEF FreshInv, Quiet, Network

LEMMA BeginFresh ==
  ASSUME Ops \subseteq LineOps, TxInv, FreshInv, NEW s \in Session, Others(s), Begins(s)
  PROVE  FreshInv'
<1>1. PICK r \in Request : /\ Existing(Wanted(r)) = Wanted(r)
                           /\ r.op = "UNDO" => last[s] # NULL
                           /\ Is(tx'[s], r, clock, "lock", Wanted(r), {}, <<>>, <<>>)
  BY DEF Begins
<1>2. clock \in Int /\ clock' = clock + 1 /\ UNCHANGED <<db, last>>
  BY DEF Begins, TxInv
<1>3. \A k \in Wanted(r) : db[k] # NULL
  BY <1>1 DEF Existing
<1>4. Quiet(s) /\ tx'[s].held = {} /\ tx'[s].todo = Wanted(r) /\ tx'[s].now = clock
  BY <1>1, <1>2 DEF Quiet, Is
<1>5. IdsFree' /\ Apart' /\ Started'
  BY <1>2, <1>3, <1>4, ApartKept DEF FreshInv
<1>6. LockedOk(s)' /\ WrittenOk(s)'
  BY <1>1, <1>2 DEF Is, LockedOk, WrittenOk, WritesOk, ImagesOk, DrawnOk, Writing
<1> QED BY <1>4, <1>5, <1>6, QuietFresh

LEMMA TakeFresh ==
  ASSUME TxInv, FreshInv, NEW s \in Session, Others(s), Takes(s)
  PROVE  FreshInv'
<1>1. PICK k \in tx[s].todo :
        /\ Free(s, k)
        /\ Is(tx'[s], tx[s].req, tx[s].now, tx[s].at, tx[s].todo \ {k}, tx[s].held \cup {k}, tx[s].image, tx[s].new)
  BY DEF Takes
<1>2. tx[s].at \in {"lock", "undo_pipes", "undo_lines", "undo_nodes"} /\ UNCHANGED <<db, clock, last>>
  BY DEF Takes
<1>3. Quiet(s) /\ clock \in Int
  BY <1>2 DEF Quiet, TxInv
<1>4. \A u \in Session \ {s} : tx'[s].held \cap tx[u].held = {}
  BY <1>1 DEF Is, Free, FreshInv, Apart
<1>5. tx'[s].held \cup tx'[s].todo = tx[s].held \cup tx[s].todo /\ tx'[s].at = tx[s].at
      /\ tx'[s].now = tx[s].now /\ tx'[s].req = tx[s].req
  BY <1>1 DEF Is
<1>6. IdsFree' /\ Apart' /\ Started'
  BY <1>2, <1>3, <1>4, <1>5, ApartKept DEF FreshInv
<1>7. LockedOk(s)' /\ WrittenOk(s)'
  BY <1>2, <1>5 DEF FreshInv, LockedOk, Reached, WrittenOk, WritesOk, ImagesOk, DrawnOk, Writing
<1> QED BY <1>3, <1>6, <1>7, QuietFresh

LEMMA AskFresh ==
  ASSUME TxInv, FreshInv, NEW s \in Session, Others(s),
         AsksTables(s)
  PROVE  FreshInv'
<1>1. PICK table \in {PipeKeys, LineKeys, NodeKeys} :
        /\ tx'[s].todo = Existing(DOMAIN last[s].after \cap table)
        /\ tx[s].at \in {"lock", "undo_pipes", "undo_lines"}
        /\ tx'[s].at \in {"undo_pipes", "undo_lines", "undo_nodes"}
        /\ tx'[s].at = "undo_pipes" => table = PipeKeys
        /\ tx'[s].at = "undo_lines" => table = LineKeys /\ tx[s].at = "undo_pipes"
        /\ tx'[s].at = "undo_nodes" => table = NodeKeys /\ tx[s].at = "undo_lines"
  BY DEF AsksTables, Asks, Is
<1>2. /\ tx'[s].held = tx[s].held /\ tx'[s].req = tx[s].req /\ tx'[s].now = tx[s].now
      /\ tx[s].todo = {} /\ tx[s].req.op = "UNDO" /\ UNCHANGED <<db, clock, last>>
  BY DEF AsksTables, Asks, Is
<1>3. Quiet(s) /\ clock \in Int
  BY <1>2 DEF Quiet, TxInv
<1>4. \A k \in tx'[s].todo : db[k] # NULL
  BY <1>1 DEF Existing
<1>5. IdsFree' /\ Apart' /\ Started'
  <2>1. \A u \in Session \ {s} : tx'[s].held \cap tx[u].held = {}
    BY <1>2 DEF FreshInv, Apart
  <2>2. tx[s].at # "idle" /\ tx'[s].now = tx[s].now /\ clock' = clock
    BY <1>1, <1>2
  <2>3. \A k \in tx'[s].held \cup tx'[s].todo : k \in tx[s].held \cup tx[s].todo \/ db[k] # NULL
    BY <1>2, <1>4
  <2> QED BY <1>3, <2>1, <2>2, <2>3, ApartKept DEF FreshInv
<1>6. \A k \in DOMAIN last[s].after \cap table : k \in tx'[s].todo \/ db[k] = NULL
  BY <1>1 DEF Existing
<1>7. LockedOk(s)' /\ WrittenOk(s)'
  BY <1>1, <1>2, <1>6 DEF FreshInv, LockedOk, Reached, WrittenOk, WritesOk, ImagesOk, DrawnOk, Writing
<1> QED BY <1>3, <1>5, <1>7, QuietFresh

LEMMA RollFresh ==
  ASSUME TxInv, FreshInv, NEW s \in Session, Others(s), RollsBack(s)
  PROVE  FreshInv'
<1>1. Quiet(s) /\ UNCHANGED clock /\ clock \in Int
  BY DEF RollsBack, Quiet, TxInv
<1>2. tx'[s].at = "idle" /\ tx'[s].held = {} /\ tx'[s].todo = {}
  BY IdleIs DEF RollsBack, Is
<1>3. IdsFree' /\ Apart' /\ Started'
  BY <1>1, <1>2, ApartKept DEF FreshInv
<1>4. LockedOk(s)' /\ WrittenOk(s)'
  BY <1>2 DEF LockedOk, WrittenOk, WritesOk, ImagesOk, DrawnOk, Writing
<1> QED BY <1>1, <1>3, <1>4, QuietFresh

-----------------------------------------------------------------------------
(* The writes.                                                             *)

\* Before it writes, a transaction sees what is committed.
LEMMA ViewIsDb ==
  ASSUME TxInv, NEW s \in Session, ~Writing(tx[s])
  PROVE  \A k \in Key : View(s)[k] = db[k]
<1>1. tx[s].new = <<>>
  BY DEF TxInv, TxOk, Writing
<1>2. DOMAIN tx[s].new = {}
  BY <1>1
<1> QED BY <1>2 DEF View

\* Where a row is captured the transaction has it, makes it, or has its line.
Mine(s, k) ==
  \/ k \in Ids(tx[s].now)
  \/ db[k] # NULL /\ (k \in tx[s].held \/ (k \in Passports(s) /\ tx[s].req.op \in Redrawing))

LEMMA TogetherLine == ASSUME NEW l PROVE Together({Line(l)}) /\ Together({Line(l), Pipe(l)})
BY DEF Together, Line, Pipe

\* An operation locked what it changes, or makes it, and leaves every row there.
LEMMA EffectOutcome ==
  ASSUME Ops \subseteq LineOps, TxInv, FreshInv, NEW s \in Session,
         tx[s].at = "lock", tx[s].todo = {}, ~Refused(s), tx[s].req.op # "UNDO"
  PROVE  /\ Outcome(db, Effect(View(s), tx[s].req, tx[s].now), Captured(s))
         /\ Together(Captured(s))
         /\ \A k \in Captured(s) : Mine(s, k)
         /\ tx[s].req.op \in Redrawing =>
              tx[s].req.line \in LineId /\ Line(tx[s].req.line) \in tx[s].held \cap Captured(s)
              /\ Passports(s) \subseteq Captured(s) \cap {Pipe(tx[s].req.line)}
<1> DEFINE r   == tx[s].req
           v   == View(s)
           now == tx[s].now
           e   == Effect(v, r, now)
<1>1. r \in Request /\ r.op \in LineOps /\ now \in 1 .. MaxClock /\ tx[s].plan = {}
  BY Requests DEF TxInv, TxOk
<1>3. tx[s].held = Wanted(r)
  BY DEF FreshInv, LockedOk
<1>4. \A k \in Key : v[k] = db[k]
  BY ViewIsDb DEF Writing
<1>5. Network(v)
  BY <1>4 DEF FreshInv, Network
<1>6. /\ \A k \in Wanted(r) : db[k] # NULL
      /\ r.op = "GEOMETRY" => \A n \in Ends(db, r.line) : db[Node(n)] # NULL
      /\ r.op = "SPLIT" => db[Pipe(r.line)] # NULL
  BY DEF Refused, Active
<1>7. now \in Stamp /\ Pending(now)
  BY <1>1 DEF Stamp, Pending
<1>8. NewNodeId(now) \in NodeId /\ NewLineId(now) \in LineId /\ \A k \in Ids(now) : db[k] = NULL
  BY <1>1, <1>7, IdsAreRows DEF FreshInv, IdsFree
<1>9. \A C, d : Outcome(v, d, C) => Outcome(db, d, C)
  BY <1>4 DEF Outcome
<1> HIDE DEF v
<1>10. CASE r.op = "CREATE_LINE"
  <2>1. e = NewLine(v, NewLineId(now), r.node, r.other, now)
        /\ Captured(s) = {Line(NewLineId(now)), Pipe(NewLineId(now))}
    BY <1>10 DEF Effect, Captured
  <2>2. /\ r.node \in NodeId /\ r.other \in NodeId /\ v[Node(r.node)] # NULL /\ v[Node(r.other)] # NULL
    BY <1>1, <1>4, <1>6, <1>10, Requests, Keys
  <2> HIDE DEF e, r
  <2>3. Outcome(v, e, Captured(s))
    BY <1>5, <1>7, <1>8, <2>1, <2>2, DrawnOutcome
  <2>4. Together(Captured(s)) /\ \A k \in Captured(s) : k \in Ids(now)
    BY <2>1, TogetherLine DEF Ids
  <2> QED BY <1>9, <1>10, <2>3, <2>4 DEF Mine, Redrawing, e, r, v
<1>11. CASE r.op \in {"DELETE_LINE", "SPLIT", "REVERSE", "GEOMETRY"}
  <2>1. r.line \in LineId /\ Wanted(r) = {Line(r.line)} /\ Line(r.line) \in Key /\ Pipe(r.line) \in Key
    BY <1>1, <1>11, Requests, Keys
  <2>2. v[Line(r.line)] # NULL /\ db[Line(r.line)] # NULL /\ Line(r.line) \in tx[s].held
    BY <1>3, <1>4, <1>6, <2>1
  <2>3. r.op = "SPLIT" => r.pos \in Pos
    BY <1>1, Requests
  <2>4. CASE r.op = "REVERSE"
    <3>1. e = Turned(v, {r.line}, now) /\ Captured(s) = {Line(r.line)}
      BY <2>1, <2>4 DEF Effect, Captured
    <3> HIDE DEF e, r
    <3>2. Outcome(v, e, Captured(s))
      BY <1>5, <1>7, <2>1, <2>2, <3>1, TurnedOutcome
    <3>3. Together(Captured(s)) /\ \A k \in Captured(s) : Mine(s, k)
      BY <2>2, <3>1, TogetherLine DEF Mine
    <3> QED BY <1>9, <2>4, <3>2, <3>3 DEF Redrawing, e, r, v
  <2>5. CASE r.op \in Redrawing
    <3>1. Passports(s) = PipeKeysOf(v, {r.line}) /\ Passports(s) \subseteq {Pipe(r.line)}
      <4>1. PipeKeysOf(v, {r.line}) = PipeKeysOf(db, {r.line})
        BY <1>4, <2>1 DEF PipeKeysOf
      <4> QED BY <1>1, <2>5, <4>1, OnePassport
    <3>2. \A k \in Passports(s) : db[k] # NULL
      BY DEF Passports, PipeKeysOf
    <3>3. CASE r.op \in {"DELETE_LINE", "GEOMETRY"}
      <4>1. Captured(s) = {Line(r.line)} \cup Passports(s)
        <5>1. LineKeysOf({}) = {}
          BY DEF LineKeysOf
        <5> QED BY <1>1, <2>1, <3>3, <5>1 DEF Captured
      <4>2. Outcome(v, e, Captured(s))
        <5>1. CASE r.op = "DELETE_LINE"
          <6>1. e = RemoveLines(v, {r.line}, now)
            BY <5>1 DEF Effect
          <6> HIDE DEF e, r
          <6> QED BY <1>5, <1>7, <2>1, <2>2, <3>1, <4>1, <6>1, RemovedOutcome
        <5>2. CASE r.op = "GEOMETRY"
          <6>1. e = Reshaped(v, r.line, 1, now)
            BY <5>2 DEF Effect
          <6>2. \A n \in Ends(v, r.line) : v[Node(n)] # NULL
            <7>1. v[Line(r.line)] = db[Line(r.line)] /\ Ends(v, r.line) = Ends(db, r.line)
              BY <1>4, <2>1 DEF Ends
            <7>2. db[Line(r.line)] \in LineRow
              BY <2>1, <2>2, RowTables DEF FreshInv
            <7>3. Ends(db, r.line) \subseteq NodeId
              BY <7>2 DEF Ends, LineRow
            <7> QED BY <1>4, <1>6, <5>2, <7>1, <7>3, Keys
          <6> HIDE DEF e, r
          <6> QED BY <1>5, <1>7, <2>1, <2>2, <3>1, <4>1, <6>1, <6>2, ReshapedOutcome
        <5> QED BY <3>3, <5>1, <5>2
      <4>3. Together(Captured(s))
        <5>1. Captured(s) = {Line(r.line)} \/ Captured(s) = {Line(r.line), Pipe(r.line)}
          BY <3>1, <4>1
        <5> QED BY <5>1, TogetherLine
      <4>4. \A k \in Captured(s) : Mine(s, k)
        BY <2>2, <2>5, <3>2, <4>1 DEF Mine
      <4> HIDE DEF e
      <4>5. Outcome(db, e, Captured(s))
        BY <1>9, <4>2
      <4> QED BY <2>1, <2>2, <3>1, <4>1, <4>3, <4>4, <4>5 DEF e, v
    <3>4. CASE r.op = "SPLIT"
      <4> DEFINE n == NewNodeId(now)
                 m == NewLineId(now)
                 via == v[Line(r.line)].shape.via
      <4>1. e = Halves(v, r.line, n, m, r.pos, via, via, now)
            /\ Captured(s) = {Node(n), Line(m), Line(r.line), Pipe(m), Pipe(r.line)}
        <5>1. e = Halves(v, r.line, n, m, r.pos, via, via, now)
          BY <3>4 DEF Effect
        <5>2. Captured(s) = Wanted(r) \cup {Pipe(r.line), Line(m), Pipe(m), Node(n)}
          BY <3>4 DEF Captured
        <5> QED BY <2>1, <5>1, <5>2
      <4>2. v[Line(r.line)] \in LineRow
        BY <1>5, <2>1, <2>2, RowTables
      <4>3. via \in {0, 1}
        BY <4>2 DEF LineRow, Shape
      <4>4. n \in NodeId /\ m \in LineId /\ m # r.line /\ {Node(n), Line(m), Pipe(m)} = Ids(now)
        BY <1>8, <2>2 DEF Ids
      <4>5. v[Pipe(r.line)] # NULL /\ Pipe(r.line) \in Passports(s)
        <5>1. db[Pipe(r.line)] # NULL
          BY <1>6, <3>4
        <5> QED BY <1>4, <2>1, <3>1, <5>1 DEF PipeKeysOf
      <4> HIDE DEF e, n, m, via
      <4>6. Outcome(v, e, Captured(s))
        <5> HIDE DEF r
        <5>1. r.pos \in Pos
          BY <2>3, <3>4
        <5> QED BY <1>5, <1>7, <2>1, <2>2, <5>1, <4>1, <4>3, <4>4, <4>5, CutOutcome
      <4>7. Together(Captured(s))
        BY <4>1 DEF Together, Node, Line, Pipe
      <4>8. \A k \in Captured(s) : Mine(s, k)
        BY <2>2, <2>5, <3>2, <4>1, <4>4, <4>5 DEF Mine
      <4>9. Outcome(db, e, Captured(s))
        BY <1>9, <4>6
      <4> QED BY <2>1, <2>2, <3>1, <4>1, <4>7, <4>8, <4>9 DEF e, v
    <3> QED BY <2>5, <3>3, <3>4 DEF Redrawing
  <2> QED BY <1>11, <2>4, <2>5 DEF Redrawing
<1> QED BY <1>1, <1>10, <1>11 DEF LineOps

LEMMA DrawFresh ==
  ASSUME Ops \subseteq LineOps, TxInv, FreshInv, NEW s \in Session, Others(s), Draws(s)
  PROVE  FreshInv'
<1> DEFINE d == Effect(View(s), tx[s].req, tx[s].now)
           pipes == Passports(s)
<1>1. /\ tx'[s].req = tx[s].req /\ tx'[s].now = tx[s].now /\ tx'[s].at = "passports" /\ tx'[s].todo = pipes
      /\ tx'[s].held = tx[s].held /\ tx'[s].image = Image(db, Captured(s))
      /\ tx'[s].new = [k \in Written(d) \ pipes |-> d[k]]
      /\ tx[s].at = "lock" /\ tx[s].req.op \in Redrawing /\ tx[s].todo = {} /\ ~Refused(s)
      /\ UNCHANGED <<db, clock, last>>
  BY DEF Draws, Is
<1>2. Quiet(s) /\ clock \in Int
  BY <1>1 DEF Quiet, TxInv
<1>3. \A k \in pipes : db[k] # NULL
  BY DEF Passports, PipeKeysOf
<1>4. IdsFree' /\ Apart' /\ Started'
  <2>1. \A u \in Session \ {s} : tx'[s].held \cap tx[u].held = {}
    BY <1>1 DEF FreshInv, Apart
  <2>2. \A k \in tx'[s].held \cup tx'[s].todo : k \in tx[s].held \cup tx[s].todo \/ db[k] # NULL
    BY <1>1, <1>3
  <2>3. tx[s].at # "idle" /\ clock <= clock' /\ clock' \in Int
    BY <1>1, <1>2
  <2> QED BY <1>1, <1>2, <2>1, <2>2, <2>3, ApartKept DEF FreshInv
<1>5. LockedOk(s)'
  BY <1>1 DEF FreshInv, LockedOk, Redrawing
<1>6. /\ Outcome(db, d, Captured(s)) /\ Together(Captured(s))
      /\ \A k \in Captured(s) : Mine(s, k)
      /\ tx[s].req.line \in LineId /\ Line(tx[s].req.line) \in tx[s].held \cap Captured(s)
      /\ pipes \subseteq Captured(s) \cap {Pipe(tx[s].req.line)}
  BY <1>1, EffectOutcome DEF Redrawing
<1> HIDE DEF d, pipes
<1>7. DOMAIN tx'[s].image = Captured(s) /\ \A k \in Captured(s) : tx'[s].image[k] = db[k]
  BY <1>1 DEF Image
<1>8. DOMAIN tx'[s].new = Written(d) \ pipes /\ \A k \in Written(d) \ pipes : tx'[s].new[k] = d[k]
  BY <1>1
<1>9. Written(d) \subseteq Captured(s) /\ Captured(s) \subseteq Rows /\ Captured(s) \subseteq Key
      /\ \A k \in Captured(s) : d[k] # NULL /\ RowOk(k, d[k])
  BY <1>6 DEF Outcome, Written, Rows, Key
<1>10. \A k \in Captured(s) \ pipes : k \in Ids(tx[s].now) \/ (k \in tx[s].held /\ db[k] # NULL)
  BY <1>6 DEF Mine, pipes
<1>11. Own(tx[s])' = Own(tx[s])
  BY <1>1 DEF Own
<1>12. WritesOk(s)'
  <2>1. \A k \in DOMAIN tx'[s].new : /\ k \in Ids(tx[s].now) \/ (k \in tx[s].held /\ db[k] # NULL)
                                     /\ k \in Rows /\ RowOk(k, tx'[s].new[k])
    BY <1>8, <1>9, <1>10
  <2>2. ASSUME NEW l \in LineId, Pipe(l) \in DOMAIN tx'[s].new PROVE Line(l) \in Own(tx[s])
    <3>1. Line(l) \in Captured(s)
      BY <1>6, <1>8, <1>9, <2>2 DEF Together
    <3>2. Line(l) \notin pipes
      BY <1>6 DEF Line, Pipe
    <3> QED BY <1>10, <3>1, <3>2 DEF Own
  <2> QED BY <1>1, <1>11, <2>1, <2>2 DEF WritesOk
<1>13. ImagesOk(s)'
  <2>1. Captured(s) \subseteq Own(tx[s]) \cup pipes
    BY <1>10 DEF Own
  <2>2. \A k \in Captured(s) : k \notin DOMAIN tx'[s].new => db[k] # NULL
    BY <1>3, <1>8, <1>9 DEF pipes, Written
  <2>3. \A k \in Captured(s) : k \in DOMAIN tx'[s].new => tx'[s].new[k] # NULL
    BY <1>8, <1>9
  <2>4. DOMAIN tx'[s].new \subseteq Captured(s)
    BY <1>8, <1>9
  <2> QED BY <1>1, <1>6, <1>7, <1>9, <1>11, <2>1, <2>2, <2>3, <2>4 DEF ImagesOk
<1>14. DrawnOk(s)'
  BY <1>1, <1>6, <1>7 DEF DrawnOk
<1> QED BY <1>2, <1>4, <1>5, <1>12, <1>13, <1>14, QuietFresh DEF WrittenOk

\* The passport gets the length of the line as it has been written.
LEMMA UpdatedRow ==
  ASSUME NEW s \in Session, tx[s].at = "passports", NEW l \in LineId,
         View(s)[Line(l)] \in LineRow, View(s)[Pipe(l)] \in PipeRow
  PROVE  Updated(s, Pipe(l), View(s)[Pipe(l)]) \in PipeRow
<1> DEFINE line == View(s)[Line(l)]
           row  == View(s)[Pipe(l)]
<1>1. Pipe(l)[2] = l
  BY DEF Pipe
<1>2. Length(line.shape) \in Measure
  BY DEF LineRow, Shape, Measure, Length
<1>3. Updated(s, Pipe(l), row) = IF line.removed THEN [row EXCEPT !.removed = TRUE]
                                 ELSE [row EXCEPT !.len = Length(line.shape)]
  BY <1>1 DEF Updated
<1> QED BY <1>2, <1>3 DEF PipeRow

LEMMA MeasureFresh ==
  ASSUME Ops \subseteq LineOps, TxInv, FreshInv, NEW s \in Session, Others(s), Measures(s)
  PROVE  FreshInv'
<1> DEFINE t == tx[s]
           l == t.req.line
<1>1. PICK k \in t.todo :
        /\ Free(s, k)
        /\ Is(tx'[s], t.req, t.now, t.at, t.todo \ {k}, t.held \cup {k}, t.image,
              IF View(s)[k] # NULL THEN With(t.new, k, Updated(s, k, View(s)[k])) ELSE t.new)
  BY DEF Measures
<1>2. t.at = "passports" /\ UNCHANGED <<db, clock, last>> /\ t.req.op # "UNDO" /\ Writing(t)
  BY DEF Measures, TxInv, TxOk, Redrawing, Writing
<1>3. Quiet(s) /\ clock \in Int
  BY <1>2 DEF Quiet, TxInv
<1>4. WritesOk(s) /\ ImagesOk(s) /\ DrawnOk(s) /\ LockedOk(s)
  BY DEF FreshInv, WrittenOk
<1>5. /\ l \in LineId /\ Line(l) \in t.held \cap DOMAIN t.image /\ k = Pipe(l) /\ k \in DOMAIN t.image
      /\ t.todo = {k}
  BY <1>2, <1>4 DEF DrawnOk
<1>6. \A j \in Key : View(s)[j] = IF j \in DOMAIN t.new THEN t.new[j] ELSE db[j]
  BY DEF View
<1>7. \A j \in DOMAIN t.image : j \in Rows /\ View(s)[j] # NULL /\ RowOk(j, View(s)[j])
  <2>1. \A j \in DOMAIN t.image : j \in Rows /\ j \in Key
    BY <1>2, <1>4 DEF ImagesOk, Rows, Key
  <2>2. \A j \in DOMAIN t.image : View(s)[j] # NULL
    BY <1>2, <1>4, <1>6, <2>1 DEF ImagesOk
  <2>3. \A j \in DOMAIN t.image : RowOk(j, View(s)[j])
    BY <1>2, <1>4, <1>6, <2>1 DEF WritesOk, FreshInv, Network
  <2> QED BY <2>1, <2>2, <2>3
<1>8. View(s)[Line(l)] \in LineRow /\ View(s)[Pipe(l)] \in PipeRow
  <2>1. \A j \in EquipKeys \cup TypeKeys \cup FlagKeys :
        j[1] \in {"pressregulators", "dampers", "realconsumers", "heatsources", "setpressnodes"}
    BY DEF EquipKeys, TypeKeys, FlagKeys, EquipTable, TypeTable, FlagTable
  <2> QED BY <1>5, <1>7, <2>1, Keys DEF RowOk
<1> DEFINE row == Updated(s, k, View(s)[k])
           new == With(t.new, k, row)
<1>9. row \in PipeRow /\ row # NULL /\ RowOk(k, row)
  <2>1. row \in PipeRow
    BY <1>2, <1>5, <1>8, UpdatedRow
  <2> HIDE DEF row
  <2> QED BY <1>5, <2>1, GoodRows
<1>10. View(s)[k] # NULL
  BY <1>5, <1>7
<1> HIDE DEF row
<1>11. DOMAIN new = {k} \cup DOMAIN t.new /\ \A j \in DOMAIN new : new[j] = IF j = k THEN row ELSE t.new[j]
  BY DEF With
<1> HIDE DEF new
<1>12. /\ tx'[s].req = t.req /\ tx'[s].now = t.now /\ tx'[s].at = t.at /\ tx'[s].todo = {}
       /\ tx'[s].held = t.held \cup {k} /\ tx'[s].image = t.image /\ tx'[s].new = new
  BY <1>1, <1>5, <1>10 DEF Is, new, row
<1>13. db[k] # NULL
  <2>1. k \notin Ids(t.now)
    <3>1. t.now \in 1 .. MaxClock /\ Pending(t.now)
      BY <1>2 DEF TxInv, TxOk, Pending
    <3> QED BY <3>1 DEF FreshInv, IdsFree
  <2>2. CASE k \in DOMAIN t.new
    BY <1>2, <1>4, <2>1, <2>2 DEF WritesOk
  <2>3. CASE k \notin DOMAIN t.new
    BY <1>2, <1>4, <1>5, <2>3 DEF ImagesOk
  <2> QED BY <2>2, <2>3
<1>14. IdsFree' /\ Apart' /\ Started'
  <2>1. \A u \in Session \ {s} : tx'[s].held \cap tx[u].held = {}
    BY <1>1, <1>12 DEF Free, FreshInv, Apart
  <2>2. \A j \in tx'[s].held \cup tx'[s].todo : j \in tx[s].held \cup tx[s].todo \/ db[j] # NULL
    BY <1>12
  <2>3. tx[s].at # "idle" /\ clock <= clock' /\ clock' \in Int /\ tx'[s].now = tx[s].now
    BY <1>2, <1>3, <1>12
  <2> QED BY <1>3, <2>1, <2>2, <2>3, ApartKept DEF FreshInv
<1>15. LockedOk(s)'
  BY <1>2, <1>4, <1>12 DEF LockedOk
<1>16. t.held \cup {k} \subseteq Own(t)' /\ Own(t) \subseteq Own(t)'
  BY <1>12 DEF Own
<1>17. WritesOk(s)'
  <2>1. \A j \in DOMAIN new : /\ j \in Ids(t.now) \/ (j \in t.held \cup {k} /\ db[j] # NULL)
                              /\ j \in Rows /\ RowOk(j, new[j])
    BY <1>2, <1>4, <1>5, <1>7, <1>9, <1>11, <1>13 DEF WritesOk
  <2>2. ASSUME NEW i \in LineId, Pipe(i) \in DOMAIN new PROVE Line(i) \in Own(t)'
    <3>1. CASE Pipe(i) = k
      <4>1. i = l
        BY <1>5, <3>1 DEF Pipe
      <4> QED BY <1>5, <1>16, <4>1
    <3>2. CASE Pipe(i) # k
      BY <1>2, <1>4, <1>11, <1>16, <2>2, <3>2 DEF WritesOk
    <3> QED BY <3>1, <3>2
  <2> QED BY <1>2, <1>12, <2>1, <2>2 DEF WritesOk
<1>18. ImagesOk(s)'
  <2>1. DOMAIN t.image \subseteq Own(t)' /\ DOMAIN t.image \subseteq Rows /\ Together(DOMAIN t.image)
    BY <1>2, <1>4, <1>5, <1>16 DEF ImagesOk
  <2>2. DOMAIN new \subseteq DOMAIN t.image
    BY <1>2, <1>4, <1>5, <1>11 DEF ImagesOk
  <2>3. \A j \in DOMAIN t.image :
          t.image[j] = db[j] /\ (IF j \in DOMAIN new THEN new[j] # NULL ELSE db[j] # NULL)
    BY <1>2, <1>4, <1>9, <1>11 DEF ImagesOk
  <2> QED BY <1>2, <1>12, <2>1, <2>2, <2>3 DEF ImagesOk
<1>19. DrawnOk(s)'
  BY <1>5, <1>12 DEF DrawnOk
<1> QED BY <1>3, <1>14, <1>15, <1>17, <1>18, <1>19, QuietFresh DEF WrittenOk

LEMMA WriteFresh ==
  ASSUME Ops \subseteq LineOps, TxInv, FreshInv, NEW s \in Session, Others(s), Writes(s)
  PROVE  FreshInv'
<1> DEFINE t == tx[s]
           d == LastWrites(s)
<1>1. /\ tx'[s].req = t.req /\ tx'[s].now = t.now /\ tx'[s].at = "written" /\ tx'[s].todo = {}
      /\ tx'[s].held = t.held
      /\ tx'[s].image = IF t.image = <<>> THEN Image(db, Captured(s)) ELSE t.image
      /\ tx'[s].new = [k \in Written(d) |-> d[k]]
      /\ t.at # "idle" /\ t.at = LastLock(t.req.op) /\ t.todo = {} /\ ~Refused(s) /\ UNCHANGED <<db, clock, last>>
  BY DEF Writes, Is
<1>2. Quiet(s) /\ clock \in Int
  BY <1>1 DEF Quiet, TxInv
<1>3. IdsFree' /\ Apart' /\ Started'
  <2>1. \A u \in Session \ {s} : tx'[s].held \cap tx[u].held = {}
    BY <1>1 DEF FreshInv, Apart
  <2>2. \A k \in tx'[s].held \cup tx'[s].todo : k \in tx[s].held \cup tx[s].todo \/ db[k] # NULL
    BY <1>1
  <2> QED BY <1>1, <1>2, <2>1, <2>2, ApartKept DEF FreshInv
<1>4. LockedOk(s)' /\ DrawnOk(s)'
  BY <1>1 DEF FreshInv, LockedOk, DrawnOk
<1>5. t.req \in Request /\ t.req.op \in LineOps
  BY <1>1, Requests DEF TxInv, TxOk
<1>6. Own(t)' = Own(t)
  BY <1>1 DEF Own
<1> HIDE DEF d
<1>7. DOMAIN tx'[s].new = {k \in Key : d[k] # db[k]} /\ \A k \in DOMAIN tx'[s].new : tx'[s].new[k] = d[k]
  BY <1>1 DEF Written
<1>8. CASE t.req.op \in Redrawing
  <2>1. t.at = "passports" /\ Writing(t) /\ t.req.op # "UNDO"
    BY <1>1, <1>8 DEF LastLock, Redrawing, Writing
  <2>2. WritesOk(s) /\ ImagesOk(s) /\ DrawnOk(s)
    BY DEF FreshInv, WrittenOk
  <2>3. \A k \in Key : d[k] = IF k \in DOMAIN t.new THEN t.new[k] ELSE db[k]
    <3>1. d = View(s)
      BY <1>8 DEF d, LastWrites, Redrawing
    <3> QED BY <3>1 DEF View
  <2>4. \A k \in DOMAIN tx'[s].new : k \in DOMAIN t.new /\ tx'[s].new[k] = t.new[k]
    BY <1>7, <2>3
  <2>5. DOMAIN t.image \subseteq Key
    BY <2>1, <2>2 DEF ImagesOk, Rows, Key
  <2>6. tx'[s].image = t.image
    <3>1. DOMAIN t.image # {}
      BY <2>1, <2>2 DEF DrawnOk
    <3>2. t.image # <<>>
      BY <3>1
    <3> QED BY <1>1, <3>2
  <2>7. WritesOk(s)'
    BY <1>1, <1>6, <2>1, <2>2, <2>4 DEF WritesOk
  <2>8. \A k \in DOMAIN t.image :
          t.image[k] = db[k] /\ (IF k \in DOMAIN tx'[s].new THEN tx'[s].new[k] # NULL ELSE db[k] # NULL)
    BY <1>7, <2>1, <2>2, <2>3, <2>4, <2>5 DEF ImagesOk
  <2>9. ImagesOk(s)'
    <3>1. /\ DOMAIN t.image \subseteq Own(t) /\ DOMAIN t.image \subseteq Rows /\ Together(DOMAIN t.image)
          /\ DOMAIN t.new \subseteq DOMAIN t.image
      BY <1>1, <2>1, <2>2 DEF ImagesOk
    <3> QED BY <1>1, <1>6, <2>4, <2>6, <2>8, <3>1 DEF ImagesOk
  <2> QED BY <1>2, <1>3, <1>4, <2>7, <2>9, QuietFresh DEF WrittenOk
<1>9. CASE t.req.op \in {"CREATE_LINE", "REVERSE"}
  <2>1. t.at = "lock" /\ t.req.op # "UNDO" /\ t.req.op \notin Redrawing
    BY <1>1, <1>9 DEF LastLock, Redrawing
  <2>2. tx'[s].image = Image(db, Captured(s))
    BY <1>1, <2>1 DEF TxInv, TxOk
  <2>3. Outcome(db, d, Captured(s)) /\ Together(Captured(s)) /\ \A k \in Captured(s) : Mine(s, k)
    <3>1. d = Effect(View(s), t.req, t.now)
      BY <1>9 DEF d, LastWrites
    <3> QED BY <1>1, <2>1, <3>1, EffectOutcome
  <2>4. DOMAIN tx'[s].image = Captured(s) /\ \A k \in Captured(s) : tx'[s].image[k] = db[k]
    BY <2>2 DEF Image
  <2>5. /\ DOMAIN tx'[s].new \subseteq Captured(s) /\ Captured(s) \subseteq Rows /\ Captured(s) \subseteq Key
        /\ \A k \in DOMAIN tx'[s].new : RowOk(k, tx'[s].new[k]) /\ tx'[s].new[k] # NULL
    BY <1>7, <2>3 DEF Outcome, Rows, Key
  <2>6. \A k \in Captured(s) : k \in Ids(t.now) \/ (k \in t.held /\ db[k] # NULL)
    BY <2>1, <2>3 DEF Mine
  <2>7. \A k \in Captured(s) : k \in Own(t)
    BY <2>6 DEF Own
  <2>8. WritesOk(s)'
    BY <1>1, <1>6, <2>3, <2>5, <2>6, <2>7 DEF WritesOk, Together
  <2>9. \A k \in Captured(s) : k \notin DOMAIN tx'[s].new => db[k] # NULL
    BY <1>7, <2>3, <2>5 DEF Outcome
  <2>10. ImagesOk(s)'
    BY <1>1, <1>6, <2>3, <2>4, <2>5, <2>7, <2>9 DEF ImagesOk
  <2> QED BY <1>2, <1>3, <1>4, <2>8, <2>10, QuietFresh DEF WrittenOk
<1>10. CASE t.req.op = "UNDO"
  <2>1. t.at = "undo_nodes"
    BY <1>1, <1>10 DEF LastLock
  <2>2. last[s] # NULL /\ Reached(s, PipeKeys) /\ Reached(s, LineKeys) /\ Reached(s, NodeKeys)
    BY <1>10, <2>1 DEF FreshInv, LockedOk
  <2>3. /\ DOMAIN last[s].after = DOMAIN last[s].before /\ DOMAIN last[s].before \subseteq Rows
        /\ Together(DOMAIN last[s].before)
        /\ \A k \in DOMAIN last[s].before : RowOk(k, last[s].before[k]) /\ last[s].after[k] # NULL
    BY <2>2 DEF FreshInv, EntryOk
  <2>4. \A k \in DOMAIN last[s].after : db[k] = last[s].after[k]
    BY <1>1, <2>1 DEF Refused
  <2>5. \A k \in DOMAIN last[s].before : k \in t.held /\ db[k] # NULL
    BY <1>1, <2>2, <2>3, <2>4 DEF Reached, Rows
  <2>6. \A k \in Key : d[k] = IF k \in DOMAIN last[s].before THEN last[s].before[k] ELSE db[k]
    <3>1. d = Restore(View(s), last[s].before)
      BY <1>10 DEF d, LastWrites
    <3>2. \A k \in Key : View(s)[k] = db[k]
      BY <2>1, ViewIsDb DEF Writing
    <3> QED BY <3>1, <3>2 DEF Restore, Update
  <2>7. \A k \in DOMAIN tx'[s].new : k \in DOMAIN last[s].before /\ tx'[s].new[k] = last[s].before[k]
    BY <1>7, <2>6
  <2>8. \A k \in DOMAIN tx'[s].new : /\ k \in t.held /\ db[k] # NULL
                                     /\ k \in Rows /\ RowOk(k, tx'[s].new[k])
    BY <2>3, <2>5, <2>7
  <2>9. \A l \in LineId : Pipe(l) \in DOMAIN tx'[s].new => Line(l) \in Own(t)
    BY <2>3, <2>5, <2>7 DEF Together, Own
  <2>10. WritesOk(s)'
    BY <1>1, <1>6, <2>8, <2>9 DEF WritesOk
  <2>11. ImagesOk(s)'
    BY <1>1, <1>10 DEF ImagesOk
  <2> QED BY <1>2, <1>3, <1>4, <2>10, <2>11, QuietFresh DEF WrittenOk
<1> QED BY <1>5, <1>8, <1>9, <1>10 DEF LineOps, Redrawing

-----------------------------------------------------------------------------
(* The commit.                                                             *)

LEMMA Committed ==
  ASSUME TxInv, FreshInv, NEW s \in Session, Others(s), Commits(s)
  PROVE  /\ tx[s].at = "written" /\ tx'[s] = Idle /\ clock' = clock
         /\ \A k \in Key : db'[k] = IF k \in DOMAIN tx[s].new THEN tx[s].new[k] ELSE db[k]
         /\ \A u \in Session \ {s} : last'[u] = last[u]
         /\ tx[s].req.op = "UNDO" => last'[s] = NULL
         /\ tx[s].req.op # "UNDO" =>
              /\ last'[s] = [before |-> tx[s].image, after |-> Image(View(s), DOMAIN tx[s].image)]
              /\ \A k \in DOMAIN tx[s].image : last'[s].after[k] = db'[k]
              /\ DOMAIN last'[s].after = DOMAIN tx[s].image /\ last'[s].before = tx[s].image
<1>1. /\ tx[s].at = "written" /\ tx'[s] = Idle /\ clock' = clock /\ db' = View(s)
      /\ last' = [last EXCEPT ![s] = IF tx[s].req.op = "UNDO" THEN NULL
              ELSE [before |-> tx[s].image, after |-> Image(View(s), DOMAIN tx[s].image)]]
  BY DEF Commits, Commit
<1>2. \A k \in Key : db'[k] = IF k \in DOMAIN tx[s].new THEN tx[s].new[k] ELSE db[k]
  BY <1>1 DEF View
<1>3. \A u \in Session \ {s} : last'[u] = last[u]
  BY <1>1
<1>4. last'[s] = IF tx[s].req.op = "UNDO" THEN NULL
              ELSE [before |-> tx[s].image, after |-> Image(View(s), DOMAIN tx[s].image)]
  BY <1>1 DEF TxInv
<1>5. tx[s].req.op # "UNDO" =>
        /\ \A k \in DOMAIN tx[s].image : last'[s].after[k] = db'[k]
        /\ DOMAIN last'[s].after = DOMAIN tx[s].image /\ last'[s].before = tx[s].image
  BY <1>1, <1>4 DEF Image
<1> QED BY <1>1, <1>2, <1>3, <1>4, <1>5

LEMMA CommitFresh ==
  ASSUME TxInv, FreshInv, NEW s \in Session, Others(s), Commits(s)
  PROVE  FreshInv'
<1> USE Committed
<1>1. /\ \A k \in DOMAIN tx[s].new : k \in Ids(tx[s].now) \/ (k \in tx[s].held /\ db[k] # NULL)
      /\ \A k \in DOMAIN tx[s].new : k \in Rows /\ RowOk(k, tx[s].new[k])
      /\ \A l \in LineId : Pipe(l) \in DOMAIN tx[s].new => Line(l) \in Own(tx[s])
  BY DEF FreshInv, WrittenOk, WritesOk, Writing
<1>2. tx[s].now \in 1 .. MaxClock /\ Pending(tx[s].now) /\ tx[s].now < clock
  BY DEF FreshInv, Started, TxInv, TxOk, Pending
<1>3. \A k \in Key : db'[k] # db[k] => k \in Own(tx[s])
  BY <1>1 DEF Own
<1>4. Network(db)'
  BY <1>1 DEF FreshInv, Network
<1>5. tx'[s].at = "idle" /\ tx'[s].held = {} /\ tx'[s].todo = {} /\ \A u \in Session \ {s} : tx'[u] = tx[u]
  BY IdleIs DEF Is, Others
<1>6. EntryOk(last[s])' /\ Entered(last'[s]) \subseteq Own(tx[s])
  <2>1. CASE tx[s].req.op = "UNDO"
    BY <2>1 DEF EntryOk, Entered
  <2>2. CASE tx[s].req.op # "UNDO"
    <3>1. /\ DOMAIN tx[s].image \subseteq Own(tx[s]) /\ DOMAIN tx[s].image \subseteq Rows
          /\ Together(DOMAIN tx[s].image)
          /\ \A k \in DOMAIN tx[s].image :
               tx[s].image[k] = db[k] /\ (IF k \in DOMAIN tx[s].new THEN tx[s].new[k] # NULL ELSE db[k] # NULL)
      BY <2>2 DEF FreshInv, WrittenOk, ImagesOk, Writing, TxInv, TxOk
    <3>2. Rows \subseteq Key
      BY DEF Rows, Key
    <3>3. \A k \in DOMAIN tx[s].image : RowOk(k, tx[s].image[k]) /\ db'[k] # NULL
      BY <3>1, <3>2 DEF FreshInv, Network
    <3> QED BY <2>2, <3>1, <3>3 DEF EntryOk, Entered
  <2> QED BY <2>1, <2>2
<1>7. \A t \in 1 .. MaxClock : Pending(t)' => Pending(t) /\ t # tx[s].now
  <2> SUFFICES ASSUME NEW t \in 1 .. MaxClock, Pending(t)' PROVE Pending(t) /\ t # tx[s].now
    OBVIOUS
  <2>0. clock' = clock /\ tx[s].at = "written"
    OBVIOUS
  <2>1. clock' = clock /\ tx[s].at = "written" /\ clock \in Int /\ tx[s].now \in Int
    BY <1>2, <2>0, BoundsAssumption DEF TxInv
  <2>2. CASE clock <= t
    BY <1>2, <2>1, <2>2 DEF Pending
  <2>3. CASE ~(clock <= t)
    <3>1. PICK u \in Session : tx'[u].at # "idle" /\ tx'[u].now = t
      BY <2>1, <2>3 DEF Pending
    <3>2. u # s /\ tx'[u] = tx[u]
      BY <1>5, <3>1
    <3>3. tx[u].now # tx[s].now
      BY <2>1, <3>1, <3>2 DEF FreshInv, Apart
    <3> QED BY <3>1, <3>2, <3>3 DEF Pending
  <2> QED BY <2>2, <2>3
<1>8. IdsFree'
  <2> SUFFICES ASSUME NEW t \in 1 .. MaxClock, Pending(t)', NEW k \in Ids(t)
               PROVE  /\ db'[k] = NULL
                      /\ \A u \in Session : k \notin tx'[u].held \cup tx'[u].todo /\ k \notin Entered(last'[u])
    BY DEF IdsFree, Ids
  <2>1. db[k] = NULL /\ \A u \in Session : k \notin tx[u].held \cup tx[u].todo /\ k \notin Entered(last[u])
    BY <1>7 DEF FreshInv, IdsFree
  <2>2. k \notin Own(tx[s]) /\ k \in Key
    BY <1>2, <1>7, <2>1, IdsApart, IdsAreRows DEF Own
  <2> QED BY <1>3, <1>5, <1>6, <2>1, <2>2
<1>9. Apart' /\ Started'
  <2>1. Apart'
    <3> SUFFICES ASSUME NEW u \in Session, NEW v \in Session \ {u}
                 PROVE  /\ tx'[u].held \cap tx'[v].held = {}
                        /\ tx'[u].at # "idle" /\ tx'[v].at # "idle" => tx'[u].now # tx'[v].now
      BY DEF Apart
    <3>1. CASE u # s /\ v # s
      BY <1>5, <3>1 DEF FreshInv, Apart
    <3>2. CASE u = s \/ v = s
      BY <1>5, <3>2
    <3> QED BY <3>1, <3>2
  <2>2. Started'
    <3> SUFFICES ASSUME NEW u \in Session, tx'[u].at # "idle" PROVE tx'[u].now < clock'
      BY DEF Started
    <3>1. u # s /\ tx'[u] = tx[u] /\ clock' = clock
      BY <1>5
    <3> QED BY <3>1 DEF FreshInv, Started
  <2> QED BY <2>1, <2>2
<1>10. LockedOk(s)' /\ WrittenOk(s)'
  BY <1>5 DEF LockedOk, WrittenOk, WritesOk, ImagesOk, DrawnOk, Writing
<1>11. ASSUME NEW u \in Session \ {s} PROVE EntryOk(last[u])' /\ LockedOk(u)' /\ WrittenOk(u)'
  <2>1. tx'[u] = tx[u] /\ last'[u] = last[u] /\ EntryOk(last[u]) /\ LockedOk(u) /\ WrittenOk(u)
    BY <1>5 DEF FreshInv
  <2>2. ASSUME NEW table, Reached(u, table), last[u] # NULL PROVE Reached(u, table)'
    <3> SUFFICES ASSUME NEW k \in DOMAIN last[u].after, db[k] = NULL PROVE db'[k] = NULL
      BY <2>1, <2>2 DEF Reached
    <3>1. k \in Entered(last[u]) /\ k \in Key
      BY <2>1, <2>2 DEF EntryOk, Entered, Rows, Key
    <3>2. k \notin Ids(tx[s].now)
      BY <1>2, <3>1 DEF FreshInv, IdsFree
    <3> QED BY <1>1, <3>1, <3>2
  <2>3. LockedOk(u)'
    <3>1. tx[u].at \in {"undo_pipes", "undo_lines", "undo_nodes"} => last[u] # NULL
      BY <2>1 DEF LockedOk, TxInv, TxOk
    <3> QED BY <2>1, <2>2, <3>1 DEF LockedOk
  <2>4. WrittenOk(u)'
    <3> SUFFICES ASSUME Writing(tx[u]) PROVE WrittenOk(u)'
      BY <2>1 DEF WrittenOk, WritesOk, ImagesOk, DrawnOk, Writing
    <3>1. WritesOk(u) /\ ImagesOk(u) /\ DrawnOk(u) /\ tx[s].at # "idle" /\ tx[u].at # "idle"
      BY <2>1 DEF WrittenOk, Writing
    <3>2. \A k \in Own(tx[u]) : k \notin Own(tx[s])
      BY <3>1, OwnsApart DEF FreshInv
    <3>3. \A k \in Own(tx[u]) \cap Key : db'[k] = db[k]
      BY <1>3, <3>2
    <3>4. \A k \in tx[u].held : k \in Own(tx[u]) \cap Key
      BY DEF TxInv, TxOk, Own, Rows, Key
    <3>5. WritesOk(u)' /\ DrawnOk(u)'
      BY <2>1, <3>1, <3>3, <3>4 DEF WritesOk, DrawnOk
    <3>6. ASSUME NEW k \in tx[u].todo PROVE k \in Key /\ db'[k] = db[k]
      <4>1. tx[u].at = "passports"
        BY <3>1, <3>6 DEF Writing, TxInv, TxOk
      <4>2. tx[u].req.line \in LineId /\ Line(tx[u].req.line) \in tx[u].held /\ k = Pipe(tx[u].req.line)
        BY <3>1, <3>6, <4>1 DEF DrawnOk
      <4>3. Line(tx[u].req.line) \notin Own(tx[s])
        BY <3>2, <3>4, <4>2
      <4>4. k \notin DOMAIN tx[s].new
        BY <1>1, <4>2, <4>3
      <4> QED BY <4>2, <4>4, Keys
    <3>7. ImagesOk(u)'
      <4> SUFFICES ASSUME tx[u].req.op # "UNDO" PROVE ImagesOk(u)'
        BY <2>1 DEF ImagesOk
      <4>1. DOMAIN tx[u].image \subseteq Own(tx[u]) \cup tx[u].todo /\ DOMAIN tx[u].image \subseteq Key
        BY <3>1 DEF ImagesOk, Rows, Key
      <4>2. \A k \in DOMAIN tx[u].image : db'[k] = db[k]
        BY <3>3, <3>6, <4>1
      <4> QED BY <2>1, <3>1, <4>2 DEF ImagesOk
    <3> QED BY <3>5, <3>7 DEF WrittenOk
  <2> QED BY <2>1, <2>3, <2>4
<1> QED BY <1>4, <1>6, <1>8, <1>9, <1>10, <1>11 DEF FreshInv

\* The commit of an operation: its images are of the rows it overwrites.
LEMMA CommitImages ==
  ASSUME TxInv, FreshInv, NEW s \in Session, Others(s), Commits(s), NEW u \in Session,
         last'[u] # last[u], last'[u] # NULL
  PROVE  /\ \A k \in DOMAIN last'[u].before : last'[u].before[k] = db[k]
         /\ \A k \in Key : db'[k] # db[k] => k \in DOMAIN last'[u].before
<1>1. u = s /\ tx[s].req.op # "UNDO"
  BY Committed
<1>2. last'[s].before = tx[s].image
  BY <1>1, Committed
<1>3. /\ DOMAIN tx[s].new \subseteq DOMAIN tx[s].image
      /\ \A k \in DOMAIN tx[s].image : tx[s].image[k] = db[k]
  BY <1>1, Committed DEF FreshInv, WrittenOk, ImagesOk, Writing
<1>4. last'[u].before = tx[s].image
  BY <1>1, <1>2
<1>5. \A k \in Key : db'[k] # db[k] => k \in DOMAIN tx[s].new
  BY Committed
<1>6. \A k \in Key : db'[k] # db[k] => k \in DOMAIN tx[s].image
  BY <1>3, <1>5
<1>7. \A k \in DOMAIN last'[u].before : last'[u].before[k] = db[k]
  BY <1>3, <1>4
<1>8. \A k \in Key : db'[k] # db[k] => k \in DOMAIN last'[u].before
  BY <1>4, <1>6
<1> QED BY <1>7, <1>8

FreshStep(u) ==
  last'[u] # last[u] /\ last'[u] # NULL =>
    /\ \A k \in DOMAIN last'[u].before : last'[u].before[k] = db[k]
    /\ \A k \in Key : db'[k] # db[k] => k \in DOMAIN last'[u].before

LEMMA MovesFresh ==
  ASSUME Ops \subseteq LineOps, TxInv, FreshInv, [Next]_vars
  PROVE  FreshInv' /\ \A u \in Session : FreshStep(u)
<1>1. CASE UNCHANGED vars
  <2>1. Network(db)' /\ IdsFree' /\ Apart' /\ Started'
    BY <1>1 DEF vars, FreshInv, Network, IdsFree, Pending, Apart, Started
  <2>2. \A u \in Session : LockedOk(u)' /\ EntryOk(last[u])'
    BY <1>1 DEF vars, FreshInv, LockedOk, Reached
  <2>3. \A u \in Session : WrittenOk(u)'
    BY <1>1 DEF vars, FreshInv, WrittenOk, WritesOk, ImagesOk, DrawnOk
  <2> QED BY <1>1, <2>1, <2>2, <2>3 DEF vars, FreshInv, FreshStep
<1>2. CASE Next
  <2>1. PICK s \in Session : Others(s) /\ Moves(s)
    BY <1>2, StepIs
  <2>2. CASE Commits(s)
    BY <2>1, <2>2, CommitFresh, CommitImages DEF FreshStep
  <2>3. CASE ~Commits(s)
    <3>1. UNCHANGED last
      BY <2>1, <2>3 DEF Moves, Begins, Takes, Measures, AsksTables, Asks, Draws, Writes, RollsBack
    <3>2. FreshInv'
      BY <2>1, <2>3, BeginFresh, TakeFresh, MeasureFresh, AskFresh, DrawFresh, WriteFresh, RollFresh DEF Moves
    <3> QED BY <3>1, <3>2 DEF FreshStep
  <2> QED BY <2>2, <2>3
<1> QED BY <1>1, <1>2

LEMMA InitFresh == ASSUME Init PROVE FreshInv
<1>1. db = InitialDb /\ clock = 1 /\ (\A s \in Session : tx[s] = Idle /\ last[s] = NULL)
  BY DEF Init
<1>2. Idle.at = "idle" /\ Idle.held = {} /\ Idle.todo = {}
  BY IdleIs DEF Is
<1>3. Network(db)
  BY <1>1, InitialDbAssumption DEF Network, DbOk, Rows, Key
<1>4. IdsFree
  BY <1>1, <1>2, IdsAreRows DEF IdsFree, Entered
<1>5. Apart /\ Started
  BY <1>1, <1>2 DEF Apart, Started
<1>6. \A s \in Session : EntryOk(last[s]) /\ LockedOk(s) /\ WrittenOk(s)
  BY <1>1, <1>2 DEF EntryOk, LockedOk, WrittenOk, WritesOk, ImagesOk, DrawnOk, Writing
<1> QED BY <1>3, <1>4, <1>5, <1>6 DEF FreshInv

\* Whatever other transactions commit between its statements, an operation that
\* locks a line, or makes one, leaves in the journal the rows it overwrote, all of
\* them (ImagesFresh): an undo brings back nothing older.  Its rows are its own
\* from its first lock, and a passport it has an image of but has yet to lock is
\* written by nobody who does not have its line, an undo of another session
\* included.
THEOREM ImagesAreFresh == ASSUME Ops \subseteq LineOps PROVE Spec => ImagesFresh
<1>1. TxInv /\ FreshInv /\ [Next]_vars => FreshInv' /\ \A u \in Session : FreshStep(u)
  BY MovesFresh
<1>2. Init => FreshInv
  BY InitFresh
<1>3. (\A u \in Session : FreshStep(u)) =>
        \A s \in Session : last'[s] # last[s] /\ last'[s] # NULL =>
          /\ \A k \in DOMAIN last'[s].before : last'[s].before[k] = db[k]
          /\ \A k \in Key : db'[k] # db[k] => k \in DOMAIN last'[s].before
  BY DEF FreshStep
<1> QED BY <1>1, <1>2, <1>3, TxAlways, PTL DEF Spec, ImagesFresh
=============================================================================
