------------------------------ MODULE CardEdit ------------------------------
(***************************************************************************)
(* Editing the properties of objects: the card of one object                *)
(* (routers/card_edit.py, database/card_edit.py, database/typed_edit.py),   *)
(* the setting of properties of many lines and its undo                     *)
(* (database/card_batch.py), as transactions of PostgreSQL (READ COMMITTED).*)
(*                                                                          *)
(* A client reads, a person looks, and the rows are written later by a      *)
(* request of its own: a card says which version (xmin) of a row it shows,  *)
(* a batch how many rows its preview found, an undo which values it expects.*)
(* One action is one statement with what the code does after it, or the     *)
(* client's reading.  A statement reads committed rows, FOR UPDATE and      *)
(* UPDATE wait for the row's lock and go on with its newest version.        *)
(***************************************************************************)
EXTENDS Integers, FiniteSets

CONSTANTS
  NRows,  \* the rows of the table have the ids 1 .. NRows
  Field,  \* its editable columns
  Value,  \* what a column may hold
  First,  \* the value all columns hold at first
  Tx,     \* the requests, each made once
  Change, \* the changes to one row that clients ask for
  Keep,   \* a column that a change leaves alone
  None    \* no lock, no version, no row

Id == 1 .. NRows
Cells == [Field -> Value]
Row == [version : Nat, cells : Cells]

ASSUME CardAssumption ==
  /\ NRows \in Nat /\ First \in Value
  /\ Keep \notin Value /\ None \notin Tx /\ None \notin Cells /\ None \notin Row
  /\ Change \subseteq [Field -> Value \cup {Keep}] /\ [f \in Field |-> Keep] \notin Change

VARIABLES
  row,      \* row[x]: the committed row, with its version
  lock,     \* lock[x]: the transaction that holds the row
  stage,    \* stage[t]: where the request stands
  kind,     \* kind[t]: what it is
  raw,      \* raw[t][x]: the change it asks for in row x
  todo,     \* todo[t]: the rows it has still to come to
  place,    \* place[t][x]: the place of row x in the order it comes to them
  sent,     \* sent[t][x]: the row whose version the client sent
  expected, \* expected[t]: the number of rows the client's preview found
  of,       \* of[t]: the batch an undo is to take back
  image,    \* image[t][x]: the row the journal captured, or an undo compared
  own,      \* own[t][x]: the cells it has written
  old       \* old[t][x]: the cells it reports to audit_log as overwritten

asked == <<kind, raw, place, sent, expected, of>>
vars == <<row, lock, stage, todo, image, own, old, asked>>

Nothing == [f \in Field |-> Keep]
Blank == [x \in Id |-> None]
Untouched == [x \in Id |-> Nothing]

\* The columns of a change.
Columns(change) == {f \in Field : change[f] # Keep}

\* Mutant: the columns a change leaves alone are written too.
ChangedAll(cells, change) == [f \in Field |-> change[f]]

\* Cells with a change made.
Changed(cells, change) == [f \in Field |-> IF change[f] = Keep THEN cells[f] ELSE change[f]]

Asks(t) == {x \in Id : raw[t][x] # Nothing}
Differs(x, change) == Changed(row[x].cells, change) # row[x].cells
Wrote(t) == {x \in Id : own[t][x] # None}

\* The next row a transaction comes to.
NextRow(t, x) == x \in todo[t] /\ \A y \in todo[t] : place[t][x] <= place[t][y]

\* Mutant: ORDER BY id DESC.
ByIdDown(x) == NRows - x

\* ORDER BY id.
ById(x) == x

\* Mutant: a row is taken while another transaction holds it.
FreeAlways(x, t) == TRUE

Free(x, t) == lock[x] \in {None, t}

-----------------------------------------------------------------------------

Init ==
  /\ row = [x \in Id |-> [version |-> 0, cells |-> [f \in Field |-> First]]]
  /\ lock = Blank
  /\ stage = [t \in Tx |-> "new"]
  /\ kind = [t \in Tx |-> "none"]
  /\ raw = [t \in Tx |-> Untouched]
  /\ todo = [t \in Tx |-> {}]
  /\ place = [t \in Tx |-> [x \in Id |-> 0]]
  /\ sent = [t \in Tx |-> Blank]
  /\ expected = [t \in Tx |-> 0]
  /\ of = [t \in Tx |-> None]
  /\ image = [t \in Tx |-> Blank]
  /\ own = [t \in Tx |-> Blank]
  /\ old = [t \in Tx |-> Blank]

Goto(t, s) == stage' = [stage EXCEPT ![t] = s]
Take(x, t) == lock' = [lock EXCEPT ![x] = t]

\* A transaction ends: its locks go, its request is over.
Release(t) == lock' = [x \in Id |-> IF lock[x] = t THEN None ELSE lock[x]]

\* What a request held in its own variables goes with it.
Forget(t) ==
  /\ todo' = [todo EXCEPT ![t] = {}]
  /\ place' = [place EXCEPT ![t] = [x \in Id |-> 0]]
  /\ sent' = [sent EXCEPT ![t] = Blank]
  /\ expected' = [expected EXCEPT ![t] = 0]
  /\ image' = [image EXCEPT ![t] = Blank]

Rollback(t) ==
  /\ Goto(t, "failed")
  /\ Release(t)
  /\ Forget(t)
  /\ raw' = [raw EXCEPT ![t] = Untouched]
  /\ own' = [own EXCEPT ![t] = Blank]
  /\ old' = [old EXCEPT ![t] = Blank]
  /\ UNCHANGED <<row, kind, of>>

\* A batch leaves its rows in audit_log, for an undo.
Commit(t) ==
  LET logged == kind[t] = "batch"
  IN /\ stage[t] = "commit"
     /\ row' = [x \in Id |-> IF x \in Wrote(t) THEN [version |-> row[x].version + 1, cells |-> own[t][x]]
                                               ELSE row[x]]
     /\ Goto(t, "done")
     /\ Release(t)
     /\ Forget(t)
     /\ raw' = [raw EXCEPT ![t] = IF logged THEN @ ELSE Untouched]
     /\ own' = [own EXCEPT ![t] = IF logged THEN @ ELSE Blank]
     /\ old' = [old EXCEPT ![t] = IF logged THEN @ ELSE Blank]
     /\ UNCHANGED <<kind, of>>

-----------------------------------------------------------------------------
(* The card of one object.                                                 *)

\* A client reads rows, and a person changes some of them, in an order of the
\* client's; versions of those in known are sent back.
OpenCard(t, rows, order, change, known) ==
  /\ stage[t] = "new"
  /\ Goto(t, "open")
  /\ kind' = [kind EXCEPT ![t] = "save"]
  /\ raw' = [raw EXCEPT ![t] = [x \in Id |-> IF x \in rows THEN change[x] ELSE Nothing]]
  /\ todo' = [todo EXCEPT ![t] = rows]
  /\ place' = [place EXCEPT ![t] = [x \in Id |-> IF x \in rows THEN order[x] ELSE 0]]
  /\ sent' = [sent EXCEPT ![t] = [x \in Id |-> IF x \in known THEN row[x] ELSE None]]
  /\ UNCHANGED <<row, lock, expected, of, image, own, old>>

\* card_edit_save: the journal reads the rows as they are, without a lock.
Capture(t) ==
  /\ stage[t] = "open" /\ kind[t] = "save"
  /\ Goto(t, "save")
  /\ image' = [image EXCEPT ![t] = [x \in Id |-> IF x \in Asks(t) THEN row[x] ELSE None]]
  /\ UNCHANGED <<row, lock, todo, own, old, asked>>

\* Mutant: the version is the one at the time of the capture.
StaleLate(t, x) == sent[t][x] # None /\ row[x].version # image[t][x].version

Stale(t, x) == sent[t][x] # None /\ row[x].version # sent[t][x].version

\* update_record: the next row is locked, compared with the version the client
\* sent, and its changed columns are written.
SaveRow(t, x) ==
  /\ stage[t] = "save" /\ NextRow(t, x) /\ Free(x, t)
  /\ \/ /\ Stale(t, x)
        /\ Rollback(t)
     \/ /\ ~Stale(t, x)
        /\ Take(x, t)
        /\ todo' = [todo EXCEPT ![t] = @ \ {x}]
        /\ own' = [own EXCEPT ![t][x] = IF Differs(x, raw[t][x]) THEN Changed(row[x].cells, raw[t][x])
                                                                ELSE None]
        /\ old' = [old EXCEPT ![t][x] = row[x].cells]
        /\ Goto(t, IF todo[t] = {x} THEN "commit" ELSE "save")
        /\ UNCHANGED <<row, image, asked>>

-----------------------------------------------------------------------------
(* One change to many rows.                                                *)

\* The place of a row that a batch comes to: plan by plan, in a plan ORDER BY id.
Place(plan, x) == IF plan = 1 THEN ById(x) ELSE NRows + ById(x)

\* The plan of a row that a batch comes to.
Plan(t, x) == IF place[t][x] <= NRows THEN 1 ELSE 2

\* The preview counts the rows that would change. A batch has a plan for each of
\* the two columns of the card (the supply and the return lines) that it changes,
\* in the order in which the client named them: rows, and a change to them.
Preview(t, first, second, one, other) ==
  LET change == [x \in first \cup second |-> IF x \in first THEN one ELSE other]
  IN /\ stage[t] = "new"
     /\ Goto(t, "apply")
     /\ kind' = [kind EXCEPT ![t] = "batch"]
     /\ raw' = [raw EXCEPT ![t] = [x \in Id |-> IF x \in first \cup second THEN change[x] ELSE Nothing]]
     /\ todo' = [todo EXCEPT ![t] = first \cup second]
     /\ place' = [place EXCEPT ![t] = [x \in Id |-> Place(IF x \in second THEN 2 ELSE 1, x)]]
     /\ expected' = [expected EXCEPT ![t] =
                        Cardinality({x \in first \cup second : Differs(x, change[x])})]
     /\ UNCHANGED <<row, lock, sent, of, image, own, old>>

\* apply: FOR UPDATE takes the rows of a plan, and then those of the next.
LockRow(t, x) ==
  /\ stage[t] = "apply" /\ NextRow(t, x) /\ Free(x, t)
  /\ Take(x, t)
  /\ todo' = [todo EXCEPT ![t] = @ \ {x}]
  /\ old' = [old EXCEPT ![t][x] = row[x].cells]
  /\ UNCHANGED <<row, stage, image, own, asked>>

\* With all of them locked their number is compared with the preview's, and
\* those that differ are written.
Apply(t) ==
  LET rows == {x \in Asks(t) : Changed(old[t][x], raw[t][x]) # old[t][x]}
  IN /\ stage[t] = "apply" /\ todo[t] = {}
     /\ \/ /\ Cardinality(rows) # expected[t]
           /\ Rollback(t)
        \/ /\ Cardinality(rows) = expected[t]
           /\ own' = [own EXCEPT ![t] = [x \in Id |-> IF x \in rows THEN Changed(old[t][x], raw[t][x])
                                                                  ELSE None]]
           /\ Goto(t, "commit")
           /\ UNCHANGED <<row, lock, todo, image, old, asked>>

-----------------------------------------------------------------------------
(* The undo of such a change.                                              *)

Undone(b) == \E u \in Tx : stage[u] = "done" /\ kind[u] = "undo" /\ of[u] = b

\* What the change c to cells put in the place of what was there is put back.
Reverted(b, x) == [f \in Field |-> IF raw[b][x][f] = Keep THEN Keep ELSE old[b][x][f]]

\* undo begins: unless the batch has been undone, its rows come from audit_log.
BeginUndo(t, b) ==
  /\ stage[t] = "new"
  /\ stage[b] = "done" /\ kind[b] = "batch" /\ ~Undone(b)
  /\ Goto(t, "compare")
  /\ kind' = [kind EXCEPT ![t] = "undo"]
  /\ of' = [of EXCEPT ![t] = b]
  /\ raw' = [raw EXCEPT ![t] = [x \in Id |-> IF x \in Wrote(b) THEN Reverted(b, x) ELSE Nothing]]
  /\ todo' = [todo EXCEPT ![t] = Wrote(b)]
  /\ place' = [place EXCEPT ![t] = [x \in Id |-> ById(x)]]
  /\ UNCHANGED <<row, lock, sent, expected, image, own, old>>

\* Mutant: the row's present values are not compared with the batch's.
ConflictNever(t, x) == FALSE

Conflict(t, x) == \E f \in Columns(raw[t][x]) : row[x].cells[f] # own[of[t]][x][f]

\* The next row is compared with what the batch wrote, without a lock.
Compare(t, x) ==
  /\ stage[t] = "compare" /\ NextRow(t, x)
  /\ \/ /\ Conflict(t, x)
        /\ todo' = [todo EXCEPT ![t] = @ \ {x}]
        /\ UNCHANGED <<stage, image>>
     \/ /\ ~Conflict(t, x)
        /\ image' = [image EXCEPT ![t][x] = row[x]]
        /\ Goto(t, "restore")
        /\ UNCHANGED todo
  /\ UNCHANGED <<row, lock, own, old, asked>>

\* UPDATE gives its columns the values from before, whatever they hold by now,
\* and audit_log hears that they held the batch's.
Restore(t, x) ==
  /\ stage[t] = "restore" /\ NextRow(t, x) /\ Free(x, t)
  /\ Take(x, t)
  /\ todo' = [todo EXCEPT ![t] = @ \ {x}]
  /\ own' = [own EXCEPT ![t][x] = Changed(row[x].cells, raw[t][x])]
  /\ old' = [old EXCEPT ![t][x] = own[of[t]][x]]
  /\ Goto(t, "compare")
  /\ UNCHANGED <<row, image, asked>>

EndUndo(t) ==
  /\ stage[t] = "compare" /\ todo[t] = {}
  /\ Goto(t, "commit")
  /\ UNCHANGED <<row, lock, todo, image, own, old, asked>>

-----------------------------------------------------------------------------
(* What can end a transaction from outside.                                *)

Running == {"save", "apply", "compare", "restore", "commit"}

\* Transaction t waits for row x, which u holds.
Waits(t, x, u) ==
  /\ stage[t] \in {"save", "apply", "restore"} /\ NextRow(t, x)
  /\ lock[x] = u /\ u # t

\* Transactions that wait for each other in a circle.
Circle(s) == \A t \in s : \E x, y \in Id, u, v \in s : Waits(t, x, u) /\ Waits(v, y, t)

\* The connection is lost, a value is refused, the database breaks a circle.
Fail(t) ==
  /\ stage[t] \in Running
  /\ Rollback(t)

\* The orders in which a card may name rows of a set.
Orders(s) ==
  {q \in [s -> 1 .. Cardinality(s)] : \A x, y \in s : q[x] = q[y] => x = y}

Begin(t) ==
  \/ \E rows \in (SUBSET Id) \ {{}} :
       \E order \in Orders(rows), change \in [rows -> Change], known \in SUBSET rows :
         OpenCard(t, rows, order, change, known)
  \/ \E first \in (SUBSET Id) \ {{}}, one, other \in Change :
       \E second \in SUBSET (Id \ first) : Preview(t, first, second, one, other)
  \/ \E b \in Tx : BeginUndo(t, b)

Advance(t) ==
  \/ Capture(t) \/ Apply(t) \/ EndUndo(t) \/ Commit(t) \/ Fail(t)
  \/ \E x \in Id : SaveRow(t, x) \/ LockRow(t, x) \/ Compare(t, x) \/ Restore(t, x)

Next == \E t \in Tx : Begin(t) \/ Advance(t)

Spec == Init /\ [][Next]_vars

-----------------------------------------------------------------------------

TypeOK ==
  /\ row \in [Id -> Row]
  /\ lock \in [Id -> Tx \cup {None}]
  /\ stage \in [Tx -> Running \cup {"new", "open", "done", "failed"}]
  /\ kind \in [Tx -> {"none", "save", "batch", "undo"}]
  /\ raw \in [Tx -> [Id -> [Field -> Value \cup {Keep}]]]
  /\ todo \in [Tx -> SUBSET Id]
  /\ place \in [Tx -> [Id -> Nat]]
  /\ sent \in [Tx -> [Id -> Row \cup {None}]]
  /\ expected \in [Tx -> Nat]
  /\ of \in [Tx -> Tx \cup {None}]
  /\ image \in [Tx -> [Id -> Row \cup {None}]]
  /\ own \in [Tx -> [Id -> Cells \cup {None}]]
  /\ old \in [Tx -> [Id -> Cells \cup {None}]]

\* Transaction t is about to commit row x, which its client sent the version of.
Saving(t, x) == stage[t] = "commit" /\ x \in Wrote(t) /\ sent[t][x] # None

\* A card whose version of a row was sent overwrites the row its user saw, and
\* no later one, whoever else has saved, set or undone meanwhile.
SavesSeen == \A t \in Tx, x \in Id : Saving(t, x) => row[x] = sent[t][x]

\* The image the journal keeps of such a row is the row that is overwritten,
\* though it was read before the row was locked.
JournalImages == \A t \in Tx, x \in Id : Saving(t, x) => row[x] = image[t][x]

\* What audit_log is told was overwritten is what is: by every save and every
\* batch, and by an undo whose rows have not changed between its comparison of
\* them and its UPDATE.
AuditTrue ==
  \A t \in Tx, x \in Id :
    /\ stage[t] = "commit" /\ x \in Wrote(t)
    /\ kind[t] = "undo" => row[x] = image[t][x]
    => \A f \in Columns(raw[t][x]) : old[t][x][f] = row[x].cells[f]

\* Requests wait for each other in a circle only if one of them has come to its
\* rows against the order of their ids: a card that names them so, or a batch that
\* goes from one plan to the next. Undos and batches of one plan alone never do.
CirclesNeedPlans ==
  \A s \in (SUBSET Tx) \ {{}} : Circle(s) =>
    \E t \in s, x, y \in Id :
      /\ lock[x] = t /\ NextRow(t, y) /\ x > y
      /\ kind[t] = "save" \/ (kind[t] = "batch" /\ Plan(t, x) < Plan(t, y))
=============================================================================
