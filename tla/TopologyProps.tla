---------------------------- MODULE TopologyProps ----------------------------
(***************************************************************************)
(* What the editor and its undo journal are to guarantee.                   *)
(***************************************************************************)
EXTENDS TopologyEditor

(***************************************************************************)
(* The type invariant.                                                      *)
(***************************************************************************)
ImageOk(f) == DOMAIN f \subseteq Key /\ \A k \in DOMAIN f : RowOk(k, f[k])

EntryOk(e) ==
  /\ DOMAIN e = {"actor", "op", "created", "undone", "before", "after", "redo"}
  /\ e.actor \in Actor /\ e.op \in OpName
  /\ e.created \in 1 .. MaxClock /\ e.undone \in 0 .. MaxClock
  /\ ImageOk(e.before) /\ ImageOk(e.after) /\ DOMAIN e.after = DOMAIN e.before
  /\ e.redo # NULL => ImageOk(e.redo) /\ DOMAIN e.redo = DOMAIN e.before

\* Rows, images and counters have the shape the tables give them.
TypeOK ==
  /\ DbOk(db)
  /\ journal \in Seq({journal[i] : i \in DOMAIN journal})
  /\ \A i \in DOMAIN journal : EntryOk(journal[i])
  /\ seq \in [node : 0 .. MaxNode, line : 0 .. MaxLine, card : 0 .. MaxCard]
  /\ clock \in 1 .. MaxClock + 1

(***************************************************************************)
(* The network stays consistent.                                            *)
(***************************************************************************)
\* "so as not to orphan objects silently" (delete_node): no active line is left
\* at a node that was removed, or deleted by an undo.
EndsActive == EndsOk(db)

\* "the ends of the incident lines follow the node" (move_node): wherever its
\* nodes have been moved, merged or put back, an active line ends at them.
LinesFollowNodes == GeometryOk(db)

\* "the passport's length follows the geometry, or the calculation gets a stale
\* one" (move_node): through every operation, undo and redo of any users.
LengthsFollowLines == LengthOk(db)

\* A regulator is moved to the half, or with the node, that it stands at (the
\* NODE rule of a split, the MULTI rule of a merge), and no equipment is left on
\* a half that an undo deletes.
RegulatorsAtEnds == RegulatorsOk(db)

\* "cards of several types at a node are an error of the data" (node_cards).
OneTypePerNode == TypesOk(db)

\* A node has a given pressure, or a make-up, once: set_node_flag refuses a
\* second one.
OneFlagPerNode == FlagsOk(db)

(***************************************************************************)
(* The journal is enough to undo.                                           *)
(***************************************************************************)
\* An operation changes no row that its journal entry has not captured: what it
\* did can be taken back entirely.
JournalCovers ==
  [][Len(journal') > Len(journal) =>
       \A k \in Key : db'[k] # db[k] => k \in DOMAIN journal'[Len(journal')].before]_vars

\* Every row is what the operations that are not undone have made of it, one
\* after the other, each from the row the previous one left: no undo or redo
\* brings back a row over the change of another operation.
LiveOn(k) == {i \in DOMAIN journal : journal[i].undone = 0 /\ k \in DOMAIN journal[i].before}

RowHistory ==
  \A k \in Key :
    LET live == LiveOn(k) IN
    /\ live = {} => db[k] = InitialDb[k]
    /\ \A i \in live :
         /\ (\A j \in live : i <= j) => journal[i].before[k] = InitialDb[k]
         /\ (\A j \in live : j <= i) => journal[i].after[k] = db[k]
         /\ \A j \in live :
              (i < j /\ ~\E m \in live : i < m /\ m < j) => journal[j].before[k] = journal[i].after[k]

\* The journal's columns undone_at and created_at make an undo stack of the
\* operations of each user, whatever the other users do.
OpIds == 1 .. MaxClock
DoneOf(a) == {i \in Mine(a) : journal[i].undone = 0}
RedoOf(a) ==
  {i \in Mine(a) : journal[i].undone # 0 /\ \A j \in Mine(a) : journal[j].created < journal[i].undone}

Stack == INSTANCE UndoStack WITH
           OpId <- OpIds,
           done <- [a \in Actor |-> DoneOf(a)],
           redo <- [a \in Actor |-> RedoOf(a)]

UndoIsAStack == Stack!Spec
=============================================================================
