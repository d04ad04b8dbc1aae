--------------------------- MODULE HistoryProofs ---------------------------
(***************************************************************************)
(* What the history of operations guarantees.                               *)
(*                                                                          *)
(* The journal implements the undo stack (UndoIsAStack).  The code derives  *)
(* the place of an operation from the times undone_at and created_at; the   *)
(* invariant relates these to the ids, by which the stack is ordered.       *)
(* Undoing down to an operation ends where it should (RollbackExact), and   *)
(* each row has been made by the operations that are not undone             *)
(* (RowHistory).                                                            *)
(*                                                                          *)
(* From that, the network stays consistent (second half of the module).     *)
(***************************************************************************)
EXTENDS TopologyProofs, TopologyHistory, WellFoundedInduction

\* An image is not mistaken for no image.
ImagesAreThere == \A d, S : Image(d, S) # NULL

-----------------------------------------------------------------------------

\* Every transaction has a time of its own, and ids grow with the times.
TimesOk ==
  /\ Len(journal) < clock
  /\ \A i \in DOMAIN journal :
       /\ i <= journal[i].created /\ journal[i].created < clock /\ journal[i].undone < clock
       /\ journal[i].undone # 0 => journal[i].created < journal[i].undone /\ journal[i].redo # NULL
  /\ \A i, j \in DOMAIN journal :
       /\ i < j => journal[i].created < journal[j].created
       /\ journal[i].undone # journal[j].created
       /\ i # j /\ journal[i].undone # 0 => journal[i].undone # journal[j].undone

\* What can be redone is after what is done, and was undone from the end.
StackOk ==
  \A a \in Actor : \A i \in RedoOf(a) :
    /\ \A j \in DoneOf(a) : j < i
    /\ \A j \in RedoOf(a) : i < j => journal[j].undone < journal[i].undone

UndoInv == TypeOK /\ TimesOk /\ StackOk

-----------------------------------------------------------------------------
(* What a step does to the journal.                                        *)

Added(a) ==
  \E e : /\ journal' = Append(journal, e)
         /\ e.actor = a /\ e.created = clock /\ e.undone = 0
         /\ \A k \in DOMAIN e.before : e.before[k] = db[k] /\ e.after[k] = db'[k]
         /\ clock <= MaxClock /\ clock' = clock + 1

Rewritten(i, undone) ==
  /\ Len(journal') = Len(journal) /\ DOMAIN journal' = DOMAIN journal
  /\ \A j \in DOMAIN journal : j # i => journal'[j] = journal[j]
  /\ journal'[i].actor = journal[i].actor /\ journal'[i].created = journal[i].created
  /\ journal'[i].undone = undone
  /\ clock' = clock + 1

LEMMA CommitAdds ==
  ASSUME NEW a, NEW op, NEW captured, NEW d, Commit(a, op, captured, d)
  PROVE  Added(a)
<1> DEFINE e == Entry(a, op, captured, d)
<1>1. e.actor = a /\ e.created = clock /\ e.undone = 0
  BY DEF Entry
<1>2. \A k \in DOMAIN e.before : e.before[k] = db[k] /\ e.after[k] = db'[k]
  BY DEF Entry, Image, Commit
<1>3. journal' = Append(journal, e) /\ clock <= MaxClock /\ clock' = clock + 1
  BY DEF Commit
<1> HIDE DEF e
<1> QED BY <1>1, <1>2, <1>3 DEF Added

LEMMA NodeAdds == ASSUME NEW a, EditNode(a) PROVE Added(a)
<1>1. PICK n \in NodeId :
        \/ \E p \in Pos : MoveNode(a, n, p)
        \/ \E cascade \in BOOLEAN : DeleteNode(a, n, cascade)
        \/ \E s \in NodeId : MergeNodes(a, n, s)
        \/ DissolveNode(a, n)
        \/ \E table \in TypeTable \cup {NULL} : ChangeNodeType(a, n, table)
        \/ SetFlag(a, n)
        \/ ClearFlag(a, n)
  BY Zenon DEF EditNode
<1>2. ASSUME NEW p, MoveNode(a, n, p) PROVE Added(a)
  BY <1>2, CommitAdds DEF MoveNode
<1>3. ASSUME NEW cascade, DeleteNode(a, n, cascade) PROVE Added(a)
  BY <1>3, CommitAdds DEF DeleteNode
<1>4. ASSUME NEW s, MergeNodes(a, n, s) PROVE Added(a)
  BY <1>4, CommitAdds DEF MergeNodes
<1>5. CASE DissolveNode(a, n)
  BY <1>5, CommitAdds DEF DissolveNode
<1>6. ASSUME NEW table, ChangeNodeType(a, n, table) PROVE Added(a)
  BY <1>6, CommitAdds DEF ChangeNodeType
<1>7. CASE SetFlag(a, n)
  BY <1>7, CommitAdds DEF SetFlag
<1>8. CASE ClearFlag(a, n)
  BY <1>8, CommitAdds DEF ClearFlag
<1> QED BY <1>1, <1>2, <1>3, <1>4, <1>5, <1>6, <1>7, <1>8, Zenon

LEMMA LineAdds == ASSUME NEW a, EditLine(a) PROVE Added(a)
<1>1. PICK l \in LineId :
        \/ \E pair \in BOOLEAN : DeleteLine(a, l, pair)
        \/ \E pair \in BOOLEAN : ReverseLine(a, l, pair)
        \/ \E via \in {0, 1} : UpdateGeometry(a, l, via)
        \/ Active(db, Line(l)) /\ \E p \in Pos, via1, via2 \in {0, 1}, toNew \in SUBSET Review(db, l) :
              SplitLine(a, l, p, via1, via2, toNew)
  BY Zenon DEF EditLine
<1>2. ASSUME NEW pair, DeleteLine(a, l, pair) PROVE Added(a)
  BY <1>2, CommitAdds DEF DeleteLine
<1>3. ASSUME NEW pair, ReverseLine(a, l, pair) PROVE Added(a)
  BY <1>3, CommitAdds DEF ReverseLine
<1>4. ASSUME NEW via, UpdateGeometry(a, l, via) PROVE Added(a)
  BY <1>4, CommitAdds DEF UpdateGeometry
<1>5. ASSUME NEW p, NEW via1, NEW via2, NEW toNew, SplitLine(a, l, p, via1, via2, toNew)
      PROVE  Added(a)
  BY <1>5, CommitAdds DEF SplitLine
<1> QED BY <1>1, <1>2, <1>3, <1>4, <1>5, Zenon

LEMMA CreateAdds == ASSUME NEW a, Create(a) PROVE Added(a)
<1>1. ASSUME NEW p, NEW table, CreateNode(a, p, table) PROVE Added(a)
  BY <1>1, CommitAdds DEF CreateNode
<1>2. ASSUME NEW x, NEW y, CreateLine(a, x, y) PROVE Added(a)
  BY <1>2, CommitAdds DEF CreateLine
<1> QED BY <1>1, <1>2, Zenon DEF Create

LEMMA UndoRewrites ==
  ASSUME TypeOK, NEW a, Undo(a)
  PROVE  /\ clock <= MaxClock
         /\ \E i \in Undoable(a) : Rewritten(i, clock) /\ journal'[i].redo = Image(db, DOMAIN journal[i].after)
<1>1. PICK i \in Undoable(a) :
        journal' = [journal EXCEPT ![i].undone = clock, ![i].redo = Image(db, DOMAIN journal[i].after)]
  BY DEF Undo
<1>2. i \in DOMAIN journal /\ EntryOk(journal[i])
  BY DEF Undoable, Mine, TypeOK
<1>3. clock <= MaxClock /\ clock' = clock + 1
  BY DEF Undo
<1> DEFINE e == [journal[i] EXCEPT !.undone = clock, !.redo = Image(db, DOMAIN journal[i].after)]
<1>4. journal' = [journal EXCEPT ![i] = e]
  BY <1>1, <1>2
<1>5. /\ e.actor = journal[i].actor /\ e.created = journal[i].created
      /\ e.undone = clock /\ e.redo = Image(db, DOMAIN journal[i].after)
  BY <1>2 DEF EntryOk
<1> HIDE DEF e
<1>6. Len(journal') = Len(journal)
  BY <1>2, <1>4, EntryReplaced DEF TypeOK
<1> QED BY <1>2, <1>3, <1>4, <1>5, <1>6 DEF Rewritten

LEMMA RedoRewrites ==
  ASSUME TypeOK, NEW a, Redo(a)
  PROVE  clock <= MaxClock /\ \E i \in Redoable(a) : Rewritten(i, 0)
<1>1. PICK i \in Redoable(a) : journal' = [journal EXCEPT ![i].undone = 0]
  BY DEF Redo
<1>2. i \in DOMAIN journal /\ EntryOk(journal[i])
  BY DEF Redoable, Reopened, Mine, TypeOK
<1>3. clock <= MaxClock /\ clock' = clock + 1
  BY DEF Redo
<1> DEFINE e == [journal[i] EXCEPT !.undone = 0]
<1>4. journal' = [journal EXCEPT ![i] = e]
  BY <1>1, <1>2
<1>5. e.actor = journal[i].actor /\ e.created = journal[i].created /\ e.undone = 0
  BY <1>2 DEF EntryOk
<1> HIDE DEF e
<1>6. Len(journal') = Len(journal)
  BY <1>2, <1>4, EntryReplaced DEF TypeOK
<1> QED BY <1>2, <1>3, <1>4, <1>5, <1>6 DEF Rewritten

\* The entry keeps its images.
ImagesKept(i) == journal'[i].before = journal[i].before /\ journal'[i].after = journal[i].after

LEMMA UndoRestores ==
  ASSUME TypeOK, NEW a, Undo(a)
  PROVE  \E i \in Undoable(a) :
           /\ Rewritten(i, clock) /\ ImagesKept(i)
           /\ \A k \in DOMAIN journal[i].before :
                /\ k \in Key /\ db[k] = journal[i].after[k]
                /\ journal'[i].redo[k] = db[k] /\ db'[k] = journal[i].before[k]
           /\ \A k \in Key \ DOMAIN journal[i].before : db'[k] = db[k]
<1>1. PICK i \in Undoable(a) :
        /\ Unchanged(journal[i].after)
        /\ journal' = [journal EXCEPT ![i].undone = clock, ![i].redo = Image(db, DOMAIN journal[i].after)]
        /\ db' = Restore(db, journal[i].before)
  BY DEF Undo
<1>2. i \in DOMAIN journal /\ EntryOk(journal[i])
  BY DEF Undoable, Mine, TypeOK
<1>3. clock' = clock + 1
  BY DEF Undo
<1> DEFINE e == [journal[i] EXCEPT !.undone = clock, !.redo = Image(db, DOMAIN journal[i].after)]
<1>4. journal' = [journal EXCEPT ![i] = e]
  BY <1>1, <1>2
<1>5. /\ e.actor = journal[i].actor /\ e.created = journal[i].created
      /\ e.undone = clock /\ e.redo = Image(db, DOMAIN journal[i].after)
      /\ e.before = journal[i].before /\ e.after = journal[i].after
  BY <1>2 DEF EntryOk
<1> HIDE DEF e
<1>6. Len(journal') = Len(journal) /\ journal'[i] = e
  BY <1>2, <1>4, EntryReplaced DEF TypeOK
<1>7. Rewritten(i, clock) /\ ImagesKept(i)
  BY <1>2, <1>3, <1>4, <1>5, <1>6 DEF Rewritten, ImagesKept
<1>8. DOMAIN journal[i].after = DOMAIN journal[i].before /\ DOMAIN journal[i].before \subseteq Key
  BY <1>2 DEF EntryOk, ImageOk
<1>9. \A k \in DOMAIN journal[i].before :
        /\ k \in Key /\ db[k] = journal[i].after[k]
        /\ journal'[i].redo[k] = db[k] /\ db'[k] = journal[i].before[k]
  BY <1>1, <1>5, <1>6, <1>8 DEF Unchanged, Image, Restore, Update
<1>10. \A k \in Key \ DOMAIN journal[i].before : db'[k] = db[k]
  BY <1>1 DEF Restore, Update
<1> QED BY <1>7, <1>9, <1>10

LEMMA RedoRestores ==
  ASSUME TypeOK, NEW a, Redo(a)
  PROVE  \E i \in Redoable(a) :
           /\ Rewritten(i, 0) /\ ImagesKept(i) /\ journal'[i].redo = journal[i].redo
           /\ \A k \in DOMAIN journal[i].before :
                k \in Key /\ db[k] = journal[i].before[k] /\ db'[k] = journal[i].redo[k]
           /\ \A k \in Key \ DOMAIN journal[i].before : db'[k] = db[k]
<1>1. PICK i \in Redoable(a) :
        /\ Unchanged(journal[i].before)
        /\ journal' = [journal EXCEPT ![i].undone = 0]
        /\ db' = Restore(db, journal[i].redo)
  BY DEF Redo
<1>2. i \in DOMAIN journal /\ EntryOk(journal[i]) /\ journal[i].redo # NULL
  BY DEF Redoable, Reopened, Mine, TypeOK
<1>3. clock' = clock + 1
  BY DEF Redo
<1> DEFINE e == [journal[i] EXCEPT !.undone = 0]
<1>4. journal' = [journal EXCEPT ![i] = e]
  BY <1>1, <1>2
<1>5. /\ e.actor = journal[i].actor /\ e.created = journal[i].created /\ e.undone = 0
      /\ e.before = journal[i].before /\ e.after = journal[i].after /\ e.redo = journal[i].redo
  BY <1>2 DEF EntryOk
<1> HIDE DEF e
<1>6. Len(journal') = Len(journal) /\ journal'[i] = e
  BY <1>2, <1>4, EntryReplaced DEF TypeOK
<1>7. Rewritten(i, 0) /\ ImagesKept(i) /\ journal'[i].redo = journal[i].redo
  BY <1>2, <1>3, <1>4, <1>5, <1>6 DEF Rewritten, ImagesKept
<1>8. DOMAIN journal[i].redo = DOMAIN journal[i].before /\ DOMAIN journal[i].before \subseteq Key
  BY <1>2 DEF EntryOk, ImageOk
<1>9. \A k \in DOMAIN journal[i].before :
        k \in Key /\ db[k] = journal[i].before[k] /\ db'[k] = journal[i].redo[k]
  BY <1>1, <1>8 DEF Unchanged, Restore, Update
<1>10. \A k \in Key \ DOMAIN journal[i].before : db'[k] = db[k]
  BY <1>1, <1>8 DEF Restore, Update
<1> QED BY <1>7, <1>9, <1>10

LEMMA JournalTypes ==
  ASSUME TypeOK
  PROVE  /\ Len(journal) \in Nat /\ DOMAIN journal = 1 .. Len(journal)
         /\ \A i \in DOMAIN journal : journal[i].created \in Nat /\ journal[i].undone \in Nat
         /\ clock \in Nat
<1>1. Len(journal) \in Nat /\ DOMAIN journal = 1 .. Len(journal)
  BY DEF TypeOK
<1>2. \A i \in DOMAIN journal : journal[i].created \in Nat /\ journal[i].undone \in Nat
  BY BoundsAssumption DEF TypeOK, EntryOk
<1>3. clock \in Nat
  BY BoundsAssumption DEF TypeOK
<1> QED BY <1>1, <1>2, <1>3

-----------------------------------------------------------------------------
(* A new operation.                                                        *)

\* The stacks of the other users are as they were.
OthersKeep(a) == \A b \in Actor \ {a} : DoneOf(b)' = DoneOf(b) /\ RedoOf(b)' = RedoOf(b)

LEMMA AddedRows ==
  ASSUME TypeOK, NEW a, Added(a)
  PROVE  LET n == Len(journal) + 1 IN
         /\ Len(journal') = n /\ DOMAIN journal' = DOMAIN journal \cup {n} /\ n \notin DOMAIN journal
         /\ \A i \in DOMAIN journal : journal'[i] = journal[i] /\ i < n
         /\ journal'[n].actor = a /\ journal'[n].created = clock /\ journal'[n].undone = 0
         /\ \A k \in DOMAIN journal'[n].before :
              journal'[n].before[k] = db[k] /\ journal'[n].after[k] = db'[k]
         /\ clock <= MaxClock /\ clock' = clock + 1
<1>1. journal \in Seq({journal[i] : i \in DOMAIN journal})
  BY DEF TypeOK
<1> QED BY <1>1, JournalAppend, JournalTypes DEF Added

LEMMA AddedTimes == ASSUME UndoInv, NEW a, Added(a) PROVE TimesOk'
<1> DEFINE n == Len(journal) + 1
<1>1. /\ Len(journal') = n /\ DOMAIN journal' = DOMAIN journal \cup {n} /\ n \notin DOMAIN journal
      /\ \A i \in DOMAIN journal : journal'[i] = journal[i] /\ i < n
      /\ journal'[n].created = clock /\ journal'[n].undone = 0
      /\ clock' = clock + 1
  BY AddedRows DEF UndoInv
<1>2. /\ n \in Nat /\ clock \in Nat /\ n <= clock /\ DOMAIN journal \subseteq Nat
      /\ \A i \in DOMAIN journal : journal[i].created \in Nat /\ journal[i].undone \in Nat
  BY JournalTypes DEF UndoInv, TimesOk
<1> HIDE DEF n
<1>3. Len(journal') < clock'
  BY <1>1, <1>2
<1>4. \A i \in DOMAIN journal' :
        /\ i <= journal'[i].created /\ journal'[i].created < clock' /\ journal'[i].undone < clock'
        /\ journal'[i].undone # 0 => journal'[i].created < journal'[i].undone /\ journal'[i].redo # NULL
  BY <1>1, <1>2 DEF UndoInv, TimesOk
<1>5. \A i, j \in DOMAIN journal' :
        /\ i < j => journal'[i].created < journal'[j].created
        /\ journal'[i].undone # journal'[j].created
        /\ i # j /\ journal'[i].undone # 0 => journal'[i].undone # journal'[j].undone
  BY <1>1, <1>2 DEF UndoInv, TimesOk
<1> QED BY <1>3, <1>4, <1>5 DEF TimesOk

LEMMA AddedSets ==
  ASSUME UndoInv, NEW a \in Actor, Added(a)
  PROVE  LET n == Len(journal) + 1 IN
         /\ n \in OpIds /\ \A j \in DoneOf(a) \cup RedoOf(a) : j < n
         /\ DoneOf(a)' = DoneOf(a) \cup {n} /\ RedoOf(a)' = {}
         /\ OthersKeep(a)
<1> DEFINE n == Len(journal) + 1
<1>1. /\ DOMAIN journal' = DOMAIN journal \cup {n} /\ n \notin DOMAIN journal
      /\ \A i \in DOMAIN journal : journal'[i] = journal[i] /\ i < n
      /\ journal'[n].actor = a /\ journal'[n].created = clock /\ journal'[n].undone = 0
      /\ clock <= MaxClock
  BY AddedRows DEF UndoInv
<1>2. /\ n \in Nat /\ n # 0 /\ clock \in Nat /\ n <= clock /\ DOMAIN journal \subseteq Nat
      /\ \A i \in DOMAIN journal : journal[i].created \in Nat /\ journal[i].undone \in Nat
  BY JournalTypes DEF UndoInv, TimesOk
<1>3. n \in OpIds
  BY <1>1, <1>2, BoundsAssumption DEF OpIds
<1> HIDE DEF n
<1>4. Mine(a)' = Mine(a) \cup {n} /\ \A b \in Actor \ {a} : Mine(b)' = Mine(b)
  BY <1>1 DEF Mine
<1>5. \A j \in DoneOf(a) \cup RedoOf(a) : j < n
  BY <1>1 DEF DoneOf, RedoOf, Mine
<1>6. DoneOf(a)' = DoneOf(a) \cup {n}
  BY <1>1, <1>4 DEF DoneOf, Mine
<1>7. RedoOf(a)' = {}
  <2> SUFFICES ASSUME NEW i \in RedoOf(a)' PROVE FALSE
    OBVIOUS
  <2>1. i \in DOMAIN journal /\ journal'[i].undone = journal[i].undone
    BY <1>1, <1>4 DEF RedoOf, Mine
  <2>2. journal'[n].created < journal'[i].undone
    BY <1>4 DEF RedoOf
  <2> QED BY <2>1, <2>2, <1>1, <1>2 DEF UndoInv, TimesOk
<1>8. ASSUME NEW b \in Actor \ {a} PROVE DoneOf(b)' = DoneOf(b) /\ RedoOf(b)' = RedoOf(b)
  <2>1. Mine(b)' = Mine(b) /\ \A i \in Mine(b) : journal'[i] = journal[i]
    BY <1>1, <1>4 DEF Mine
  <2> QED BY <2>1 DEF DoneOf, RedoOf
<1> QED BY <1>3, <1>5, <1>6, <1>7, <1>8 DEF n, OthersKeep

LEMMA AddedKeeps == ASSUME UndoInv, NEW a \in Actor, Added(a) PROVE StackOk'
<1>1. RedoOf(a)' = {} /\ OthersKeep(a)
  BY AddedSets
<1>2. \A i \in DOMAIN journal : journal'[i] = journal[i]
  BY AddedRows DEF UndoInv
<1>3. \A b \in Actor : RedoOf(b) \subseteq DOMAIN journal
  BY DEF RedoOf, Mine
<1>4. ASSUME NEW b \in Actor, NEW i \in RedoOf(b)'
      PROVE  /\ \A j \in DoneOf(b)' : j < i
             /\ \A j \in RedoOf(b)' : i < j => journal'[j].undone < journal'[i].undone
  BY <1>1, <1>2, <1>3, <1>4 DEF OthersKeep, UndoInv, StackOk
<1> QED BY <1>4 DEF StackOk

-----------------------------------------------------------------------------
(* Undo and redo.                                                          *)

LEMMA RewrittenOthers ==
  ASSUME NEW a \in Actor, NEW i \in Mine(a), NEW t, Rewritten(i, t)
  PROVE  OthersKeep(a) /\ Mine(a)' = Mine(a)
<1>1. Mine(a)' = Mine(a)
  BY DEF Mine, Rewritten
<1>2. ASSUME NEW b \in Actor \ {a} PROVE DoneOf(b)' = DoneOf(b) /\ RedoOf(b)' = RedoOf(b)
  <2>1. Mine(b)' = Mine(b) /\ \A j \in Mine(b) : journal'[j] = journal[j]
    BY DEF Mine, Rewritten
  <2> QED BY <2>1 DEF DoneOf, RedoOf
<1> QED BY <1>1, <1>2 DEF OthersKeep

LEMMA UndoneTimes ==
  ASSUME UndoInv, NEW i \in DOMAIN journal, NEW t, t \in {0, clock}, Rewritten(i, t),
         t # 0 => journal'[i].redo # NULL
  PROVE  TimesOk'
<1>1. /\ Len(journal) \in Nat /\ clock \in Nat /\ DOMAIN journal \subseteq Nat
      /\ \A j \in DOMAIN journal : journal[j].created \in Nat /\ journal[j].undone \in Nat
  BY JournalTypes DEF UndoInv
<1>2. \A j \in DOMAIN journal : journal'[j].created = journal[j].created
  BY DEF Rewritten
<1>3. \A j \in DOMAIN journal : j # i => journal'[j] = journal[j]
  BY DEF Rewritten
<1>4. DOMAIN journal' = DOMAIN journal /\ journal'[i].undone = t /\ clock' = clock + 1
  BY DEF Rewritten
<1>5. \A j \in DOMAIN journal' :
        /\ j <= journal'[j].created /\ journal'[j].created < clock' /\ journal'[j].undone < clock'
        /\ journal'[j].undone # 0 => journal'[j].created < journal'[j].undone /\ journal'[j].redo # NULL
  BY <1>1, <1>2, <1>3, <1>4 DEF UndoInv, TimesOk
<1>6. \A j, k \in DOMAIN journal' :
        /\ j < k => journal'[j].created < journal'[k].created
        /\ journal'[j].undone # journal'[k].created
        /\ j # k /\ journal'[j].undone # 0 => journal'[j].undone # journal'[k].undone
  <2> SUFFICES ASSUME NEW j \in DOMAIN journal, NEW k \in DOMAIN journal
               PROVE  /\ j < k => journal'[j].created < journal'[k].created
                      /\ journal'[j].undone # journal'[k].created
                      /\ j # k /\ journal'[j].undone # 0 => journal'[j].undone # journal'[k].undone
    BY <1>4
  <2>1. journal[j].created < clock /\ journal[k].created < clock /\ 1 <= k /\ k <= journal[k].created
        /\ journal[j].undone < clock /\ journal[k].undone < clock
    BY JournalTypes DEF UndoInv, TimesOk
  <2> QED BY <2>1, <1>1, <1>2, <1>3, <1>4 DEF UndoInv, TimesOk
<1>7. Len(journal') < clock'
  BY <1>1, <1>4 DEF UndoInv, TimesOk, Rewritten
<1> QED BY <1>1, <1>4, <1>5, <1>6, <1>7 DEF TimesOk

LEMMA UndoneSets ==
  ASSUME UndoInv, NEW a \in Actor, NEW i \in Undoable(a), Rewritten(i, clock)
  PROVE  /\ i \in DoneOf(a) /\ \A j \in DoneOf(a) : j <= i
         /\ DoneOf(a)' = DoneOf(a) \ {i} /\ RedoOf(a)' = RedoOf(a) \cup {i}
<1>1. i \in Mine(a) /\ i \in DoneOf(a) /\ \A j \in DoneOf(a) : j <= i
  BY DEF Undoable, DoneOf
<1>2. Mine(a)' = Mine(a)
  BY <1>1, RewrittenOthers
<1>3. /\ \A j \in Mine(a) : j # i => journal'[j] = journal[j]
      /\ \A j \in Mine(a) : journal'[j].created = journal[j].created
      /\ journal'[i].undone = clock
  BY DEF Rewritten, Mine
<1>4. clock # 0 /\ \A j \in Mine(a) : journal[j].created < clock
  BY JournalTypes DEF UndoInv, TimesOk, Mine, TypeOK
<1>5. DoneOf(a)' = DoneOf(a) \ {i}
  BY <1>1, <1>2, <1>3, <1>4 DEF DoneOf
<1>6. RedoOf(a)' = RedoOf(a) \cup {i}
  BY <1>1, <1>2, <1>3, <1>4 DEF RedoOf, DoneOf
<1> QED BY <1>1, <1>5, <1>6

LEMMA UndoneKeeps ==
  ASSUME UndoInv, NEW a \in Actor, NEW i \in Undoable(a), Rewritten(i, clock)
  PROVE  StackOk'
<1>1. /\ i \in DoneOf(a) /\ \A j \in DoneOf(a) : j <= i
      /\ DoneOf(a)' = DoneOf(a) \ {i} /\ RedoOf(a)' = RedoOf(a) \cup {i}
  BY UndoneSets
<1>2. i \in Mine(a) /\ OthersKeep(a)
  BY RewrittenOthers DEF Undoable
<1>3. /\ \A j \in DOMAIN journal : j # i => journal'[j] = journal[j]
      /\ journal'[i].undone = clock
  BY DEF Rewritten
<1>4. \A b \in Actor : DoneOf(b) \subseteq DOMAIN journal /\ RedoOf(b) \subseteq DOMAIN journal
  BY DEF DoneOf, RedoOf, Mine
<1>5. /\ DOMAIN journal \subseteq Nat /\ clock \in Nat
      /\ \A j \in DOMAIN journal : journal[j].undone \in Nat /\ journal[j].undone < clock
  BY JournalTypes DEF UndoInv, TimesOk
<1>6. i \notin RedoOf(a)
  BY <1>1 DEF DoneOf, RedoOf
<1>7. ASSUME NEW k \in RedoOf(a)'
      PROVE  /\ \A j \in DoneOf(a)' : j < k
             /\ \A j \in RedoOf(a)' : k < j => journal'[j].undone < journal'[k].undone
  <2>1. CASE k = i
    <3>1. \A j \in DoneOf(a)' : j < k
      BY <2>1, <1>1, <1>4, <1>5
    <3>2. \A j \in RedoOf(a)' : k < j => journal'[j].undone < journal'[k].undone
      BY <2>1, <1>1, <1>3, <1>4, <1>5
    <3> QED BY <3>1, <3>2
  <2>2. CASE k # i
    <3>1. k \in RedoOf(a) /\ i < k /\ journal'[k] = journal[k]
      BY <2>2, <1>1, <1>3, <1>4 DEF UndoInv, StackOk
    <3>2. \A j \in DoneOf(a)' : j < k
      BY <3>1, <1>1 DEF UndoInv, StackOk
    <3>3. \A j \in RedoOf(a)' : k < j => journal'[j].undone < journal'[k].undone
      BY <3>1, <1>1, <1>3, <1>4, <1>5 DEF UndoInv, StackOk
    <3> QED BY <3>2, <3>3
  <2> QED BY <2>1, <2>2
<1>8. ASSUME NEW b \in Actor \ {a}, NEW k \in RedoOf(b)'
      PROVE  /\ \A j \in DoneOf(b)' : j < k
             /\ \A j \in RedoOf(b)' : k < j => journal'[j].undone < journal'[k].undone
  <2>1. i \notin RedoOf(b)
    BY <1>2, <1>8 DEF RedoOf, Mine
  <2> QED BY <2>1, <1>2, <1>3, <1>4, <1>8 DEF OthersKeep, UndoInv, StackOk
<1> QED BY <1>7, <1>8 DEF StackOk

\* What the code takes for the next redo is the least of the operations undone
\* since the last new one.
LEMMA RedoneIsNext ==
  ASSUME UndoInv, NEW a, NEW i \in Redoable(a)
  PROVE  i \in RedoOf(a) /\ \A j \in RedoOf(a) : journal[j].undone <= journal[i].undone
<1>1. /\ \A j \in Mine(a) : journal[j].created \in Nat /\ journal[j].undone \in Nat
      /\ \A j, k \in Mine(a) : journal[j].undone # journal[k].created
      /\ \A j \in Mine(a) : journal[j].undone # 0 =>
                             journal[j].created < journal[j].undone /\ journal[j].redo # NULL
  BY JournalTypes DEF UndoInv, TimesOk, Mine
<1>2. /\ i \in Mine(a) /\ journal[i].undone # 0
      /\ \A m \in Mine(a) : journal[m].undone = 0 => ~(journal[m].created > journal[i].undone)
      /\ \A j \in Reopened(a) : journal[j].undone <= journal[i].undone
  BY DEF Redoable, Reopened
<1>3. ASSUME NEW k \in Mine(a) PROVE journal[k].created < journal[i].undone
  <2> SUFFICES ASSUME journal[k].created > journal[i].undone PROVE FALSE
    BY <1>1, <1>2, <1>3
  <2>1. journal[k].undone # 0 /\ journal[k].undone > journal[i].undone
    BY <1>1, <1>2, <1>3
  <2>2. k \in Reopened(a)
    <3>1. \A m \in Mine(a) : journal[m].undone = 0 => ~(journal[m].created > journal[k].undone)
      BY <2>1, <1>1, <1>2, <1>3
    <3> QED BY <2>1, <3>1, <1>1, <1>3 DEF Reopened
  <2> QED BY <2>1, <2>2, <1>1, <1>2, <1>3
<1>4. i \in RedoOf(a)
  BY <1>2, <1>3 DEF RedoOf
<1>5. RedoOf(a) \subseteq Reopened(a)
  <2> SUFFICES ASSUME NEW j \in RedoOf(a) PROVE j \in Reopened(a)
    OBVIOUS
  <2>1. j \in Mine(a) /\ journal[j].undone # 0 /\ \A m \in Mine(a) : journal[m].created < journal[j].undone
    BY DEF RedoOf
  <2> QED BY <2>1, <1>1 DEF Reopened
<1> QED BY <1>2, <1>4, <1>5

LEMMA RedoneSets ==
  ASSUME UndoInv, NEW a \in Actor, NEW i \in Redoable(a), Rewritten(i, 0)
  PROVE  /\ i \in RedoOf(a) /\ \A j \in RedoOf(a) : i <= j
         /\ DoneOf(a)' = DoneOf(a) \cup {i} /\ RedoOf(a)' = RedoOf(a) \ {i}
<1>1. i \in RedoOf(a) /\ i \in Mine(a) /\ \A j \in RedoOf(a) : journal[j].undone <= journal[i].undone
  BY RedoneIsNext DEF RedoOf
<1>2. Mine(a)' = Mine(a)
  BY <1>1, RewrittenOthers
<1>3. /\ \A j \in Mine(a) : j # i => journal'[j] = journal[j]
      /\ \A j \in Mine(a) : journal'[j].created = journal[j].created
      /\ journal'[i].undone = 0
  BY DEF Rewritten, Mine
<1>4. \A j \in Mine(a) : j \in Nat /\ journal[j].undone \in Nat
  BY JournalTypes DEF UndoInv, Mine
<1>5. ASSUME NEW j \in RedoOf(a) PROVE i <= j
  <2>1. j < i => journal[i].undone < journal[j].undone
    BY <1>1, <1>5 DEF UndoInv, StackOk
  <2> QED BY <2>1, <1>1, <1>4, <1>5 DEF RedoOf
<1>6. DoneOf(a)' = DoneOf(a) \cup {i}
  BY <1>1, <1>2, <1>3 DEF DoneOf
<1>7. RedoOf(a)' = RedoOf(a) \ {i}
  BY <1>1, <1>2, <1>3 DEF RedoOf
<1> QED BY <1>1, <1>5, <1>6, <1>7

LEMMA RedoneKeeps ==
  ASSUME UndoInv, NEW a \in Actor, NEW i \in Redoable(a), Rewritten(i, 0)
  PROVE  StackOk'
<1>1. /\ i \in RedoOf(a) /\ \A j \in RedoOf(a) : i <= j
      /\ DoneOf(a)' = DoneOf(a) \cup {i} /\ RedoOf(a)' = RedoOf(a) \ {i}
  BY RedoneSets
<1>2. i \in Mine(a) /\ OthersKeep(a)
  BY <1>1, RewrittenOthers DEF RedoOf
<1>3. \A j \in DOMAIN journal : j # i => journal'[j] = journal[j]
  BY DEF Rewritten
<1>4. /\ \A b \in Actor : DoneOf(b) \subseteq DOMAIN journal /\ RedoOf(b) \subseteq DOMAIN journal
      /\ DOMAIN journal \subseteq Nat
  BY JournalTypes DEF DoneOf, RedoOf, Mine, UndoInv
<1>5. ASSUME NEW k \in RedoOf(a)'
      PROVE  /\ \A j \in DoneOf(a)' : j < k
             /\ \A j \in RedoOf(a)' : k < j => journal'[j].undone < journal'[k].undone
  <2>1. k \in RedoOf(a) /\ k # i /\ i < k
    BY <1>1, <1>4, <1>5
  <2>2. \A j \in RedoOf(a)' : j \in RedoOf(a) /\ journal'[j] = journal[j]
    BY <1>1, <1>3, <1>4
  <2> QED BY <2>1, <2>2, <1>1 DEF UndoInv, StackOk
<1>6. ASSUME NEW b \in Actor \ {a}, NEW k \in RedoOf(b)'
      PROVE  /\ \A j \in DoneOf(b)' : j < k
             /\ \A j \in RedoOf(b)' : k < j => journal'[j].undone < journal'[k].undone
  <2>1. i \notin RedoOf(b)
    BY <1>2, <1>6 DEF RedoOf, Mine
  <2> QED BY <2>1, <1>2, <1>3, <1>4, <1>6 DEF OthersKeep, UndoInv, StackOk
<1> QED BY <1>5, <1>6 DEF StackOk

-----------------------------------------------------------------------------
(* The refinement.                                                         *)

LEMMA UndoInit == ASSUME Init PROVE TimesOk /\ StackOk /\ Stack!Init
<1>1. journal = <<>> /\ clock = 1
  BY DEF Init
<1>2. \A a \in Actor : DoneOf(a) = {} /\ RedoOf(a) = {}
  BY <1>1 DEF DoneOf, RedoOf, Mine
<1>3. TimesOk
  BY <1>1 DEF TimesOk
<1> QED BY <1>2, <1>3 DEF StackOk, Stack!Init

\* The steps of the journal are those of the stack.
LEMMA StepOnStack ==
  ASSUME UndoInv, ImagesAreThere, Next
  PROVE  TimesOk' /\ StackOk' /\ Stack!Next
<1> DEFINE done == [a \in Actor |-> DoneOf(a)]
           redo == [a \in Actor |-> RedoOf(a)]
<1>1. ASSUME NEW a \in Actor, Added(a) PROVE TimesOk' /\ StackOk' /\ Stack!Next
  <2> DEFINE n == Len(journal) + 1
  <2>1. /\ n \in OpIds /\ \A j \in DoneOf(a) \cup RedoOf(a) : j < n
        /\ DoneOf(a)' = DoneOf(a) \cup {n} /\ RedoOf(a)' = {}
        /\ OthersKeep(a)
    BY <1>1, AddedSets
  <2> HIDE DEF n
  <2>2. Stack!Do(a, n)
    BY <2>1 DEF Stack!Do, OthersKeep
  <2>3. Stack!Next
    BY <2>1, <2>2 DEF Stack!Next
  <2> QED BY <1>1, <2>3, AddedTimes, AddedKeeps
<1>2. ASSUME NEW a \in Actor, Undo(a) PROVE TimesOk' /\ StackOk' /\ Stack!Next
  <2>1. PICK i \in Undoable(a) : Rewritten(i, clock) /\ journal'[i].redo # NULL
    BY <1>2, UndoRewrites DEF ImagesAreThere, UndoInv
  <2>2. i \in Mine(a) /\ i \in DOMAIN journal
    BY DEF Undoable, Mine
  <2>3. /\ i \in DoneOf(a) /\ \A j \in DoneOf(a) : j <= i
        /\ DoneOf(a)' = DoneOf(a) \ {i} /\ RedoOf(a)' = RedoOf(a) \cup {i}
        /\ OthersKeep(a)
    BY <2>1, <2>2, UndoneSets, RewrittenOthers
  <2>4. Stack!Undo(a, i)
    BY <2>3 DEF Stack!Undo, OthersKeep
  <2>5. i \in OpIds
    BY <2>2, JournalTypes, BoundsAssumption DEF OpIds, UndoInv, TimesOk, TypeOK
  <2>6. Stack!Next
    BY <2>4, <2>5 DEF Stack!Next
  <2> QED BY <2>1, <2>2, <2>6, UndoneTimes, UndoneKeeps
<1>3. ASSUME NEW a \in Actor, Redo(a) PROVE TimesOk' /\ StackOk' /\ Stack!Next
  <2>1. PICK i \in Redoable(a) : Rewritten(i, 0)
    BY <1>3, RedoRewrites DEF UndoInv
  <2>2. i \in Mine(a) /\ i \in DOMAIN journal
    BY DEF Redoable, Reopened, Mine
  <2>3. /\ i \in RedoOf(a) /\ \A j \in RedoOf(a) : i <= j
        /\ DoneOf(a)' = DoneOf(a) \cup {i} /\ RedoOf(a)' = RedoOf(a) \ {i}
        /\ OthersKeep(a)
    BY <2>1, <2>2, RedoneSets, RewrittenOthers
  <2>4. Stack!Redo(a, i)
    BY <2>3 DEF Stack!Redo, OthersKeep
  <2>5. i \in OpIds
    BY <2>2, JournalTypes, BoundsAssumption DEF OpIds, UndoInv, TimesOk, TypeOK
  <2>6. Stack!Next
    BY <2>4, <2>5 DEF Stack!Next
  <2>7. TimesOk'
    BY <2>1, <2>2, UndoneTimes
  <2> QED BY <2>1, <2>6, <2>7, RedoneKeeps
<1> QED BY <1>1, <1>2, <1>3, NodeAdds, LineAdds, CreateAdds DEF Next

LEMMA StutterOnStack ==
  ASSUME UndoInv, UNCHANGED vars
  PROVE  TimesOk' /\ StackOk' /\ UNCHANGED Stack!vars
<1>1. UNCHANGED <<journal, clock>>
  BY DEF vars
<1> QED BY <1>1 DEF UndoInv, TimesOk, StackOk, DoneOf, RedoOf, Mine, Stack!vars

\* Whatever the users do and however their undos and redos meet, the journal is
\* a stack of undo for each of them (UndoIsAStack): the operation that undo takes
\* (the last one not undone) and the one that redo takes (_REDO_CANDIDATE_SQL,
\* by the times undone_at and created_at) are the ones next to the cursor.
THEOREM JournalIsAStack == ASSUME ImagesAreThere PROVE Spec => UndoIsAStack
<1>1. Init => TimesOk /\ StackOk /\ Stack!Init
  BY UndoInit
<1>2. TypeOK /\ TimesOk /\ StackOk /\ [Next]_vars
        => TimesOk' /\ StackOk' /\ [Stack!Next]_(Stack!vars)
  BY StepOnStack, StutterOnStack, ImagesAreThere DEF UndoInv
<1> QED BY <1>1, <1>2, TypeCorrect, PTL DEF Spec, UndoIsAStack, Stack!Spec

(***************************************************************************)
(* Undoing down to an operation (RollbackExact).                            *)
(***************************************************************************)
Request == [target : Nat, undone : SUBSET Nat, left : Int]

\* A request that goes on has undone nothing but what is after its target.
RollbackInv ==
  /\ rollback \in [Actor -> Request]
  /\ \A a \in Actor : Rolling(a) => \A i \in rollback[a].undone : rollback[a].target < i

LEMMA NextRequest ==
  ASSUME NEW q \in Request, NEW i \in Nat
  PROVE  [q EXCEPT !.undone = @ \cup {i}, !.left = @ - 1] \in Request
<1>1. \A p \in Request, u \in SUBSET Nat : [p EXCEPT !.undone = u] \in Request
  BY DEF Request
<1>2. \A p \in Request, n \in Int : [p EXCEPT !.left = n] \in Request
  BY DEF Request
<1>3. q.undone \cup {i} \in SUBSET Nat /\ q.left - 1 \in Int
  BY DEF Request
<1> HIDE DEF Request
<1> QED BY <1>1, <1>2, <1>3, Zenon

\* A turn undoes the last operation of the user that is not undone.
LEMMA TurnUndoes ==
  ASSUME TypeOK, NEW a \in Actor, NEW q \in Request, NEW i \in Undoable(a), Turn(a, q, i)
  PROVE  /\ i \in Nat /\ i \in DoneOf(a) /\ \A j \in DoneOf(a) : j <= i
         /\ DoneOf(a)' = DoneOf(a) \ {i}
         /\ [q EXCEPT !.undone = @ \cup {i}, !.left = @ - 1] \in Request
<1>1. i \in DoneOf(a) /\ \A j \in DoneOf(a) : j <= i
  BY DEF Undoable, DoneOf
<1>2. PICK j \in Undoable(a) :
        journal' = [journal EXCEPT ![j].undone = clock, ![j].redo = Image(db, DOMAIN journal[j].after)]
  BY DEF Turn, Undo
<1>3. \A m \in DOMAIN journal : m \in Nat
  BY DEF TypeOK
<1>4. i = j
  BY <1>3, <1>2 DEF Undoable, Mine
<1>5. clock # 0
  BY BoundsAssumption DEF TypeOK
<1>6. DOMAIN journal' = DOMAIN journal /\ \A m \in DOMAIN journal : m # i => journal'[m] = journal[m]
  BY <1>2, <1>4
<1>7. EntryOk(journal[i])
  BY <1>1 DEF TypeOK, DoneOf, Mine
<1>8. i \in DOMAIN journal
  BY <1>1 DEF DoneOf, Mine
<1>9. journal'[i] = [journal[i] EXCEPT !.undone = clock, !.redo = Image(db, DOMAIN journal[i].after)]
  BY <1>2, <1>4, <1>8
<1>10. journal'[i].undone = clock /\ journal'[i].actor = journal[i].actor
  BY <1>7, <1>9 DEF EntryOk
<1>11. DoneOf(a)' = DoneOf(a) \ {i}
  BY <1>1, <1>5, <1>6, <1>10 DEF DoneOf, Mine
<1>12. i \in Nat
  BY <1>3, <1>8
<1>13. [q EXCEPT !.undone = @ \cup {i}, !.left = @ - 1] \in Request
  BY <1>12, NextRequest
<1> QED BY <1>1, <1>11, <1>12, <1>13

LEMMA TurnKeeps ==
  ASSUME TypeOK, RollbackInv, NEW a \in Actor, NEW q \in Request, NEW i \in Undoable(a), Turn(a, q, i)
  PROVE  RollbackInv'
<1> DEFINE next == [q EXCEPT !.undone = @ \cup {i}, !.left = @ - 1]
<1>1. next \in Request /\ None \in Request
  <2>1. None \in Request
    BY HistoryAssumption DEF None, Request
  <2> QED BY <2>1, TurnUndoes
<1>2. rollback' = [rollback EXCEPT ![a] = IF Ended(next) THEN None ELSE next]
  BY DEF Turn
<1>3. next.target \in Nat /\ next.undone \in SUBSET Nat
  BY <1>1 DEF Request
<1> HIDE DEF next
<1>4. rollback' \in [Actor -> Request]
  BY <1>1, <1>2 DEF RollbackInv
<1>5. rollback'[a] = IF Ended(next) THEN None ELSE next
  BY <1>2 DEF RollbackInv
<1>6. ASSUME NEW b \in Actor, rollback'[b].target # 0, NEW m \in rollback'[b].undone
      PROVE  rollback'[b].target < m
  <2>1. CASE b # a
    <3>1. rollback'[b] = rollback[b]
      BY <1>2, <2>1 DEF RollbackInv
    <3> QED BY <1>6, <3>1 DEF RollbackInv, Rolling
  <2>2. CASE b = a
    <3>1. rollback'[a] = next /\ ~Ended(next)
      BY <1>5, <1>6, <2>2 DEF None
    <3>2. ~(m <= next.target)
      BY <1>6, <2>2, <3>1 DEF Ended
    <3>3. m \in Nat
      BY <1>3, <1>6, <2>2, <3>1
    <3> QED BY <1>3, <2>2, <3>1, <3>2, <3>3
  <2> QED BY <2>1, <2>2
<1> QED BY <1>4, <1>6 DEF RollbackInv, Rolling

\* What RollbackExact says of the request of user a.
ExactFor(a) ==
  Rolling(a) /\ rollback'[a] # rollback[a] =>
    /\ ~Rolling(a)' /\ Complete(a) => \A i \in DoneOf(a)' : i < rollback[a].target
    /\ \A i \in DoneOf(a) \ DoneOf(a)' :
         i < rollback[a].target => rollback[a].target \notin rollback[a].undone

LEMMA TurnExact ==
  ASSUME TypeOK, RollbackInv, NEW a \in Actor, NEW i \in Undoable(a), RollBack(a, i)
  PROVE  ExactFor(a)
<1>1. rollback[a] \in Request /\ rollback[a].target \in Nat /\ Turn(a, rollback[a], i) /\ Rolling(a)
  BY DEF RollbackInv, RollBack, Request
<1>2. /\ i \in Nat /\ i \in DoneOf(a) /\ \A j \in DoneOf(a) : j <= i
      /\ DoneOf(a)' = DoneOf(a) \ {i} /\ DoneOf(a) \subseteq Nat
  <2>1. DoneOf(a) \subseteq Nat
    BY DEF TypeOK, DoneOf, Mine
  <2> QED BY <1>1, <2>1, TurnUndoes
<1>3. rollback[a].undone \in SUBSET Nat /\ \A m \in rollback[a].undone : rollback[a].target < m
  BY <1>1 DEF RollbackInv, Request
<1>4. rollback[a].target \notin rollback[a].undone
  BY <1>1, <1>3
<1>5. Complete(a) => i <= rollback[a].target
  <2> SUFFICES ASSUME NEW m \in rollback[a].undone \cup {i}, m <= rollback[a].target
               PROVE  i <= rollback[a].target
    BY <1>2 DEF Complete
  <2>1. CASE m = i
    BY <2>1
  <2>2. CASE m \in rollback[a].undone
    BY <1>1, <1>3, <2>2
  <2> QED BY <2>1, <2>2
<1>6. ~Rolling(a)' /\ Complete(a) => \A j \in DoneOf(a)' : j < rollback[a].target
  BY <1>1, <1>2, <1>5
<1>7. \A j \in DoneOf(a) \ DoneOf(a)' : j < rollback[a].target => rollback[a].target \notin rollback[a].undone
  BY <1>4
<1> QED BY <1>6, <1>7 DEF ExactFor

LEMMA StopExact ==
  ASSUME RollbackInv, NEW a \in Actor, Rolling(a), rollback' = [rollback EXCEPT ![a] = None], UNCHANGED vars
  PROVE  RollbackInv' /\ ExactFor(a)
<1>1. rollback[a] \in Request /\ None \in Request
  BY HistoryAssumption DEF RollbackInv, None, Request
<1>2. DoneOf(a)' = DoneOf(a)
  BY DEF vars, DoneOf, Mine
<1>3. ~Complete(a)
  <2> SUFFICES ASSUME NEW m \in rollback[a].undone PROVE ~(m <= rollback[a].target)
    BY <1>2 DEF Complete
  <2> QED BY <1>1 DEF RollbackInv, Request
<1>4. rollback' \in [Actor -> Request]
  BY <1>1 DEF RollbackInv
<1>5. ASSUME NEW b \in Actor, rollback'[b].target # 0, NEW m \in rollback'[b].undone
      PROVE  rollback'[b].target < m
  <2>1. b # a /\ rollback'[b] = rollback[b]
    BY <1>5 DEF RollbackInv, None
  <2> QED BY <1>5, <2>1 DEF RollbackInv, Rolling
<1> QED BY <1>2, <1>3, <1>4, <1>5 DEF RollbackInv, Rolling, ExactFor

LEMMA RollbackStep ==
  ASSUME TypeOK, RollbackInv, [HistoryNext]_historyVars
  PROVE  RollbackInv' /\ \A a \in Actor : ExactFor(a)
<1>1. CASE UNCHANGED rollback
  BY <1>1 DEF RollbackInv, Rolling, ExactFor
<1>2. ASSUME NEW b \in Actor, NEW i \in Undoable(b), RollBack(b, i)
      PROVE  RollbackInv' /\ \A a \in Actor : ExactFor(a)
  <2>1. rollback[b] \in Request /\ Turn(b, rollback[b], i)
    BY <1>2 DEF RollbackInv, RollBack
  <2>2. RollbackInv'
    BY <2>1, TurnKeeps
  <2>3. \A a \in Actor \ {b} : rollback'[a] = rollback[a]
    BY <2>1 DEF Turn, RollbackInv
  <2> QED BY <1>2, <2>2, <2>3, TurnExact DEF ExactFor
<1>3. ASSUME NEW b \in Actor, NEW i \in Undoable(b), NEW t \in Mine(b), BeginRollback(b, t, i)
      PROVE  RollbackInv' /\ \A a \in Actor : ExactFor(a)
  <2>1. [None EXCEPT !.target = t] \in Request
    BY HistoryAssumption DEF TypeOK, Mine, None, Request
  <2>2. RollbackInv'
    BY <1>3, <2>1, TurnKeeps DEF BeginRollback
  <2> QED BY <1>3, <2>2 DEF BeginRollback, ExactFor
<1>4. ASSUME NEW b \in Actor, StopRollback(b)
      PROVE  RollbackInv' /\ \A a \in Actor : ExactFor(a)
  <2>1. RollbackInv' /\ ExactFor(b)
    BY <1>4, StopExact DEF StopRollback
  <2>2. \A a \in Actor \ {b} : rollback'[a] = rollback[a]
    BY <1>4 DEF StopRollback, RollbackInv
  <2> QED BY <2>1, <2>2 DEF ExactFor
<1> QED BY <1>1, <1>2, <1>3, <1>4 DEF HistoryNext, historyVars

\* A request that undoes down to an operation and ends with the answer "complete"
\* has left none of the user's operations from that one on (RollbackExact),
\* whatever the same user in another tab and the other users do between its
\* transactions, and it has undone nothing older than its target after it.
THEOREM RollbacksAreExact == HistorySpec => RollbackExact
<1>1. HistoryInit => RollbackInv
  BY HistoryAssumption DEF HistoryInit, RollbackInv, Rolling, None, Request
<1>2. TypeOK /\ RollbackInv /\ [HistoryNext]_historyVars => RollbackInv' /\ \A a \in Actor : ExactFor(a)
  BY RollbackStep
<1>3. [HistoryNext]_historyVars => [Next]_vars
  <2>1. \A a \in Actor : \A q, i : Turn(a, q, i) => Next
    BY DEF Turn, Next
  <2>2. ASSUME NEW a \in Actor, NEW i, NEW t, RollBack(a, i) \/ BeginRollback(a, t, i) PROVE Next
    BY <2>1, <2>2 DEF RollBack, BeginRollback
  <2> QED BY <2>1, <2>2 DEF HistoryNext, historyVars, StopRollback
<1>4. HistorySpec => Spec
  BY <1>3, PTL DEF HistorySpec, HistoryInit, Spec
<1>5. (\A a \in Actor : ExactFor(a)) =>
        \A a \in Actor :
          Rolling(a) /\ rollback'[a] # rollback[a] =>
            /\ ~Rolling(a)' /\ Complete(a) => \A i \in DoneOf(a)' : i < rollback[a].target
            /\ \A i \in DoneOf(a) \ DoneOf(a)' :
                 i < rollback[a].target => rollback[a].target \notin rollback[a].undone
  BY DEF ExactFor
<1> QED BY <1>1, <1>2, <1>4, <1>5, TypeCorrect, PTL DEF HistorySpec, RollbackExact

(***************************************************************************)
(* What the operations that are not undone have made of a row (RowHistory). *)
(***************************************************************************)
\* The part of RowHistory about one row.
History(k) ==
  /\ LiveOn(k) = {} => db[k] = InitialDb[k]
  /\ \A i \in LiveOn(k) :
       /\ (\A j \in LiveOn(k) : i <= j) => journal[i].before[k] = InitialDb[k]
       /\ (\A j \in LiveOn(k) : j <= i) => journal[i].after[k] = db[k]
       /\ \A j \in LiveOn(k) :
            (i < j /\ ~\E m \in LiveOn(k) : i < m /\ m < j) => journal[j].before[k] = journal[i].after[k]

LEMMA HistoryIs == RowHistory <=> \A k \in Key : History(k)
BY DEF RowHistory, History

\* A set of numbers up to n that has a member has a least and a greatest one.
LEMMA Extremes ==
  ASSUME NEW n \in Nat, NEW S \in SUBSET (1 .. n), S # {}
  PROVE  /\ \E i \in S : \A j \in S : i <= j
         /\ \E i \in S : \A j \in S : j <= i
<1>1. ASSUME NEW T \in SUBSET Nat, T # {} PROVE \E i \in T : \A j \in T : i <= j
  <2>1. \E i \in T : \A j \in T : ~(<<j, i>> \in OpToRel(<, Nat))
    BY <1>1, NatLessThanWellFounded, WFMin
  <2>2. PICK i \in T : \A j \in T : ~(<<j, i>> \in OpToRel(<, Nat))
    BY <2>1
  <2>3. ASSUME NEW j \in T PROVE i <= j
    <3>1. i \in Nat /\ j \in Nat /\ ~(j < i)
      BY <2>2 DEF OpToRel
    <3> QED BY <3>1
  <2> QED BY <2>3
<1>2. \E i \in S : \A j \in S : i <= j
  BY <1>1
<1>3. \E i \in S : \A j \in S : j <= i
  <2> DEFINE T == {n - i : i \in S}
  <2>1. \A i \in S : n - i \in Nat /\ n - i \in T
    OBVIOUS
  <2>2. T \in SUBSET Nat /\ T # {}
    BY <2>1
  <2>3. PICK t \in T : \A u \in T : t <= u
    BY <1>1, <2>2
  <2>4. PICK i \in S : t = n - i
    OBVIOUS
  <2>5. ASSUME NEW j \in S PROVE j <= i
    <3>1. n - j \in T
      BY <2>1
    <3>2. n - i <= n - j
      BY <2>3, <2>4, <3>1
    <3>3. i \in Nat /\ j \in Nat
      OBVIOUS
    <3> QED BY <3>2, <3>3
  <2> QED BY <2>5
<1> QED BY <1>2, <1>3

LEMMA LiveOrdered ==
  ASSUME TypeOK, NEW k
  PROVE  /\ LiveOn(k) \subseteq DOMAIN journal /\ LiveOn(k) \subseteq Nat
         /\ \A S \in SUBSET LiveOn(k) :
              S # {} => /\ \E i \in S : \A j \in S : i <= j
                        /\ \E i \in S : \A j \in S : j <= i
<1>1. LiveOn(k) \subseteq DOMAIN journal /\ DOMAIN journal = 1 .. Len(journal) /\ Len(journal) \in Nat
  BY JournalTypes DEF LiveOn
<1>2. ASSUME NEW S \in SUBSET LiveOn(k), S # {}
      PROVE  /\ \E i \in S : \A j \in S : i <= j
             /\ \E i \in S : \A j \in S : j <= i
  BY <1>1, <1>2, Extremes
<1> QED BY <1>1, <1>2

\* The last operation on a row has made it what it is.
LEMMA LastMade ==
  ASSUME TypeOK, NEW k, History(k), LiveOn(k) # {}
  PROVE  \E i \in LiveOn(k) : (\A j \in LiveOn(k) : j <= i) /\ journal[i].after[k] = db[k]
BY LiveOrdered DEF History

\* The next operation on a row has found it as the one before it left it.
LEMMA NextFound ==
  ASSUME TypeOK, NEW k, History(k), NEW i \in LiveOn(k), NEW j \in LiveOn(k), i < j
  PROVE  \E m \in LiveOn(k) : i < m /\ journal[m].before[k] = journal[i].after[k]
<1> DEFINE S == {m \in LiveOn(k) : i < m}
<1>1. S # {} /\ S \in SUBSET LiveOn(k)
  OBVIOUS
<1>2. PICK m \in S : \A x \in S : m <= x
  BY <1>1, LiveOrdered
<1>3. \A x \in LiveOn(k) : ~(i < x /\ x < m)
  <2>1. \A x \in S : x \in Nat /\ m \in Nat
    BY LiveOrdered
  <2> QED BY <1>2, <2>1
<1> QED BY <1>2, <1>3 DEF History

-----------------------------------------------------------------------------
(* What each step does to the history of a row.                            *)

\* An operation adds itself to the rows it captures.
LEMMA AddedHistory ==
  ASSUME UndoInv, NEW a \in Actor, Added(a), Covered, NEW k \in Key, History(k)
  PROVE  History(k)'
<1> DEFINE n == Len(journal) + 1
<1>1. /\ Len(journal') = n /\ DOMAIN journal' = DOMAIN journal \cup {n} /\ n \notin DOMAIN journal
      /\ \A i \in DOMAIN journal : journal'[i] = journal[i] /\ i < n
      /\ journal'[n].undone = 0
      /\ k \in DOMAIN journal'[n].before =>
           journal'[n].before[k] = db[k] /\ journal'[n].after[k] = db'[k]
  BY AddedRows DEF UndoInv
<1>2. /\ LiveOn(k) \subseteq DOMAIN journal /\ LiveOn(k) \subseteq Nat /\ n \in Nat /\ Len(journal) < n
      /\ \A i \in LiveOn(k) : i < n
  BY <1>1, LiveOrdered, JournalTypes DEF UndoInv
<1>3. k \notin DOMAIN journal'[n].before => db'[k] = db[k]
  BY <1>1, <1>2 DEF Covered
<1> HIDE DEF n
<1>4. CASE k \notin DOMAIN journal'[n].before
  <2>1. LiveOn(k)' = LiveOn(k)
    BY <1>1, <1>4 DEF LiveOn
  <2>2. \A i \in LiveOn(k) : journal'[i] = journal[i]
    BY <1>1, <1>2
  <2> QED BY <1>3, <1>4, <2>1, <2>2 DEF History
<1>5. CASE k \in DOMAIN journal'[n].before
  <2>1. LiveOn(k)' = LiveOn(k) \cup {n}
    BY <1>1, <1>5 DEF LiveOn
  <2>2. \A i \in LiveOn(k) : journal'[i] = journal[i]
    BY <1>1, <1>2
  <2>3. ASSUME NEW i \in LiveOn(k) \cup {n}, \A j \in LiveOn(k) \cup {n} : i <= j
        PROVE  journal'[i].before[k] = InitialDb[k]
    <3>1. CASE i = n
      <4>1. LiveOn(k) = {}
        BY <1>2, <2>3, <3>1
      <4> QED BY <1>1, <1>5, <3>1, <4>1 DEF History
    <3>2. CASE i \in LiveOn(k)
      BY <2>2, <2>3, <3>2 DEF History
    <3> QED BY <3>1, <3>2
  <2>4. ASSUME NEW i \in LiveOn(k) \cup {n}, \A j \in LiveOn(k) \cup {n} : j <= i
        PROVE  journal'[i].after[k] = db'[k]
    <3>1. n <= i
      BY <2>4
    <3>2. i = n
      BY <1>2, <3>1
    <3> QED BY <1>1, <1>5, <3>2
  <2>5. ASSUME NEW i \in LiveOn(k) \cup {n}, NEW j \in LiveOn(k) \cup {n}, i < j,
               ~\E m \in LiveOn(k) \cup {n} : i < m /\ m < j
        PROVE  journal'[j].before[k] = journal'[i].after[k]
    <3>1. i \in LiveOn(k)
      BY <1>2, <2>5
    <3>2. CASE j = n
      <4>1. \A m \in LiveOn(k) : m <= i
        BY <1>2, <2>5, <3>1, <3>2
      <4> QED BY <1>1, <1>5, <2>2, <3>1, <3>2, <4>1 DEF History
    <3>3. CASE j \in LiveOn(k)
      BY <2>2, <2>5, <3>1, <3>3 DEF History
    <3> QED BY <3>2, <3>3
  <2> QED BY <2>1, <2>3, <2>4, <2>5 DEF History
<1> QED BY <1>4, <1>5

\* The undo of the last operation on a row gives back what it has found.
LEMMA UndoneHistory ==
  ASSUME UndoInv, NEW a, NEW i \in Undoable(a), Rewritten(i, clock), ImagesKept(i), NEW k \in Key, History(k),
         k \in DOMAIN journal[i].before => db'[k] = journal[i].before[k] /\ \A j \in LiveOn(k) : j <= i,
         k \notin DOMAIN journal[i].before => db'[k] = db[k]
  PROVE  History(k)'
<1>1. /\ DOMAIN journal' = DOMAIN journal /\ i \in DOMAIN journal /\ journal[i].undone = 0 /\ journal'[i].undone # 0
      /\ \A j \in DOMAIN journal : j # i => journal'[j] = journal[j]
      /\ \A j \in DOMAIN journal : journal'[j].before = journal[j].before /\ journal'[j].after = journal[j].after
  BY DEF Rewritten, ImagesKept, Undoable, Mine, UndoInv, TypeOK
<1>2. LiveOn(k) \subseteq DOMAIN journal /\ LiveOn(k) \subseteq Nat
  BY LiveOrdered DEF UndoInv
<1>3. CASE k \notin DOMAIN journal[i].before
  <2>1. LiveOn(k)' = LiveOn(k)
    BY <1>1, <1>3 DEF LiveOn
  <2> QED BY <1>1, <1>2, <1>3, <2>1 DEF History
<1>4. CASE k \in DOMAIN journal[i].before
  <2>1. LiveOn(k)' = LiveOn(k) \ {i} /\ i \in LiveOn(k)
    BY <1>1, <1>4 DEF LiveOn
  <2>2. \A j \in LiveOn(k) \ {i} : j < i /\ journal'[j] = journal[j]
    BY <1>1, <1>2, <1>4, <2>1
  <2>3. ASSUME LiveOn(k) \ {i} = {} PROVE db'[k] = InitialDb[k]
    BY <1>2, <1>4, <2>1, <2>3 DEF History
  <2>4. ASSUME NEW j \in LiveOn(k) \ {i}, \A m \in LiveOn(k) \ {i} : j <= m
        PROVE  journal'[j].before[k] = InitialDb[k]
    <3>1. \A m \in LiveOn(k) : j <= m
      BY <1>2, <2>2, <2>4
    <3> QED BY <2>2, <2>4, <3>1 DEF History
  <2>5. ASSUME NEW j \in LiveOn(k) \ {i}, \A m \in LiveOn(k) \ {i} : m <= j
        PROVE  journal'[j].after[k] = db'[k]
    <3>1. j < i /\ ~\E m \in LiveOn(k) : j < m /\ m < i
      BY <1>2, <2>1, <2>2, <2>5
    <3> QED BY <1>4, <2>1, <2>2, <2>5, <3>1 DEF History
  <2>6. ASSUME NEW j \in LiveOn(k) \ {i}, NEW l \in LiveOn(k) \ {i}, j < l,
               ~\E m \in LiveOn(k) \ {i} : j < m /\ m < l
        PROVE  journal'[l].before[k] = journal'[j].after[k]
    <3>1. ~\E m \in LiveOn(k) : j < m /\ m < l
      BY <1>2, <2>2, <2>6
    <3> QED BY <2>2, <2>6, <3>1 DEF History
  <2> QED BY <2>1, <2>3, <2>4, <2>5, <2>6 DEF History
<1> QED BY <1>3, <1>4

\* The redo of an operation after every other one on a row.
LEMMA RedoneHistory ==
  ASSUME UndoInv, NEW a, NEW i \in Redoable(a), Rewritten(i, 0), ImagesKept(i), NEW k \in Key, History(k),
         k \in DOMAIN journal[i].before =>
           /\ db[k] = journal[i].before[k] /\ db'[k] = journal[i].after[k]
           /\ \A j \in LiveOn(k) : j < i,
         k \notin DOMAIN journal[i].before => db'[k] = db[k]
  PROVE  History(k)'
<1>1. /\ DOMAIN journal' = DOMAIN journal /\ i \in DOMAIN journal /\ journal[i].undone # 0 /\ journal'[i].undone = 0
      /\ \A j \in DOMAIN journal : j # i => journal'[j] = journal[j]
      /\ \A j \in DOMAIN journal : journal'[j].before = journal[j].before /\ journal'[j].after = journal[j].after
  BY DEF Rewritten, ImagesKept, Redoable, Reopened, Mine
<1>2. LiveOn(k) \subseteq DOMAIN journal /\ LiveOn(k) \subseteq Nat /\ i \in Nat
  BY <1>1, LiveOrdered, JournalTypes DEF UndoInv
<1>3. CASE k \notin DOMAIN journal[i].before
  <2>1. LiveOn(k)' = LiveOn(k)
    BY <1>1, <1>3 DEF LiveOn
  <2> QED BY <1>1, <1>2, <1>3, <2>1 DEF History
<1>4. CASE k \in DOMAIN journal[i].before
  <2>1. LiveOn(k)' = LiveOn(k) \cup {i} /\ i \notin LiveOn(k)
    BY <1>1, <1>4 DEF LiveOn
  <2>2. \A j \in LiveOn(k) : j < i /\ journal'[j] = journal[j]
    BY <1>1, <1>2, <1>4, <2>1
  <2>3. journal'[i].before[k] = db[k] /\ journal'[i].after[k] = db'[k]
    BY <1>1, <1>4
  <2>4. ASSUME NEW j \in LiveOn(k) \cup {i}, \A m \in LiveOn(k) \cup {i} : j <= m
        PROVE  journal'[j].before[k] = InitialDb[k]
    <3>1. CASE j = i
      <4>1. LiveOn(k) = {}
        BY <1>2, <2>2, <2>4, <3>1
      <4> QED BY <2>3, <3>1, <4>1 DEF History
    <3>2. CASE j \in LiveOn(k)
      BY <2>2, <2>4, <3>2 DEF History
    <3> QED BY <3>1, <3>2
  <2>5. ASSUME NEW j \in LiveOn(k) \cup {i}, \A m \in LiveOn(k) \cup {i} : m <= j
        PROVE  journal'[j].after[k] = db'[k]
    <3>1. i <= j
      BY <2>5
    <3>2. j = i
      BY <1>2, <2>2, <3>1
    <3> QED BY <2>3, <3>2
  <2>6. ASSUME NEW j \in LiveOn(k) \cup {i}, NEW l \in LiveOn(k) \cup {i}, j < l,
               ~\E m \in LiveOn(k) \cup {i} : j < m /\ m < l
        PROVE  journal'[l].before[k] = journal'[j].after[k]
    <3>1. j \in LiveOn(k)
      BY <1>2, <2>2, <2>6
    <3>2. CASE l = i
      <4>1. \A m \in LiveOn(k) : m <= j
        BY <1>2, <2>2, <2>6, <3>1, <3>2
      <4> QED BY <2>2, <2>3, <3>1, <3>2, <4>1 DEF History
    <3>3. CASE l \in LiveOn(k)
      BY <2>2, <2>6, <3>1, <3>3 DEF History
    <3> QED BY <3>2, <3>3
  <2> QED BY <2>1, <2>4, <2>5, <2>6 DEF History
<1> QED BY <1>3, <1>4

-----------------------------------------------------------------------------
(* What the entries of the journal say of the rows.                        *)

StampedKeys == NodeKeys \cup LineKeys
CardKeys == TypeKeys \cup FlagKeys

\* A node or line in an entry bears the time of the operation, and an older one
\* before it.
EntryStamped(e) ==
  \A k \in StampedKeys \cap DOMAIN e.before :
    /\ e.after[k] # NULL /\ e.after[k].stamp = e.created
    /\ e.before[k] # NULL => e.before[k].stamp < e.created

\* A row without a stamp is in an entry together with the node or the line it
\* belongs to.
EntryOwned(e) ==
  /\ \A l \in LineId : Pipe(l) \in DOMAIN e.before => Line(l) \in DOMAIN e.before
  /\ \A k \in TypeKeys \cap DOMAIN e.before :
       /\ e.before[k] # NULL => Node(e.before[k].nodeid) \in DOMAIN e.before
       /\ e.after[k] # NULL => Node(e.after[k].nodeid) \in DOMAIN e.before
  /\ "MERGE" \notin Ops =>
       \A k \in EquipKeys \cap DOMAIN e.before :
         /\ e.before[k] # NULL /\ Line(e.before[k].lineid) \in DOMAIN e.before
         /\ e.after[k] # NULL /\ Line(e.after[k].lineid) \in DOMAIN e.before

\* Without merges a flag is only set and cleared.
EntryFlags(e) ==
  "MERGE" \notin Ops =>
    \A k \in FlagKeys \cap DOMAIN e.before : e.before[k] = NULL \/ e.after[k] = NULL

EntryRedo(e) == e.redo # NULL => \A k \in DOMAIN e.before : e.redo[k] = e.after[k]

EntryLawful(e) == EntryStamped(e) /\ EntryOwned(e) /\ EntryFlags(e) /\ EntryRedo(e)

\* An operation that makes a card is the first one on it.
MadeOnce ==
  \A i \in DOMAIN journal : \A k \in CardKeys \cap DOMAIN journal[i].before :
    journal[i].before[k] = NULL =>
      /\ InitialDb[k] = NULL
      /\ \A j \in DOMAIN journal :
           j # i /\ k \in DOMAIN journal[j].before => i < j /\ journal[j].before[k] # NULL

\* The sequence is not behind any card there is or has been.
CardsNumbered ==
  \A k \in CardKeys :
    InitialDb[k] # NULL \/ db[k] # NULL \/ (\E i \in DOMAIN journal : k \in DOMAIN journal[i].before)
      => k[2] <= seq.card

RowsStamped == \A k \in StampedKeys : db[k] # NULL => db[k].stamp < clock

Lawful ==
  /\ \A i \in DOMAIN journal : EntryLawful(journal[i])
  /\ MadeOnce /\ CardsNumbered /\ RowsStamped

\* The rows with a history: those of a flag, a regulator or a damper have none
\* once nodes are merged.
ToldKeys == IF "MERGE" \in Ops THEN StampedKeys \cup PipeKeys \cup TypeKeys ELSE Key

HistoryInv == Lawful /\ \A k \in ToldKeys : History(k)

LEMMA ToldAre ==
  /\ StampedKeys \subseteq ToldKeys /\ PipeKeys \subseteq ToldKeys /\ TypeKeys \subseteq ToldKeys
  /\ ToldKeys \subseteq Key
  /\ "MERGE" \in Ops => ToldKeys = StampedKeys \cup PipeKeys \cup TypeKeys
  /\ "MERGE" \notin Ops => ToldKeys = Key
BY DEF ToldKeys, StampedKeys, Key

-----------------------------------------------------------------------------
(* Undo and redo come in order on every row with a history.                *)

\* Operation i can be undone, or redone, as far as the row k goes.
Undoes(i, k) == /\ i \in LiveOn(k) /\ db[k] = journal[i].after[k]
Redoes(i, k) ==
  /\ i \in DOMAIN journal /\ journal[i].undone # 0
  /\ k \in DOMAIN journal[i].before /\ db[k] = journal[i].before[k]

LEMMA StampedOrder ==
  ASSUME UndoInv, Lawful, NEW k \in StampedKeys, History(k), NEW i \in DOMAIN journal
  PROVE  /\ Undoes(i, k) => \A j \in LiveOn(k) : j <= i
         /\ Redoes(i, k) => \A j \in LiveOn(k) : j < i
<1>1. /\ \A j \in DOMAIN journal : j \in Nat /\ journal[j].created \in Nat
      /\ \A j, m \in DOMAIN journal : j < m => journal[j].created < journal[m].created
  BY JournalTypes DEF UndoInv, TimesOk
<1>2. \A j \in DOMAIN journal :
        k \in DOMAIN journal[j].before =>
          /\ journal[j].after[k] # NULL /\ journal[j].after[k].stamp = journal[j].created
          /\ journal[j].before[k] # NULL => journal[j].before[k].stamp < journal[j].created
  BY DEF Lawful, EntryLawful, EntryStamped
<1>3. \A j \in LiveOn(k) : j \in DOMAIN journal /\ k \in DOMAIN journal[j].before
  BY DEF LiveOn
<1>4. ASSUME Undoes(i, k) PROVE \A j \in LiveOn(k) : j <= i
  <2>1. PICK j \in LiveOn(k) : (\A m \in LiveOn(k) : m <= j) /\ journal[j].after[k] = db[k]
    BY <1>4, LastMade DEF Undoes, UndoInv
  <2>2. journal[j].created = journal[i].created
    BY <1>2, <1>3, <1>4, <2>1 DEF Undoes
  <2>3. ~(i < j) /\ ~(j < i)
    BY <1>1, <1>3, <2>2
  <2>4. i = j
    BY <1>1, <1>3, <2>3
  <2> QED BY <2>1, <2>4
<1>5. ASSUME Redoes(i, k) PROVE \A j \in LiveOn(k) : j < i
  <2> SUFFICES ASSUME LiveOn(k) # {} PROVE \A j \in LiveOn(k) : j < i
    OBVIOUS
  <2>1. PICK j \in LiveOn(k) : (\A m \in LiveOn(k) : m <= j) /\ journal[j].after[k] = db[k]
    BY LastMade DEF UndoInv
  <2>2. journal[j].created < journal[i].created
    BY <1>2, <1>3, <1>5, <2>1 DEF Redoes
  <2>3. j < i
    <3>1. j # i /\ ~(i < j)
      BY <1>1, <1>3, <2>2
    <3> QED BY <1>1, <1>3, <3>1
  <2>4. \A m \in LiveOn(k) : m \in Nat /\ m <= j /\ j \in Nat /\ i \in Nat
    BY <1>1, <1>3, <2>1
  <2> QED BY <2>3, <2>4
<1> QED BY <1>4, <1>5

\* A row whose entries are all those of a stamped row, or share one.
LEMMA PipeOrder ==
  ASSUME UndoInv, Lawful, NEW l \in LineId, NEW i \in DOMAIN journal,
         \A q \in StampedKeys \cap DOMAIN journal[i].before : \A j \in LiveOn(q) : j <= i,
         Pipe(l) \in DOMAIN journal[i].before
  PROVE  \A j \in LiveOn(Pipe(l)) : j <= i
<1>1. Line(l) \in StampedKeys /\ \A j \in DOMAIN journal : Pipe(l) \in DOMAIN journal[j].before => Line(l) \in DOMAIN journal[j].before
  BY KeyTables DEF Lawful, EntryLawful, EntryOwned, StampedKeys
<1> QED BY <1>1 DEF LiveOn

\* Two operations on a card or a piece of equipment, one of which has found it
\* as the other has left it, are on one node or line.
LEMMA SharedRow ==
  ASSUME UndoInv, Lawful, NEW k \in TypeKeys \cup EquipKeys, k \in EquipKeys => "MERGE" \notin Ops,
         NEW i \in DOMAIN journal, NEW j \in DOMAIN journal,
         k \in DOMAIN journal[i].before, k \in DOMAIN journal[j].before,
         NEW r, r # NULL, r \in {journal[i].before[k], journal[i].after[k]},
         r \in {journal[j].before[k], journal[j].after[k]}
  PROVE  \E q \in StampedKeys : q \in DOMAIN journal[i].before /\ q \in DOMAIN journal[j].before
<1>1. EntryOwned(journal[i]) /\ EntryOwned(journal[j]) /\ EntryOk(journal[i])
  BY DEF Lawful, EntryLawful, UndoInv, TypeOK
<1>2. RowOk(k, r)
  BY <1>1 DEF EntryOk, ImageOk
<1>3. CASE k \in TypeKeys
  <2>1. r \in CardRow
    BY <1>2, <1>3, TablesDisjoint DEF RowOk
  <2>2. Node(r.nodeid) \in StampedKeys
    BY <2>1, KeyTables DEF CardRow, StampedKeys
  <2>3. Node(r.nodeid) \in DOMAIN journal[i].before /\ Node(r.nodeid) \in DOMAIN journal[j].before
    BY <1>1, <1>3 DEF EntryOwned
  <2> QED BY <2>2, <2>3
<1>4. CASE k \in EquipKeys
  <2>1. r \in EquipRow
    BY <1>2, <1>4, TablesDisjoint DEF RowOk
  <2>2. Line(r.lineid) \in StampedKeys
    BY <2>1, KeyTables DEF EquipRow, StampedKeys
  <2>3. Line(r.lineid) \in DOMAIN journal[i].before /\ Line(r.lineid) \in DOMAIN journal[j].before
    BY <1>1, <1>4 DEF EntryOwned
  <2> QED BY <2>2, <2>3
<1> QED BY <1>3, <1>4

\* No later operation has made the row: it was there.
LEMMA FoundThere ==
  ASSUME UndoInv, Lawful, NEW k \in EquipKeys \cup CardKeys, k \in EquipKeys => "MERGE" \notin Ops,
         NEW i \in DOMAIN journal, NEW j \in DOMAIN journal, i < j,
         k \in DOMAIN journal[i].before, k \in DOMAIN journal[j].before
  PROVE  journal[j].before[k] # NULL
<1>1. CASE k \in EquipKeys
  BY <1>1 DEF Lawful, EntryLawful, EntryOwned
<1>2. CASE k \in CardKeys
  <2>1. i \in Nat /\ j \in Nat
    BY JournalTypes DEF UndoInv
  <2> QED BY <1>2, <2>1 DEF Lawful, MadeOnce
<1> QED BY <1>1, <1>2

\* An undone operation that found no row: the operations on the row that are not
\* undone come after it, and none of them is the first.
LEMMA MadeAgain ==
  ASSUME UndoInv, Lawful, NEW k \in EquipKeys \cup CardKeys, k \in EquipKeys => "MERGE" \notin Ops, History(k),
         NEW i \in DOMAIN journal, journal[i].undone # 0, k \in DOMAIN journal[i].before,
         journal[i].before[k] = NULL
  PROVE  LiveOn(k) = {}
<1> SUFFICES ASSUME LiveOn(k) # {} PROVE FALSE
  OBVIOUS
<1>1. k \in CardKeys
  BY DEF Lawful, EntryLawful, EntryOwned
<1>2. PICK f \in LiveOn(k) : \A j \in LiveOn(k) : f <= j
  BY LiveOrdered DEF UndoInv
<1>3. f \in DOMAIN journal /\ k \in DOMAIN journal[f].before /\ f # i
  BY DEF LiveOn
<1>4. journal[f].before[k] = InitialDb[k]
  BY <1>2 DEF History
<1> QED BY <1>1, <1>3, <1>4 DEF Lawful, MadeOnce

LEMMA OwnedOrder ==
  ASSUME UndoInv, Lawful, NEW k \in TypeKeys \cup EquipKeys, k \in EquipKeys => "MERGE" \notin Ops, History(k),
         NEW i \in DOMAIN journal,
         \A q \in StampedKeys \cap DOMAIN journal[i].before : \A j \in LiveOn(q) : j <= i
  PROVE  /\ Undoes(i, k) => \A j \in LiveOn(k) : j <= i
         /\ Redoes(i, k) => \A j \in LiveOn(k) : j <= i
<1>1. \A j \in LiveOn(k) : j \in DOMAIN journal /\ k \in DOMAIN journal[j].before /\ j \in Nat /\ i \in Nat
  BY JournalTypes DEF LiveOn, UndoInv
<1>2. ASSUME NEW j \in LiveOn(k), i < j, NEW q \in StampedKeys, q \in DOMAIN journal[i].before, q \in DOMAIN journal[j].before
      PROVE  FALSE
  <2>1. j \in LiveOn(q)
    BY <1>2 DEF LiveOn
  <2> QED BY <1>1, <1>2, <2>1
<1>3. ASSUME Undoes(i, k), NEW j \in LiveOn(k), i < j PROVE FALSE
  <2>1. i \in LiveOn(k)
    BY <1>3 DEF Undoes
  <2>2. PICK m \in LiveOn(k) : i < m /\ journal[m].before[k] = journal[i].after[k]
    BY <1>3, <2>1, NextFound DEF UndoInv
  <2>3. journal[m].before[k] # NULL
    BY <1>1, <2>1, <2>2, FoundThere DEF CardKeys
  <2>4. \E q \in StampedKeys : q \in DOMAIN journal[i].before /\ q \in DOMAIN journal[m].before
    BY <1>1, <2>1, <2>2, <2>3, SharedRow
  <2> QED BY <1>2, <2>2, <2>4
<1>4. ASSUME Redoes(i, k), NEW l \in LiveOn(k), i < l PROVE FALSE
  <2>1. PICK j \in LiveOn(k) : (\A m \in LiveOn(k) : m <= j) /\ journal[j].after[k] = db[k]
    BY <1>4, LastMade DEF UndoInv
  <2>2. i < j
    BY <1>1, <1>4, <2>1
  <2>3. journal[i].before[k] # NULL
    BY <1>4, MadeAgain DEF Redoes, CardKeys
  <2>4. \E q \in StampedKeys : q \in DOMAIN journal[i].before /\ q \in DOMAIN journal[j].before
    BY <1>1, <1>4, <2>1, <2>3, SharedRow DEF Redoes
  <2> QED BY <1>2, <2>2, <2>4
<1> QED BY <1>1, <1>3, <1>4

LEMMA FlagOrder ==
  ASSUME UndoInv, Lawful, "MERGE" \notin Ops, NEW k \in FlagKeys, History(k), NEW i \in DOMAIN journal
  PROVE  /\ Undoes(i, k) => \A j \in LiveOn(k) : j <= i
         /\ Redoes(i, k) => \A j \in LiveOn(k) : j <= i
<1>1. \A j \in LiveOn(k) : j \in DOMAIN journal /\ k \in DOMAIN journal[j].before /\ j \in Nat /\ i \in Nat
  BY JournalTypes DEF LiveOn, UndoInv
<1>2. k \in CardKeys /\ \A j \in LiveOn(k) : journal[j].before[k] = NULL \/ journal[j].after[k] = NULL
  BY <1>1 DEF Lawful, EntryLawful, EntryFlags, CardKeys
<1>3. \A j, m \in DOMAIN journal :
        (/\ k \in DOMAIN journal[j].before /\ journal[j].before[k] = NULL
         /\ k \in DOMAIN journal[m].before /\ j # m)
          => j < m
  <2> SUFFICES ASSUME NEW j \in DOMAIN journal, NEW m \in DOMAIN journal, j # m,
                      k \in DOMAIN journal[j].before, journal[j].before[k] = NULL, k \in DOMAIN journal[m].before
               PROVE  j < m
    OBVIOUS
  <2>1. k \in CardKeys \cap DOMAIN journal[j].before
    BY <1>2
  <2> QED BY <2>1 DEF Lawful, MadeOnce
<1>4. ASSUME i \in LiveOn(k) \/ Redoes(i, k), NEW l \in LiveOn(k), i < l,
             NEW j \in LiveOn(k), \A m \in LiveOn(k) : m <= j, journal[j].after[k] # NULL
      PROVE  FALSE
  <2>1. journal[j].before[k] = NULL
    BY <1>2, <1>4
  <2>2. k \in DOMAIN journal[i].before /\ i # j /\ ~(j < i)
    BY <1>1, <1>4 DEF Redoes, LiveOn
  <2> QED BY <1>1, <1>3, <2>1, <2>2
<1>5. ASSUME Undoes(i, k), NEW l \in LiveOn(k), i < l PROVE FALSE
  <2>1. PICK j \in LiveOn(k) : (\A m \in LiveOn(k) : m <= j) /\ journal[j].after[k] = db[k]
    BY <1>5, LastMade DEF UndoInv
  <2>2. PICK m \in LiveOn(k) : i < m /\ journal[m].before[k] = journal[i].after[k]
    BY <1>5, NextFound DEF UndoInv, Undoes
  <2>3. journal[m].before[k] # NULL
    BY <1>1, <1>2, <1>5, <2>2, FoundThere DEF Undoes
  <2>4. journal[j].after[k] # NULL
    BY <1>5, <2>1, <2>2, <2>3 DEF Undoes
  <2>5. i \in LiveOn(k)
    BY <1>5 DEF Undoes
  <2> QED BY <1>4, <1>5, <2>1, <2>4, <2>5
<1>6. ASSUME Redoes(i, k), NEW l \in LiveOn(k), i < l PROVE FALSE
  <2>1. PICK j \in LiveOn(k) : (\A m \in LiveOn(k) : m <= j) /\ journal[j].after[k] = db[k]
    BY <1>6, LastMade DEF UndoInv
  <2>2. journal[i].before[k] # NULL
    BY <1>2, <1>6, MadeAgain DEF Redoes
  <2> QED BY <1>4, <1>6, <2>1, <2>2 DEF Redoes
<1> QED BY <1>1, <1>5, <1>6

-----------------------------------------------------------------------------
(* Undo and redo keep the history.                                         *)

LEMMA StampsAre ==
  ASSUME NEW k \in StampedKeys, NEW r, RowOk(k, r), r # NULL
  PROVE  r.stamp \in Nat
<1>1. Stamp \subseteq Nat
  BY BoundsAssumption DEF Stamp
<1>2. r \in NodeRow \/ r \in LineRow
  BY TablesDisjoint DEF RowOk, StampedKeys
<1> QED BY <1>1, <1>2 DEF NodeRow, LineRow

\* A rewritten entry is as lawful as it was.
LEMMA RewrittenLawful ==
  ASSUME UndoInv, Lawful, NEW i \in DOMAIN journal, NEW t, Rewritten(i, t), ImagesKept(i),
         EntryRedo(journal'[i]), UNCHANGED seq,
         \A k \in Key \cap DOMAIN journal[i].before :
           db'[k] = journal[i].before[k] \/ db'[k] = journal[i].after[k],
         \A k \in Key \ DOMAIN journal[i].before : db'[k] = db[k]
  PROVE  Lawful'
<1>1. /\ DOMAIN journal' = DOMAIN journal
      /\ \A j \in DOMAIN journal : j # i => journal'[j] = journal[j]
      /\ \A j \in DOMAIN journal : journal'[j].before = journal[j].before /\ journal'[j].after = journal[j].after
      /\ journal'[i].created = journal[i].created
      /\ clock' = clock + 1
  BY DEF Rewritten, ImagesKept
<1>2. EntryStamped(journal[i]) /\ EntryOwned(journal[i]) /\ EntryFlags(journal[i])
  BY DEF Lawful, EntryLawful
<1>3. EntryLawful(journal'[i])
  <2>1. EntryStamped(journal'[i])
    BY <1>1, <1>2 DEF EntryStamped
  <2>2. EntryOwned(journal'[i])
    BY <1>1, <1>2 DEF EntryOwned
  <2>3. EntryFlags(journal'[i])
    BY <1>1, <1>2 DEF EntryFlags
  <2> QED BY <2>1, <2>2, <2>3 DEF EntryLawful
<1>4. \A j \in DOMAIN journal' : EntryLawful(journal'[j])
  BY <1>1, <1>3 DEF Lawful
<1>5. MadeOnce'
  BY <1>1 DEF Lawful, MadeOnce
<1>6. CardKeys \subseteq Key /\ StampedKeys \subseteq Key
  BY DEF CardKeys, StampedKeys, Key
<1>7. CardsNumbered'
  BY <1>1, <1>6 DEF Lawful, CardsNumbered
<1>8. ASSUME NEW k \in StampedKeys, db'[k] # NULL PROVE db'[k].stamp < clock'
  <2>1. clock \in Nat /\ journal[i].created < clock /\ journal[i].created \in Nat
    BY JournalTypes DEF UndoInv, TimesOk
  <2>2. EntryOk(journal[i]) /\ DbOk(db)
    BY DEF UndoInv, TypeOK
  <2>3. CASE k \in DOMAIN journal[i].before
    <3>1. RowOk(k, journal[i].before[k]) /\ k \in DOMAIN journal[i].after
      BY <2>2, <2>3 DEF EntryOk, ImageOk
    <3>2. /\ journal[i].before[k] # NULL => journal[i].before[k].stamp \in Nat /\ journal[i].before[k].stamp < journal[i].created
          /\ journal[i].after[k].stamp = journal[i].created
      BY <1>2, <2>3, <3>1, StampsAre DEF EntryStamped
    <3>3. db'[k] = journal[i].before[k] \/ db'[k] = journal[i].after[k]
      BY <1>6, <2>3
    <3>4. CASE db'[k] = journal[i].before[k]
      BY <1>1, <1>8, <2>1, <3>2, <3>4
    <3>5. CASE db'[k] = journal[i].after[k]
      BY <1>1, <2>1, <3>2, <3>5
    <3> QED BY <3>3, <3>4, <3>5
  <2>4. CASE k \notin DOMAIN journal[i].before
    <3>1. db'[k] = db[k] /\ RowOk(k, db[k])
      BY <1>6, <2>2, <2>4 DEF DbOk
    <3>2. db[k].stamp \in Nat /\ db[k].stamp < clock
      BY <1>8, <3>1, StampsAre DEF Lawful, RowsStamped
    <3> QED BY <1>1, <2>1, <3>1, <3>2
  <2> QED BY <2>3, <2>4
<1>9. RowsStamped'
  BY <1>8 DEF RowsStamped
<1> QED BY <1>4, <1>5, <1>7, <1>9 DEF Lawful

\* On every row with a history an undone operation was the last one, a redone
\* one comes after the last one.
LEMMA LastOne ==
  ASSUME UndoInv, HistoryInv, NEW i \in DOMAIN journal,
         \/ \A k \in DOMAIN journal[i].before : Undoes(i, k)
         \/ \A k \in DOMAIN journal[i].before : Redoes(i, k)
  PROVE  \A k \in ToldKeys \cap DOMAIN journal[i].before : \A j \in LiveOn(k) : j <= i
<1>1. \A k \in ToldKeys : History(k)
  BY DEF HistoryInv
<1>2. \A q \in StampedKeys \cap DOMAIN journal[i].before : \A j \in LiveOn(q) : j <= i
  <2> SUFFICES ASSUME NEW q \in StampedKeys, q \in DOMAIN journal[i].before, NEW j \in LiveOn(q) PROVE j <= i
    OBVIOUS
  <2>1. History(q)
    BY <1>1, ToldAre
  <2>2. Undoes(i, q) \/ Redoes(i, q)
    OBVIOUS
  <2>3. j \in Nat /\ i \in Nat
    BY LiveOrdered, JournalTypes DEF UndoInv
  <2>4. /\ Undoes(i, q) => j <= i
        /\ Redoes(i, q) => j < i
    BY <2>1, StampedOrder DEF HistoryInv
  <2> QED BY <2>2, <2>3, <2>4
<1> SUFFICES ASSUME NEW k \in ToldKeys, k \in DOMAIN journal[i].before PROVE \A j \in LiveOn(k) : j <= i
  OBVIOUS
<1>3. History(k) /\ (Undoes(i, k) \/ Redoes(i, k))
  BY <1>1
<1>4. CASE k \in StampedKeys
  BY <1>2, <1>4
<1>5. CASE k \in PipeKeys
  <2>1. PICK l \in LineId : k = Pipe(l)
    BY <1>5 DEF PipeKeys
  <2> QED BY <1>2, <2>1, PipeOrder DEF HistoryInv
<1>6. CASE k \in TypeKeys \cup EquipKeys
  <2>1. k \in EquipKeys => "MERGE" \notin Ops
    BY TablesDisjoint DEF ToldKeys, StampedKeys
  <2> QED BY <1>2, <1>3, <1>6, <2>1, OwnedOrder DEF HistoryInv
<1>7. CASE k \in FlagKeys
  <2>1. "MERGE" \notin Ops
    BY <1>7, TablesDisjoint DEF ToldKeys, StampedKeys
  <2> QED BY <1>3, <1>7, <2>1, FlagOrder DEF HistoryInv
<1>8. k \in StampedKeys \cup PipeKeys \cup TypeKeys \cup EquipKeys \cup FlagKeys
  BY ToldAre DEF Key, StampedKeys
<1> QED BY <1>4, <1>5, <1>6, <1>7, <1>8

LEMMA UndoKeepsHistory ==
  ASSUME UndoInv, HistoryInv, NEW a \in Actor, Undo(a)
  PROVE  HistoryInv'
<1>1. PICK i \in Undoable(a) :
        /\ Rewritten(i, clock) /\ ImagesKept(i)
        /\ \A k \in DOMAIN journal[i].before :
             /\ k \in Key /\ db[k] = journal[i].after[k]
             /\ journal'[i].redo[k] = db[k] /\ db'[k] = journal[i].before[k]
        /\ \A k \in Key \ DOMAIN journal[i].before : db'[k] = db[k]
  BY UndoRestores DEF UndoInv
<1>2. i \in DOMAIN journal /\ journal[i].undone = 0
  BY DEF Undoable, Mine
<1>3. \A k \in DOMAIN journal[i].before : Undoes(i, k)
  BY <1>1, <1>2 DEF Undoes, LiveOn
<1>4. \A k \in ToldKeys \cap DOMAIN journal[i].before : \A j \in LiveOn(k) : j <= i
  BY <1>2, <1>3, LastOne
<1>5. ASSUME NEW k \in ToldKeys PROVE History(k)'
  <2>1. k \in Key /\ History(k)
    BY ToldAre DEF HistoryInv
  <2> QED BY <1>1, <1>4, <2>1, UndoneHistory
<1>6. EntryRedo(journal'[i])
  BY <1>1 DEF EntryRedo, ImagesKept
<1>7. Lawful'
  BY <1>1, <1>2, <1>6, RewrittenLawful DEF HistoryInv, Undo
<1> QED BY <1>5, <1>7 DEF HistoryInv, ToldKeys

LEMMA RedoKeepsHistory ==
  ASSUME UndoInv, HistoryInv, NEW a \in Actor, Redo(a)
  PROVE  HistoryInv'
<1>1. PICK i \in Redoable(a) :
        /\ Rewritten(i, 0) /\ ImagesKept(i) /\ journal'[i].redo = journal[i].redo
        /\ \A k \in DOMAIN journal[i].before :
             k \in Key /\ db[k] = journal[i].before[k] /\ db'[k] = journal[i].redo[k]
        /\ \A k \in Key \ DOMAIN journal[i].before : db'[k] = db[k]
  BY RedoRestores DEF UndoInv
<1>2. i \in DOMAIN journal /\ journal[i].undone # 0 /\ journal[i].redo # NULL
  BY DEF Redoable, Reopened, Mine
<1>3. \A k \in DOMAIN journal[i].before : Redoes(i, k)
  BY <1>1, <1>2 DEF Redoes
<1>4. \A k \in DOMAIN journal[i].before : db'[k] = journal[i].after[k]
  BY <1>1, <1>2 DEF HistoryInv, Lawful, EntryLawful, EntryRedo
<1>5. \A k \in ToldKeys \cap DOMAIN journal[i].before : \A j \in LiveOn(k) : j < i
  <2>1. \A k \in ToldKeys \cap DOMAIN journal[i].before : \A j \in LiveOn(k) : j <= i
    BY <1>2, <1>3, LastOne
  <2>2. \A k : \A j \in LiveOn(k) : j # i /\ j \in DOMAIN journal
    BY <1>2 DEF LiveOn
  <2>3. DOMAIN journal \subseteq Nat
    BY JournalTypes DEF UndoInv
  <2> QED BY <1>2, <2>1, <2>2, <2>3
<1>6. ASSUME NEW k \in ToldKeys PROVE History(k)'
  <2>1. k \in Key /\ History(k)
    BY ToldAre DEF HistoryInv
  <2> QED BY <1>1, <1>4, <1>5, <2>1, RedoneHistory
<1>7. EntryRedo(journal'[i])
  BY <1>1, <1>2 DEF EntryRedo, ImagesKept, HistoryInv, Lawful, EntryLawful
<1>8. Lawful'
  BY <1>1, <1>2, <1>4, <1>7, RewrittenLawful DEF HistoryInv, Redo
<1> QED BY <1>6, <1>8 DEF HistoryInv, ToldKeys

-----------------------------------------------------------------------------
(* What the operations write in the journal.                               *)

\* An operation that captures the rows S and leaves the database d.
LawfulOp(S, d) ==
  /\ \A k \in StampedKeys \cap S : d[k] # NULL /\ d[k].stamp = clock
  /\ \A l \in LineId : Pipe(l) \in S => Line(l) \in S
  /\ \A k \in TypeKeys \cap S :
       /\ db[k] # NULL => Node(db[k].nodeid) \in S
       /\ d[k] # NULL => Node(d[k].nodeid) \in S
  /\ "MERGE" \notin Ops =>
       \A k \in EquipKeys \cap S :
         /\ db[k] # NULL /\ Line(db[k].lineid) \in S
         /\ d[k] # NULL /\ Line(d[k].lineid) \in S
  /\ "MERGE" \notin Ops => \A k \in FlagKeys \cap S : db[k] = NULL \/ d[k] = NULL
  /\ \A k \in CardKeys \cap S : db[k] = NULL => seq.card < k[2] /\ k[2] <= seq'.card
  /\ seq.card <= seq'.card

LEMMA CommitLawful ==
  ASSUME UndoInv, Lawful, NEW a, NEW op, NEW S \in SUBSET Key, NEW d, Commit(a, op, S, d),
         Covered, LawfulOp(S, d), seq' \in SeqType
  PROVE  Lawful'
<1> DEFINE n == Len(journal) + 1
           e == Entry(a, op, S, d)
<1>1. /\ DOMAIN e.before = S /\ \A k \in S : e.before[k] = db[k] /\ e.after[k] = d[k]
      /\ e.created = clock /\ e.redo = NULL
  BY DEF Entry, Image
<1>2. journal' = Append(journal, e) /\ db' = d /\ clock' = clock + 1
  BY DEF Commit
<1> HIDE DEF e
<1>3. /\ DOMAIN journal' = DOMAIN journal \cup {n} /\ n \notin DOMAIN journal
      /\ \A i \in DOMAIN journal : journal'[i] = journal[i] /\ i < n
      /\ journal'[n] = e
      /\ \A k \in Key \ S : db'[k] = db[k]
  <2>1. journal \in Seq({journal[i] : i \in DOMAIN journal})
    BY DEF UndoInv, TypeOK
  <2>2. Len(journal') = n /\ Len(journal) \in Nat
    BY <1>2, <2>1, JournalAppend, JournalTypes DEF UndoInv
  <2>3. /\ DOMAIN journal' = DOMAIN journal \cup {n} /\ n \notin DOMAIN journal
        /\ \A i \in DOMAIN journal : journal'[i] = journal[i] /\ i < n
        /\ journal'[n] = e
    BY <1>2, <2>1, JournalAppend, JournalTypes DEF UndoInv
  <2> QED BY <1>1, <2>2, <2>3 DEF Covered
<1> HIDE DEF n
<1>4. seq.card \in Int /\ seq'.card \in Int /\ clock \in Nat /\ seq.card <= seq'.card
  BY JournalTypes, BoundsAssumption DEF UndoInv, TypeOK, SeqType, LawfulOp
<1>5. CardKeys \subseteq Key /\ StampedKeys \subseteq Key /\ \A k \in CardKeys : k[2] \in Int
  BY DEF CardKeys, StampedKeys, Key, TypeKeys, FlagKeys, CardId
<1>6. EntryLawful(e)
  <2>1. EntryStamped(e)
    BY <1>1 DEF EntryStamped, LawfulOp, Lawful, RowsStamped
  <2>2. EntryOwned(e)
    BY <1>1 DEF EntryOwned, LawfulOp
  <2>3. EntryFlags(e)
    BY <1>1 DEF EntryFlags, LawfulOp
  <2>4. EntryRedo(e)
    BY <1>1 DEF EntryRedo
  <2> QED BY <2>1, <2>2, <2>3, <2>4 DEF EntryLawful
<1>7. \A i \in DOMAIN journal' : EntryLawful(journal'[i])
  BY <1>3, <1>6 DEF Lawful
<1>8. ASSUME NEW k \in CardKeys, db[k] = NULL, k \in S
      PROVE  /\ InitialDb[k] = NULL /\ \A i \in DOMAIN journal : k \notin DOMAIN journal[i].before
  <2>1. ~(k[2] <= seq.card)
    BY <1>4, <1>5, <1>8 DEF LawfulOp
  <2> QED BY <2>1 DEF Lawful, CardsNumbered
<1>9. ASSUME NEW i \in DOMAIN journal', NEW k \in CardKeys, k \in DOMAIN journal'[i].before, journal'[i].before[k] = NULL
      PROVE  /\ InitialDb[k] = NULL
             /\ \A j \in DOMAIN journal' :
                  j # i /\ k \in DOMAIN journal'[j].before => i < j /\ journal'[j].before[k] # NULL
  <2>1. CASE i = n
    BY <1>1, <1>3, <1>8, <1>9, <2>1
  <2>2. CASE i \in DOMAIN journal
    <3>1. /\ InitialDb[k] = NULL
          /\ \A j \in DOMAIN journal : j # i /\ k \in DOMAIN journal[j].before => i < j /\ journal[j].before[k] # NULL
      BY <1>3, <1>9, <2>2 DEF Lawful, MadeOnce
    <3>2. k \in S => i < n /\ db[k] # NULL
      BY <1>3, <1>8, <1>9, <2>2
    <3> QED BY <1>1, <1>3, <3>1, <3>2
  <2> QED BY <1>3, <2>1, <2>2
<1>10. MadeOnce'
  BY <1>9 DEF MadeOnce
<1>11. ASSUME NEW k \in CardKeys,
              InitialDb[k] # NULL \/ db'[k] # NULL \/ \E i \in DOMAIN journal' : k \in DOMAIN journal'[i].before
       PROVE  k[2] <= seq'.card
  <2>1. CASE k \in S /\ db[k] = NULL
    BY <2>1 DEF LawfulOp
  <2>2. CASE ~(k \in S /\ db[k] = NULL)
    <3>1. InitialDb[k] # NULL \/ db[k] # NULL \/ \E i \in DOMAIN journal : k \in DOMAIN journal[i].before
      BY <1>1, <1>2, <1>3, <1>5, <1>11, <2>2
    <3>2. k[2] <= seq.card
      BY <3>1 DEF Lawful, CardsNumbered
    <3> QED BY <1>4, <1>5, <3>2
  <2> QED BY <2>1, <2>2
<1>12. CardsNumbered'
  BY <1>11 DEF CardsNumbered
<1>13. ASSUME NEW k \in StampedKeys, db'[k] # NULL PROVE db'[k].stamp < clock'
  <2>1. CASE k \in S
    BY <1>2, <1>4, <2>1 DEF LawfulOp
  <2>2. CASE k \notin S
    <3>1. db'[k] = db[k] /\ RowOk(k, db[k])
      BY <1>3, <1>5, <2>2 DEF UndoInv, TypeOK, DbOk
    <3>2. db[k].stamp \in Nat /\ db[k].stamp < clock
      BY <1>13, <3>1, StampsAre DEF Lawful, RowsStamped
    <3> QED BY <1>2, <1>4, <3>1, <3>2
  <2> QED BY <2>1, <2>2
<1>14. RowsStamped'
  BY <1>13 DEF RowsStamped
<1> QED BY <1>7, <1>10, <1>12, <1>14 DEF Lawful

\* An operation on nodes and lines with their passports only.
LEMMA LinesTogether ==
  ASSUME NEW L \in SUBSET LineId
  PROVE  /\ \A l \in LineId : Pipe(l) \in LinesWithPipes(L) => Line(l) \in LinesWithPipes(L)
         /\ StampedKeys \cap LinesWithPipes(L) = LineKeysOf(L)
         /\ LinesWithPipes(L) \subseteq LineKeys \cup PipeKeys
<1>1. \A l \in LineId : Pipe(l) \in LinesWithPipes(L) => Line(l) \in LinesWithPipes(L)
  BY DEF LinesWithPipes, LineKeysOf, PipeKeysOf, Pipe, Line
<1>2. LineKeysOf(L) \subseteq LineKeys /\ \A d : PipeKeysOf(d, L) \subseteq PipeKeys
  BY DEF LineKeysOf, PipeKeysOf, LineKeys, PipeKeys
<1>3. PipeKeys \cap StampedKeys = {}
  BY DEF StampedKeys, PipeKeys, NodeKeys, LineKeys, Pipe, Node, Line
<1> QED BY <1>1, <1>2, <1>3 DEF LinesWithPipes, StampedKeys

LEMMA NodesAndLines ==
  ASSUME NEW S, S \subseteq NodeKeys \cup LineKeys \cup PipeKeys, NEW d,
         \A k \in StampedKeys \cap S : d[k] # NULL /\ d[k].stamp = clock,
         \A l \in LineId : Pipe(l) \in S => Line(l) \in S,
         TypeOK, seq'.card = seq.card
  PROVE  LawfulOp(S, d)
<1>1. \A k \in S : k \notin TypeKeys /\ k \notin EquipKeys /\ k \notin FlagKeys
  BY TablesDisjoint
<1>2. seq.card <= seq'.card
  BY BoundsAssumption DEF TypeOK
<1> QED BY <1>1, <1>2 DEF LawfulOp, CardKeys

LEMMA LineStamps ==
  ASSUME NEW d, NEW L \in SUBSET LineId, NEW now, NEW l \in L, d[Line(l)] \in LineRow
  PROVE  /\ \A n : SnapEnds(d, L, n, now)[Line(l)].stamp = now
         /\ RemoveLines(d, L, now)[Line(l)].stamp = now
         /\ Turned(d, L, now)[Line(l)].stamp = now
<1>1. Line(l) \in Key /\ Line(l) \in LineKeysOf(L) /\ \A e : Line(l) \notin PipeKeysOf(e, L)
  BY Keys DEF LineKeysOf, PipeKeysOf, Line, Pipe
<1>2. DOMAIN d[Line(l)] = {"n1", "n2", "sign", "shape", "removed", "stamp"}
  BY DEF LineRow
<1>3. \A n : SnapEnds(d, L, n, now)[Line(l)].stamp = now
  BY <1>1, <1>2 DEF SnapEnds, Update
<1>4. RemoveLines(d, L, now)[Line(l)].stamp = now
  BY <1>1, <1>2 DEF RemoveLines, Update
<1>5. Turned(d, L, now)[Line(l)].stamp = now
  BY <1>1, <1>2 DEF Turned, Update
<1> QED BY <1>3, <1>4, <1>5

LEMMA NodeStamp ==
  ASSUME NEW d, NEW n \in NodeId, NEW now, d[Node(n)] \in NodeRow
  PROVE  RemoveNode(d, n, now)[Node(n)].stamp = now
BY Keys DEF RemoveNode, Update, NodeRow

\* A passport is not a stamped row, the lines and nodes are.
LEMMA StampedAre ==
  /\ \A n \in NodeId : Node(n) \in StampedKeys /\ \A L : Node(n) \notin LineKeysOf(L)
  /\ \A l \in LineId : Line(l) \in StampedKeys
  /\ \A d, L : \A k \in StampedKeys : k \notin PipeKeysOf(d, L)
  /\ StampedKeys \subseteq Key
<1>1. \A n \in NodeId : Node(n) \in StampedKeys /\ \A L : Node(n) \notin LineKeysOf(L)
  BY KeyTables DEF StampedKeys, LineKeysOf, Node, Line
<1>2. \A l \in LineId : Line(l) \in StampedKeys
  BY KeyTables DEF StampedKeys
<1>3. \A d, L : \A k \in StampedKeys : k \notin PipeKeysOf(d, L)
  BY DEF StampedKeys, PipeKeysOf, NodeKeys, LineKeys, Node, Line, Pipe
<1> QED BY <1>1, <1>2, <1>3 DEF StampedKeys, Key

\* Measuring leaves the stamps.
LEMMA MeasuredStamps ==
  ASSUME NEW d, NEW L
  PROVE  \A k \in StampedKeys : Measured(d, L)[k] = d[k]
BY StampedAre, Frames DEF SameOutside

\* An operation that changes nodes and lines that are there.
LEMMA Restamped ==
  ASSUME UndoInv, Lawful, Covered, NEW a, NEW op, NEW N \in SUBSET NodeKeys, NEW L \in SUBSET LineId, NEW d,
         Commit(a, op, N \cup LinesWithPipes(L), d), UNCHANGED seq, Kept(db, d),
         \A k \in N : db[k] # NULL /\ d[k].stamp = clock,
         \A l \in L : db[Line(l)] # NULL /\ d[Line(l)].stamp = clock
  PROVE  Lawful'
<1> DEFINE S == N \cup LinesWithPipes(L)
<1>1. \A k \in StampedKeys \cap S : k \in N \/ k \in LineKeysOf(L)
  BY LinesTogether
<1>2. \A k \in StampedKeys \cap S : d[k] # NULL /\ d[k].stamp = clock
  BY <1>1, StampedAre DEF Kept, LineKeysOf
<1>3. \A l \in LineId : Pipe(l) \in S => Line(l) \in S
  BY LinesTogether DEF NodeKeys, Node, Pipe
<1>4. S \subseteq NodeKeys \cup LineKeys \cup PipeKeys /\ S \in SUBSET Key
  BY LinesTogether DEF Key
<1>5. TypeOK /\ seq' \in SeqType /\ seq'.card = seq.card
  BY DEF UndoInv, TypeOK, SeqType
<1> HIDE DEF S
<1>6. LawfulOp(S, d)
  BY <1>2, <1>3, <1>4, <1>5, NodesAndLines
<1> QED BY <1>4, <1>5, <1>6, CommitLawful DEF S

LEMMA MoveNodeLawful ==
  ASSUME UndoInv, Lawful, Covered, NEW a, NEW n \in NodeId, NEW p \in Pos, MoveNode(a, n, p)
  PROVE  Lawful'
<1> DEFINE inc == Incident(db, n)
           d1  == Update(db, {Node(n)}, LAMBDA k : [db[k] EXCEPT !.pos = p, !.stamp = clock])
           d   == Measured(Moved(n, p), inc)
<1>1. clock \in Stamp /\ DbOk(db) /\ Node(n) \in Key /\ Node(n) \in NodeKeys /\ db[Node(n)] # NULL
  BY Keys, KeyTables, BoundsAssumption DEF MoveNode, Commit, UndoInv, TypeOK, Stamp, Active
<1>2. inc \in SUBSET LineId /\ \A l \in inc : db[Line(l)] # NULL
  BY Keys DEF Incident
<1>3. DbOk(Moved(n, p)) /\ Kept(db, Moved(n, p))
  BY <1>1, MovedRows
<1>4. Kept(Moved(n, p), d)
  BY <1>2, <1>3, MeasuredType, Keys DEF Kept
<1>5. Commit(a, "MOVE", {Node(n)} \cup LinesWithPipes(inc), d) /\ UNCHANGED seq
  BY DEF MoveNode, NodeMoved, Moved, IncidentLines
<1>6. Moved(n, p) = SnapEnds(d1, inc, n, clock)
  BY DEF Moved
<1> HIDE DEF inc
<1>7. d1[Node(n)].stamp = clock /\ \A l \in inc : d1[Line(l)] = db[Line(l)]
  <2>1. db[Node(n)] \in NodeRow
    BY <1>1, NodeRows
  <2>2. \A l \in inc : Line(l) \in Key /\ Line(l) # Node(n)
    BY <1>2, Keys DEF Line, Node
  <2> QED BY <1>1, <2>1, <2>2 DEF Update, NodeRow
<1>8. d[Node(n)].stamp = clock
  <2>1. Moved(n, p)[Node(n)] = d1[Node(n)]
    BY <1>1, <1>6, StampedAre, Frames DEF SameOutside
  <2> QED BY <1>7, <2>1, StampedAre, MeasuredStamps
<1>9. \A l \in inc : d[Line(l)].stamp = clock
  <2> SUFFICES ASSUME NEW l \in inc PROVE d[Line(l)].stamp = clock
    OBVIOUS
  <2>1. d1[Line(l)] \in LineRow
    BY <1>1, <1>2, <1>7, LineRows
  <2>2. Moved(n, p)[Line(l)].stamp = clock
    BY <1>2, <1>6, <2>1, LineStamps
  <2> QED BY <1>2, <2>2, StampedAre, MeasuredStamps
<1>10. Kept(db, d)
  BY <1>3, <1>4 DEF Kept
<1> HIDE DEF d
<1>11. {Node(n)} \in SUBSET NodeKeys /\ \A k \in {Node(n)} : db[k] # NULL /\ d[k].stamp = clock
  BY <1>1, <1>8
<1> QED BY <1>2, <1>5, <1>9, <1>10, <1>11, Restamped

LEMMA DeleteNodeLawful ==
  ASSUME UndoInv, Lawful, Covered, NEW a, NEW n \in NodeId, NEW cascade, DeleteNode(a, n, cascade)
  PROVE  Lawful'
<1> DEFINE inc == ActiveIncident(db, n)
           d1  == RemoveLines(db, inc, clock)
           d2  == RemoveNode(d1, n, clock)
<1>1. clock \in Stamp /\ DbOk(db) /\ Node(n) \in Key /\ Node(n) \in NodeKeys /\ db[Node(n)] # NULL
  BY Keys, KeyTables, BoundsAssumption DEF DeleteNode, Commit, UndoInv, TypeOK, Stamp, Active
<1>2. inc \in SUBSET LineId /\ \A l \in inc : db[Line(l)] # NULL
  BY Keys DEF Incident, ActiveIncident
<1>3. DbOk(d1) /\ Kept(db, d1)
  BY <1>1, <1>2, RemoveLinesType
<1>4. d1[Node(n)] \in NodeRow
  BY <1>1, <1>3, NodeRows DEF Kept
<1>5. Kept(d1, d2)
  BY <1>1, <1>3, RemoveNodeType DEF Kept
<1>6. Commit(a, "DELETE_NODE", {Node(n)} \cup LinesWithPipes(inc), d2) /\ UNCHANGED seq
  BY DEF DeleteNode, NodeDeleted
<1> HIDE DEF inc
<1>7. d2[Node(n)].stamp = clock
  BY <1>4, NodeStamp
<1>8. \A l \in inc : d2[Line(l)].stamp = clock
  <2> SUFFICES ASSUME NEW l \in inc PROVE d2[Line(l)].stamp = clock
    OBVIOUS
  <2>1. d1[Line(l)].stamp = clock
    BY <1>1, <1>2, LineRows, LineStamps
  <2>2. d2[Line(l)] = d1[Line(l)]
    <3>1. Line(l) \in Key /\ Line(l) # Node(n)
      BY <1>2, Keys DEF Line, Node
    <3> QED BY <3>1, Frames DEF SameOutside
  <2> QED BY <2>1, <2>2
<1>9. Kept(db, d2)
  BY <1>3, <1>5 DEF Kept
<1> HIDE DEF d2
<1>10. {Node(n)} \in SUBSET NodeKeys /\ \A k \in {Node(n)} : db[k] # NULL /\ d2[k].stamp = clock
  BY <1>1, <1>7
<1> QED BY <1>2, <1>6, <1>8, <1>9, <1>10, Restamped

LEMMA DeleteLineLawful ==
  ASSUME UndoInv, Lawful, Covered, NEW a, NEW l \in LineId, NEW pair \in BOOLEAN, DeleteLine(a, l, pair)
  PROVE  Lawful'
<1> DEFINE L == WithPair(l, pair)
           d == RemoveLines(db, L, clock)
<1>1. clock \in Stamp /\ DbOk(db)
  BY BoundsAssumption DEF DeleteLine, Commit, UndoInv, TypeOK, Stamp
<1>2. L \in SUBSET LineId /\ \A m \in L : db[Line(m)] # NULL
  BY WithPairLines DEF DeleteLine, Active
<1>3. Kept(db, d)
  BY <1>1, <1>2, RemoveLinesType
<1>4. Commit(a, "DELETE_LINE", {} \cup LinesWithPipes(L), d) /\ UNCHANGED seq
  BY DEF DeleteLine, WithPair
<1> HIDE DEF L
<1>5. \A m \in L : d[Line(m)].stamp = clock
  BY <1>1, <1>2, LineRows, LineStamps
<1> HIDE DEF d
<1>6. {} \in SUBSET NodeKeys /\ \A k \in {} : db[k] # NULL /\ d[k].stamp = clock
  OBVIOUS
<1> QED BY <1>2, <1>3, <1>4, <1>5, <1>6, Restamped

LEMMA UpdateGeometryLawful ==
  ASSUME UndoInv, Lawful, Covered, NEW a, NEW l \in LineId, NEW via \in {0, 1}, UpdateGeometry(a, l, via)
  PROVE  Lawful'
<1> DEFINE d == Measured(Redrawn(l, via), {l})
<1>1. clock \in Stamp /\ DbOk(db) /\ db[Line(l)] # NULL /\ \A n \in Ends(db, l) : db[Node(n)] # NULL
  BY BoundsAssumption DEF UpdateGeometry, Commit, UndoInv, TypeOK, Stamp, Active
<1>2. DbOk(Redrawn(l, via)) /\ Kept(db, Redrawn(l, via))
  BY <1>1, RedrawnRows
<1>3. Kept(Redrawn(l, via), d)
  BY <1>1, <1>2, MeasuredType, Keys DEF Kept
<1>4. Commit(a, "GEOMETRY", {} \cup LinesWithPipes({l}), d) /\ UNCHANGED seq
  BY DEF UpdateGeometry, Reshaped, Redrawn
<1>5. Redrawn(l, via)[Line(l)].stamp = clock
  <2> DEFINE d1 == Update(db, {Line(l)}, LAMBDA k : [db[k] EXCEPT !.shape.via = via])
             d2 == SnapEnds(d1, {l}, db[Line(l)].n1, clock)
             d3 == SnapEnds(d2, {l}, db[Line(l)].n2, clock)
  <2>1. Redrawn(l, via) = d3
    BY DEF Redrawn
  <2>2. Line(l) \in Key /\ Line(l) \in LineKeysOf({l})
    BY Keys DEF LineKeysOf
  <2>3. db[Line(l)] \in LineRow
    BY <1>1, LineRows
  <2>4. "stamp" \in DOMAIN d1[Line(l)]
    BY <2>2, <2>3 DEF Update, LineRow
  <2> HIDE DEF d1
  <2>5. "stamp" \in DOMAIN d2[Line(l)]
    BY <2>2, <2>4 DEF SnapEnds, Update
  <2> HIDE DEF d2
  <2>6. d3[Line(l)].stamp = clock
    BY <2>2, <2>5 DEF SnapEnds, Update
  <2> QED BY <2>1, <2>6
<1>6. d[Line(l)].stamp = clock
  BY <1>5, StampedAre, MeasuredStamps
<1>7. Kept(db, d)
  BY <1>2, <1>3 DEF Kept
<1> HIDE DEF d
<1>8. {} \in SUBSET NodeKeys /\ \A k \in {} : db[k] # NULL /\ d[k].stamp = clock
  OBVIOUS
<1>9. {l} \in SUBSET LineId /\ \A m \in {l} : db[Line(m)] # NULL /\ d[Line(m)].stamp = clock
  BY <1>1, <1>6
<1> QED BY <1>4, <1>7, <1>8, <1>9, Restamped

\* A reversal leaves the passports as they are.
LEMMA ReverseLineLawful ==
  ASSUME UndoInv, Lawful, Covered, NEW a, NEW l \in LineId, NEW pair \in BOOLEAN, ReverseLine(a, l, pair)
  PROVE  Lawful'
<1> DEFINE L == WithPair(l, pair)
           d == Turned(db, L, clock)
           S == LineKeysOf(L)
<1>1. clock \in Stamp /\ DbOk(db)
  BY BoundsAssumption DEF ReverseLine, Commit, UndoInv, TypeOK, Stamp
<1>2. L \in SUBSET LineId /\ \A m \in L : db[Line(m)] # NULL
  BY WithPairLines DEF ReverseLine, Active
<1>3. Kept(db, d)
  BY <1>1, <1>2, TurnedType
<1>4. Commit(a, "REVERSE", S, d) /\ UNCHANGED seq
  BY DEF ReverseLine, WithPair
<1> HIDE DEF L
<1>5. \A m \in L : d[Line(m)].stamp = clock /\ d[Line(m)] # NULL
  BY <1>1, <1>2, <1>3, LineRows, LineStamps, Keys DEF Kept
<1> HIDE DEF d
<1>6. /\ S \subseteq LineKeys /\ S \in SUBSET Key
      /\ \A k \in StampedKeys \cap S : d[k] # NULL /\ d[k].stamp = clock
      /\ \A m \in LineId : Pipe(m) \notin S
  BY <1>2, <1>5, Keys, KeyTables DEF LineKeysOf, Line, Pipe
<1>7. TypeOK /\ seq' \in SeqType /\ seq'.card = seq.card
  BY <1>4 DEF UndoInv, TypeOK, SeqType
<1> HIDE DEF S
<1>8. LawfulOp(S, d)
  BY <1>6, <1>7, NodesAndLines
<1> QED BY <1>4, <1>6, <1>7, <1>8, CommitLawful

LEMMA DissolveNodeLawful ==
  ASSUME UndoInv, Lawful, Covered, NEW a, NEW n \in NodeId, DissolveNode(a, n)
  PROVE  Lawful'
<1> DEFINE joins == Joins(db, n)
           kept  == {j[1] : j \in joins}
           gone  == {j[2] : j \in joins}
           d1    == Extended(db, joins, n, clock)
           d2    == Measured(d1, kept)
           d3    == RemoveLines(d2, gone, clock)
           d4    == RemoveNode(d3, n, clock)
<1>1. Commit(a, "DISSOLVE_NODE", {Node(n)} \cup LinesWithPipes(kept \cup gone), d4) /\ UNCHANGED seq /\ db[Node(n)] # NULL
  BY DEF DissolveNode, NodeDissolved, Active
<1>2. clock \in Stamp /\ DbOk(db)
  BY <1>1, BoundsAssumption DEF Commit, UndoInv, TypeOK, Stamp
<1>3. \A j \in joins : j \in LineId \X LineId /\ db[Line(j[1])] # NULL /\ db[Line(j[2])] # NULL
  BY JoinLines
<1>4. /\ kept \in SUBSET LineId /\ \A l \in kept : db[Line(l)] # NULL
      /\ gone \in SUBSET LineId /\ \A l \in gone : db[Line(l)] # NULL
  BY <1>3
<1>5. Node(n) \in Key /\ Node(n) \in NodeKeys /\ \A l \in LineId : Line(l) \in Key /\ Line(l) # Node(n)
  BY Keys, KeyTables DEF Line, Node
<1>6. kept \cap gone = {}
  BY DEF Joins, KeptLines
<1>7. DbOk(d1) /\ Kept(db, d1)
  BY <1>2, ExtendedRows
<1>8. \A l \in kept : d1[Line(l)].stamp = clock
  <2> SUFFICES ASSUME NEW l \in kept PROVE d1[Line(l)].stamp = clock
    OBVIOUS
  <2> DEFINE c == CHOOSE j \in joins : Line(l) = Line(j[1])
  <2>1. c \in joins /\ Line(l) = Line(c[1])
    OBVIOUS
  <2>2. d1[Line(l)] = Joined(db, c, n, clock)
    BY <1>4, <1>5, <2>1 DEF Extended
  <2>3. db[Line(c[1])] \in LineRow
    BY <1>2, <1>3, <2>1, LineRows
  <2> HIDE DEF c, joins, d1
  <2> QED BY <2>2, <2>3 DEF Joined, LineRow
<1> HIDE DEF d1, joins, kept, gone
<1>9. DbOk(d2) /\ Kept(d1, d2)
  BY <1>4, <1>5, <1>7, MeasuredType DEF Kept
<1>10. \A k \in StampedKeys : d2[k] = d1[k]
  BY MeasuredStamps
<1> HIDE DEF d2
<1>11. DbOk(d3) /\ Kept(d2, d3) /\ \A l \in gone : d2[Line(l)] \in LineRow
  BY <1>2, <1>4, <1>5, <1>7, <1>9, RemoveLinesType, LineRows DEF Kept
<1>12. /\ \A l \in gone : d3[Line(l)].stamp = clock
       /\ \A l \in kept : d3[Line(l)].stamp = clock
  <2>1. \A l \in gone : d3[Line(l)].stamp = clock
    BY <1>4, <1>11, LineStamps
  <2>2. \A l \in kept : d3[Line(l)] = d2[Line(l)]
    <3>1. \A l \in kept : Line(l) \in Key /\ Line(l) \in StampedKeys /\ Line(l) \notin LineKeysOf(gone)
      BY <1>4, <1>6, Keys, StampedAre DEF LineKeysOf, Line
    <3> QED BY <3>1, Frames, StampedAre DEF SameOutside
  <2> QED BY <1>4, <1>8, <1>10, <2>1, <2>2, StampedAre
<1> HIDE DEF d3
<1>13. Kept(d3, d4) /\ d3[Node(n)] \in NodeRow
  BY <1>1, <1>2, <1>5, <1>7, <1>9, <1>11, RemoveNodeType, NodeRows DEF Kept
<1>14. d4[Node(n)].stamp = clock
  BY <1>13, NodeStamp
<1>15. \A l \in kept \cup gone : d4[Line(l)] = d3[Line(l)]
  BY <1>4, <1>5, Frames DEF SameOutside
<1>16. Kept(db, d4)
  BY <1>7, <1>9, <1>11, <1>13 DEF Kept
<1> HIDE DEF d4
<1>17. {Node(n)} \in SUBSET NodeKeys /\ \A k \in {Node(n)} : db[k] # NULL /\ d4[k].stamp = clock
  BY <1>1, <1>5, <1>14
<1>18. kept \cup gone \in SUBSET LineId /\ \A l \in kept \cup gone : db[Line(l)] # NULL /\ d4[Line(l)].stamp = clock
  BY <1>4, <1>12, <1>15
<1> QED BY <1>1, <1>16, <1>17, <1>18, Restamped

LEMMA CreateLineLawful ==
  ASSUME UndoInv, Lawful, Covered, NEW a, NEW x \in NodeId, NEW y \in NodeId, CreateLine(a, x, y)
  PROVE  Lawful'
<1> DEFINE l     == NextLine
           shape == [start |-> db[Node(x)].pos, via |-> 0, finish |-> db[Node(y)].pos]
           d     == NewLine(db, l, x, y, clock)
           S     == {Line(l), Pipe(l)}
<1>1. Commit(a, "CREATE_LINE", S, d) /\ seq' = [seq EXCEPT !.line = l] /\ l \in LineId
  BY DEF CreateLine
<1>2. Line(l) \in Key /\ Line(l) \in LineKeys /\ Pipe(l) \in Key /\ Pipe(l) \in PipeKeys /\ Line(l) # Pipe(l)
  BY <1>1, Keys, KeyTables DEF Line, Pipe
<1>3. clock \in Stamp /\ DbOk(db) /\ TypeOK
  BY <1>1, BoundsAssumption DEF Commit, UndoInv, TypeOK, Stamp
<1>4. db[Node(x)] \in NodeRow /\ db[Node(y)] \in NodeRow
  BY <1>3, NodeRows DEF CreateLine, Active
<1>5. shape \in Shape
  BY <1>4 DEF Shape, NodeRow
<1>6. d[Line(l)] = [n1 |-> x, n2 |-> y, sign |-> 0, shape |-> shape, removed |-> FALSE, stamp |-> clock]
  BY <1>2 DEF NewLine, Update
<1>7. d[Line(l)] \in LineRow
  BY <1>1, <1>3, <1>5, <1>6 DEF LineRow, Sign
<1>8. d[Line(l)] # NULL /\ d[Line(l)].stamp = clock
  <2>1. d[Line(l)] # NULL
    BY <1>7, NullAssumption
  <2>2. d[Line(l)].stamp = clock
    BY <1>6
  <2> QED BY <2>1, <2>2
<1>9. seq' \in SeqType /\ seq'.card = seq.card
  BY <1>1, <1>3 DEF TypeOK, SeqType, LineId
<1>10. \A k \in StampedKeys \cap S : k = Line(l)
  BY <1>2, TablesDisjoint DEF StampedKeys
<1>11. \A m \in LineId : Pipe(m) \in S => Line(m) \in S
  BY DEF Pipe, Line
<1>12. S \subseteq NodeKeys \cup LineKeys \cup PipeKeys /\ S \in SUBSET Key
  BY <1>2
<1>13. \A k \in StampedKeys \cap S : d[k] # NULL /\ d[k].stamp = clock
  BY <1>8, <1>10
<1> HIDE DEF d, S
<1>14. LawfulOp(S, d)
  BY <1>3, <1>9, <1>11, <1>12, <1>13, NodesAndLines
<1> QED BY <1>1, <1>9, <1>12, <1>14, CommitLawful

\* A new card has an id that no card has had.
LEMMA CardIsNew ==
  ASSUME UndoInv, Lawful, NEW k \in CardKeys, k[2] = NextCard
  PROVE  db[k] = NULL /\ seq.card < k[2]
<1>1. seq.card \in Nat
  BY BoundsAssumption DEF UndoInv, TypeOK
<1>2. ~(k[2] <= seq.card)
  BY <1>1 DEF NextCard
<1> QED BY <1>1, <1>2 DEF Lawful, CardsNumbered, NextCard

\* The sequence is advanced by as many cards as are made, one at most.
LEMMA CardsCounted ==
  ASSUME TypeOK, NEW cards, NEW table, cards \in {{}, NewCards(table)},
         seq'.card = seq.card + Cardinality(cards)
  PROVE  /\ seq.card <= seq'.card
         /\ \A k \in cards : k[2] = NextCard /\ k[2] <= seq'.card
<1>1. seq.card \in Nat
  BY BoundsAssumption DEF TypeOK
<1>2. cards = {} \/ cards = {<<table, NextCard>>}
  BY DEF NewCards
<1>3. CASE cards = {}
  BY <1>1, <1>3, FS_EmptySet
<1>4. CASE cards = {<<table, NextCard>>}
  <2>1. Cardinality(cards) = 1
    BY <1>4, FS_Singleton
  <2> QED BY <1>1, <1>4, <2>1 DEF NextCard
<1> QED BY <1>2, <1>3, <1>4

\* An operation on one node and its cards of a type.
LEMMA TypeCards ==
  ASSUME UndoInv, Lawful, NEW n \in NodeId, NEW C \in SUBSET TypeKeys, NEW d,
         d[Node(n)] # NULL, d[Node(n)].stamp = clock,
         \A k \in C : db[k] # NULL => db[k].nodeid = n,
         \A k \in C : d[k] # NULL => d[k].nodeid = n,
         \A k \in C : db[k] = NULL => k[2] = NextCard /\ k[2] <= seq'.card,
         seq.card <= seq'.card
  PROVE  LawfulOp({Node(n)} \cup C, d) /\ {Node(n)} \cup C \in SUBSET Key
<1> DEFINE S == {Node(n)} \cup C
<1>1. Node(n) \in NodeKeys /\ Node(n) \in Key
  BY Keys, KeyTables
<1>2. /\ \A k \in StampedKeys \cap S : k = Node(n)
      /\ \A l \in LineId : Pipe(l) \notin S
      /\ EquipKeys \cap S = {} /\ FlagKeys \cap S = {} /\ CardKeys \cap S = C
  BY <1>1, TablesDisjoint, KeyTables DEF StampedKeys, CardKeys
<1>3. \A k \in CardKeys \cap S : db[k] = NULL => seq.card < k[2] /\ k[2] <= seq'.card
  BY <1>2, CardIsNew
<1>4. \A k \in TypeKeys \cap S : k \in C
  BY <1>1, TablesDisjoint
<1>5. S \in SUBSET Key
  BY <1>1 DEF Key
<1> QED BY <1>2, <1>3, <1>4, <1>5 DEF LawfulOp

LEMMA CreateNodeLawful ==
  ASSUME UndoInv, TypeOK', Lawful, Covered, NEW a, NEW p \in Pos, NEW table, CreateNode(a, p, table)
  PROVE  Lawful'
<1> DEFINE n     == NextNode
           cards == NewCards(table)
           d1    == Update(db, {Node(n)}, LAMBDA k : [pos |-> p, removed |-> FALSE, stamp |-> clock])
           d2    == WithCards(d1, cards, n)
<1>1. /\ n \in NodeId /\ cards \subseteq TypeKeys
      /\ Commit(a, "CREATE_NODE", {Node(n)} \cup cards, d2)
      /\ seq' = [seq EXCEPT !.node = n, !.card = @ + Cardinality(cards)]
  BY DEF CreateNode
<1>2. seq'.card = seq.card + Cardinality(cards) /\ TypeOK /\ seq' \in SeqType
  BY <1>1 DEF UndoInv, TypeOK, SeqType
<1>3. seq.card <= seq'.card /\ \A k \in cards : k[2] = NextCard /\ k[2] <= seq'.card
  BY <1>2, CardsCounted
<1>4. clock \in Stamp
  <2>1. clock <= MaxClock
    BY <1>1 DEF Commit
  <2> QED BY <1>2, <2>1, BoundsAssumption DEF TypeOK, Stamp
<1> HIDE DEF n, cards
<1>5. Node(n) \in Key /\ Node(n) \notin cards /\ cards \in SUBSET TypeKeys /\ cards \subseteq Key
  BY <1>1, Keys, KeyTables, TablesDisjoint DEF Key
<1>6. d2[Node(n)] = [pos |-> p, removed |-> FALSE, stamp |-> clock]
  BY <1>5 DEF Update, WithCards
<1>7. \A k \in cards : d2[k].nodeid = n
  BY <1>5 DEF WithCards, Update
<1>8. \A k \in cards : db[k] = NULL
  BY <1>3, <1>5, CardIsNew DEF CardKeys
<1> HIDE DEF d2
<1>9. d2[Node(n)] # NULL
  <2>1. d2[Node(n)] \in NodeRow
    BY <1>4, <1>6 DEF NodeRow
  <2> QED BY <2>1, NullAssumption
<1>10. d2[Node(n)].stamp = clock
  BY <1>6
<1>11. /\ \A k \in cards : db[k] # NULL => db[k].nodeid = n
       /\ \A k \in cards : d2[k] # NULL => d2[k].nodeid = n
       /\ \A k \in cards : db[k] = NULL => k[2] = NextCard /\ k[2] <= seq'.card
  BY <1>3, <1>7, <1>8
<1>12. n \in NodeId
  BY <1>1
<1>13. cards \in SUBSET TypeKeys /\ seq.card <= seq'.card
  BY <1>3, <1>5
<1>14. LawfulOp({Node(n)} \cup cards, d2) /\ {Node(n)} \cup cards \in SUBSET Key
  BY <1>9, <1>10, <1>11, <1>12, <1>13, TypeCards
<1> QED BY <1>1, <1>2, <1>14, CommitLawful

LEMMA ChangeNodeTypeLawful ==
  ASSUME UndoInv, TypeOK', Lawful, Covered, NEW a, NEW n \in NodeId, NEW table, ChangeNodeType(a, n, table)
  PROVE  Lawful'
<1> DEFINE cards == TypesAt(db, n)
           same  == {k \in cards : k[1] = table}
           keep  == {k \in same : \A j \in same : k[2] <= j[2]}
           out   == cards \ keep
           new   == IF keep = {} THEN NewCards(table) ELSE {}
           d1    == Update(db, out, LAMBDA k : NULL)
           d2    == Update(d1, {Node(n)}, LAMBDA k : [d1[k] EXCEPT !.stamp = clock])
           d3    == WithCards(d2, new, n)
           C     == out \cup new
<1>1. /\ Commit(a, "CHANGE_NODE_TYPE", {Node(n)} \cup out \cup new, d3)
      /\ seq' = [seq EXCEPT !.card = @ + Cardinality(new)]
      /\ new \subseteq TypeKeys /\ db[Node(n)] # NULL
  BY DEF ChangeNodeType, Active
<1>2. seq'.card = seq.card + Cardinality(new) /\ TypeOK /\ seq' \in SeqType /\ DbOk(db)
  BY <1>1 DEF UndoInv, TypeOK, SeqType
<1>3. seq.card <= seq'.card /\ \A k \in new : k[2] = NextCard /\ k[2] <= seq'.card
  <2>1. new \in {{}, NewCards(table)}
    OBVIOUS
  <2> QED BY <1>2, <2>1, CardsCounted
<1>4. Node(n) \in Key /\ Node(n) \in NodeKeys /\ clock \in Stamp
  BY <1>1, Keys, KeyTables, BoundsAssumption DEF Commit, UndoInv, TypeOK, Stamp
<1>5. out \subseteq TypeKeys /\ \A k \in out : db[k] # NULL /\ db[k].nodeid = n
  BY DEF TypesAt
<1> HIDE DEF out, new
<1>6. C \in SUBSET TypeKeys /\ Node(n) \notin C /\ TypeKeys \subseteq Key
  BY <1>1, <1>4, <1>5, TablesDisjoint DEF Key
<1>7. \A k \in new : db[k] = NULL
  BY <1>1, <1>3, CardIsNew DEF CardKeys
<1>8. db[Node(n)] \in NodeRow
  BY <1>1, <1>2, NodeRows
<1>9. d3[Node(n)] = [db[Node(n)] EXCEPT !.stamp = clock]
  BY <1>4, <1>6 DEF Update, WithCards
<1>10. d3[Node(n)] # NULL /\ d3[Node(n)].stamp = clock
  <2>1. d3[Node(n)] \in NodeRow /\ d3[Node(n)].stamp = clock
    BY <1>4, <1>8, <1>9 DEF NodeRow
  <2> QED BY <2>1, NullAssumption
<1>11. \A k \in C : d3[k] # NULL => d3[k].nodeid = n
  <2>1. \A k \in new : d3[k].nodeid = n
    BY <1>6 DEF WithCards, Update
  <2>2. \A k \in out \ new : d3[k] = NULL
    BY <1>4, <1>6 DEF WithCards, Update
  <2> QED BY <2>1, <2>2
<1> HIDE DEF d3
<1>12. \A k \in C : /\ db[k] # NULL => db[k].nodeid = n
                    /\ db[k] = NULL => k[2] = NextCard /\ k[2] <= seq'.card
  BY <1>3, <1>5, <1>7
<1> HIDE DEF C
<1>13. LawfulOp({Node(n)} \cup C, d3) /\ {Node(n)} \cup C \in SUBSET Key
  BY <1>3, <1>6, <1>10, <1>11, <1>12, TypeCards
<1>14. {Node(n)} \cup C = {Node(n)} \cup out \cup new
  BY DEF C
<1> QED BY <1>1, <1>2, <1>13, <1>14, CommitLawful

LEMMA SetFlagLawful ==
  ASSUME UndoInv, TypeOK', Lawful, Covered, NEW a, NEW n \in NodeId, SetFlag(a, n)
  PROVE  Lawful'
<1> DEFINE k == <<FlagTable, NextCard>>
           d == WithCards(db, {k}, n)
<1>1. /\ Commit(a, "SET_NODE_FLAG", {k}, d) /\ k \in FlagKeys
      /\ seq' = [seq EXCEPT !.card = NextCard] /\ k[2] = NextCard
  BY DEF SetFlag
<1>2. seq' \in SeqType /\ seq'.card = k[2] /\ seq.card <= seq'.card /\ {k} \in SUBSET Key
  BY <1>1, BoundsAssumption DEF UndoInv, TypeOK, SeqType, NextCard, Key
<1>3. db[k] = NULL /\ seq.card < k[2] /\ k[2] <= seq'.card
  <2>1. k \in CardKeys
    BY <1>1 DEF CardKeys
  <2>2. seq'.card \in Nat
    BY <1>2, BoundsAssumption DEF SeqType
  <2> QED BY <1>1, <1>2, <2>1, <2>2, CardIsNew
<1> HIDE DEF d, k
<1>4. k \notin StampedKeys /\ k \notin TypeKeys /\ k \notin EquipKeys /\ \A l \in LineId : Pipe(l) # k
  BY <1>1, TablesDisjoint, KeyTables DEF StampedKeys
<1>5. LawfulOp({k}, d)
  BY <1>2, <1>3, <1>4 DEF LawfulOp
<1> QED BY <1>1, <1>2, <1>5, CommitLawful

LEMMA ClearFlagLawful ==
  ASSUME UndoInv, Lawful, Covered, NEW a, NEW n \in NodeId, ClearFlag(a, n)
  PROVE  Lawful'
<1> DEFINE flags == FlagsAt(db, n)
           d     == Update(db, flags, LAMBDA k : NULL)
<1>1. Commit(a, "SET_NODE_FLAG", flags, d) /\ UNCHANGED seq
  BY DEF ClearFlag
<1>2. flags \subseteq FlagKeys /\ flags \in SUBSET Key /\ \A k \in flags : db[k] # NULL
  BY Keys DEF FlagsAt
<1>3. \A k \in flags : d[k] = NULL
  BY <1>2 DEF Update
<1>4. \A k \in flags : k \notin StampedKeys /\ k \notin TypeKeys /\ k \notin EquipKeys /\ \A l \in LineId : Pipe(l) # k
  BY <1>2, TablesDisjoint, KeyTables DEF StampedKeys
<1>5. seq' \in SeqType /\ seq.card <= seq'.card
  BY <1>1, BoundsAssumption DEF UndoInv, TypeOK, SeqType
<1> HIDE DEF flags, d
<1>6. LawfulOp(flags, d)
  BY <1>2, <1>3, <1>4, <1>5 DEF LawfulOp
<1> QED BY <1>1, <1>2, <1>5, <1>6, CommitLawful

LEMMA CutStamps ==
  ASSUME NEW l \in LineId, NEW n \in NodeId, NEW m \in LineId, NEW p \in Pos, NEW via1, NEW via2,
         db[Line(l)] \in LineRow, clock \in Stamp
  PROVE  LET c == Cut(l, n, m, p, via1, via2) IN
         /\ c[Node(n)] # NULL /\ c[Node(n)].stamp = clock
         /\ c[Line(l)].stamp = clock /\ c[Line(m)].stamp = clock
<1> DEFINE old == db[Line(l)]
           low == [old EXCEPT !.n2 = n, !.stamp = clock, !.shape = [start |-> @.start, via |-> via1, finish |-> p]]
           up  == [old EXCEPT !.n1 = n, !.stamp = clock, !.shape = [start |-> p, via |-> via2, finish |-> @.finish]]
           c   == Cut(l, n, m, p, via1, via2)
<1>1. /\ Node(n) \in Key /\ Line(l) \in Key /\ Line(m) \in Key
      /\ Node(n) # Line(l) /\ Node(n) # Line(m) /\ Node(n) # Pipe(m)
      /\ Line(l) # Pipe(m) /\ Line(m) # Pipe(m)
  BY Keys DEF Node, Line, Pipe
<1>2. low.stamp = clock /\ up.stamp = clock
  BY DEF LineRow
<1>3. c[Node(n)] = [pos |-> p, removed |-> FALSE, stamp |-> clock]
  BY <1>1 DEF Cut, Update
<1>4. c[Line(l)] = low
  BY <1>1 DEF Cut, Update
<1>5. c[Line(m)] = IF m = l THEN low ELSE up
  BY <1>1 DEF Cut, Update, Line
<1> HIDE DEF c, low, up
<1>6. c[Node(n)] \in NodeRow
  BY <1>3 DEF NodeRow
<1>7. c[Node(n)] # NULL
  BY <1>6, NullAssumption
<1>8. c[Node(n)].stamp = clock
  BY <1>3
<1>9. c[Line(l)].stamp = clock /\ c[Line(m)].stamp = clock
  BY <1>2, <1>4, <1>5
<1> QED BY <1>7, <1>8, <1>9 DEF c

LEMMA SplitLineLawful ==
  ASSUME UndoInv, Lawful, Covered, NEW a, NEW l \in LineId, NEW p \in Pos, NEW via1 \in {0, 1}, NEW via2 \in {0, 1},
         NEW toNew \in SUBSET Review(db, l), SplitLine(a, l, p, via1, via2, toNew), seq' \in SeqType
  PROVE  Lawful'
<1> DEFINE n     == NextNode
           m     == NextLine
           moved == FollowsEnd(db, l) \cup toNew
           c     == Cut(l, n, m, p, via1, via2)
           d1    == Halves(db, l, n, m, p, via1, via2, clock)
           d2    == Update(d1, moved, LAMBDA k : [db[k] EXCEPT !.lineid = m])
           S     == SplitCaptured(l, n, m)
<1>1. /\ Commit(a, "SPLIT", S, d2)
      /\ seq' = [seq EXCEPT !.node = n, !.line = m]
      /\ n \in NodeId /\ m \in LineId
      /\ db[Line(l)] # NULL /\ db[Pipe(l)] # NULL
  BY DEF SplitLine, Active
<1>2. clock \in Stamp /\ DbOk(db) /\ TypeOK
  BY <1>1, BoundsAssumption DEF Commit, UndoInv, TypeOK, Stamp
<1>3. seq'.card = seq.card /\ seq.card <= seq'.card
  BY <1>1, <1>2, BoundsAssumption DEF TypeOK
<1> HIDE DEF n, m
<1>4. d1 = Measured(c, {l, m})
  BY DEF Halves, Cut
<1>5. db[Line(l)] \in LineRow
  BY <1>1, <1>2, LineRows
<1>6. /\ c[Node(n)] # NULL /\ c[Node(n)].stamp = clock
      /\ c[Line(l)].stamp = clock /\ c[Line(m)].stamp = clock
      /\ c[Line(l)] # NULL /\ c[Line(m)] # NULL
  BY <1>1, <1>2, <1>5, CutStamps, CutRows
<1>7. moved \subseteq EquipKeys /\ \A k \in EquipKeys : d1[k] = db[k]
  <2>1. moved \subseteq EquipKeys
    BY DEF FollowsEnd, Review, OnLine
  <2>2. \A k \in EquipKeys : k \in Key /\ k # Node(n) /\ k # Line(m) /\ k # Line(l) /\ k # Pipe(m) /\ k # Pipe(l)
    BY KeyTables DEF Node, Line, Pipe, Key
  <2>3. \A k \in EquipKeys : d1[k] = db[k]
    BY <2>2 DEF Halves, Measured, PipeKeysOf, Update
  <2> QED BY <2>1, <2>3
<1>8. \A k \in OnLine(db, l) : k \in EquipKeys /\ k \in Key /\ db[k] # NULL /\ db[k] \in EquipRow /\ db[k].lineid = l
  BY <1>2, RowsOfTables DEF OnLine, Key
<1>9. \A k \in Key : d2[k] = IF k \in moved THEN [db[k] EXCEPT !.lineid = m] ELSE d1[k]
  BY DEF Update
<1>10. S = LinesWithPipes({l}) \cup OnLine(db, l) \cup {Node(n), Line(m), Pipe(m)} /\ S \in SUBSET Key
  BY <1>1, Keys DEF SplitCaptured
<1> HIDE DEF c, d1, d2, S, moved
<1>11. /\ Node(n) \in NodeKeys /\ Line(m) \in LineKeys /\ Pipe(m) \in PipeKeys
       /\ LinesWithPipes({l}) \subseteq LineKeys \cup PipeKeys
       /\ StampedKeys \cap LinesWithPipes({l}) = {Line(l)}
  BY <1>1, KeyTables, LinesTogether DEF LineKeysOf
<1>12. ASSUME NEW k \in StampedKeys, k \in S PROVE d2[k] # NULL /\ d2[k].stamp = clock
  <2>1. k \in {Node(n), Line(l), Line(m)}
    BY <1>8, <1>10, <1>11, <1>12, TablesDisjoint DEF StampedKeys
  <2>2. d2[k] = c[k]
    <3>1. k \in Key /\ k \notin moved
      BY <1>7, StampedAre, TablesDisjoint DEF StampedKeys
    <3> QED BY <1>4, <1>9, <3>1, MeasuredStamps
  <2> QED BY <1>6, <2>1, <2>2
<1>13. ASSUME NEW q \in LineId, Pipe(q) \in S PROVE Line(q) \in S
  <2>1. Pipe(q) \notin EquipKeys /\ Pipe(q) # Node(n) /\ Pipe(q) # Line(m)
    BY KeyTables DEF Pipe, Node, Line
  <2>2. CASE Pipe(q) \in LinesWithPipes({l})
    BY <1>10, <2>2, LinesTogether
  <2>3. CASE Pipe(q) = Pipe(m)
    BY <1>10, <2>3 DEF Pipe
  <2> QED BY <1>8, <1>10, <1>13, <2>1, <2>2, <2>3
<1>14. S \cap TypeKeys = {} /\ S \cap FlagKeys = {} /\ S \cap EquipKeys = OnLine(db, l)
  <2>1. OnLine(db, l) \subseteq EquipKeys
    BY <1>8
  <2>2. \A k \in S : k \in NodeKeys \cup LineKeys \cup PipeKeys \/ k \in OnLine(db, l)
    BY <1>10, <1>11
  <2>3. OnLine(db, l) \subseteq S
    BY <1>10
  <2> QED BY <2>1, <2>2, <2>3, TablesDisjoint
<1>15. Line(l) \in S /\ Line(m) \in S
  BY <1>10 DEF LinesWithPipes, LineKeysOf
<1>16. ASSUME NEW k \in OnLine(db, l)
       PROVE  db[k] # NULL /\ Line(db[k].lineid) \in S /\ d2[k] # NULL /\ Line(d2[k].lineid) \in S
  <2>1. db[k] \in EquipRow /\ db[k].lineid = l /\ db[k] # NULL
    BY <1>8
  <2>2. d2[k] = db[k] \/ d2[k] = [db[k] EXCEPT !.lineid = m]
    BY <1>7, <1>8, <1>9
  <2>3. CASE d2[k] = db[k]
    BY <1>15, <2>1, <2>3
  <2>4. CASE d2[k] = [db[k] EXCEPT !.lineid = m]
    <3>1. d2[k] \in EquipRow /\ d2[k].lineid = m
      BY <1>1, <2>1, <2>4 DEF EquipRow
    <3> QED BY <1>15, <2>1, <3>1, NullAssumption
  <2> QED BY <2>2, <2>3, <2>4
<1>17. LawfulOp(S, d2)
  <2>1. /\ \A k \in StampedKeys \cap S : d2[k] # NULL /\ d2[k].stamp = clock
        /\ \A q \in LineId : Pipe(q) \in S => Line(q) \in S
    BY <1>12, <1>13
  <2>2. \A k \in EquipKeys \cap S :
          /\ db[k] # NULL /\ Line(db[k].lineid) \in S
          /\ d2[k] # NULL /\ Line(d2[k].lineid) \in S
    BY <1>14, <1>16
  <2>3. TypeKeys \cap S = {} /\ FlagKeys \cap S = {} /\ CardKeys \cap S = {}
    BY <1>14 DEF CardKeys
  <2> QED BY <1>3, <2>1, <2>2, <2>3 DEF LawfulOp
<1> QED BY <1>1, <1>10, <1>17, CommitLawful

\* A merge stamps the lines of the source and both nodes, and moves the cards.
LEMMA MergedStamps ==
  ASSUME DbOk(db), clock \in Stamp, NEW t \in NodeId, NEW s \in NodeId, t # s,
         db[Node(t)] # NULL, db[Node(s)] # NULL
  PROVE  LET d == NodesMerged(db, t, s, clock) IN
         /\ d[Node(t)].stamp = clock /\ d[Node(s)].stamp = clock
         /\ \A l \in ActiveIncident(db, s) : d[Line(l)].stamp = clock
         /\ \A k \in TypeKeys \cap NodeRefs(db, s) : d[k].nodeid = t
<1> DEFINE gone  == Connecting(db, t, s)
           lines == ActiveIncident(db, s) \ gone
           refs  == NodeRefs(db, s)
           r     == RemoveLines(db, gone, clock)
           d0    == Relinked(r, lines, t, s)
           d1    == SnapEnds(d0, lines, t, clock)
           d2    == Measured(d1, lines)
           d3    == Update(d2, refs, LAMBDA k : [d2[k] EXCEPT !.nodeid = t])
           d4    == Update(d3, {Node(t)}, LAMBDA k : [d3[k] EXCEPT !.stamp = clock])
           d5    == RemoveNode(d4, s, clock)
<1>1. NodesMerged(db, t, s, clock) = d5
  BY DEF NodesMerged
<1>2. /\ gone \in SUBSET LineId /\ \A l \in gone : db[Line(l)] # NULL
      /\ lines \in SUBSET LineId /\ \A l \in lines : db[Line(l)] # NULL
      /\ ActiveIncident(db, s) = gone \cup lines /\ gone \cap lines = {}
  BY DEF Connecting, ActiveIncident, Incident
<1>3. refs \subseteq EquipKeys \cup TypeKeys \cup FlagKeys /\ \A k \in refs : k \in Key /\ db[k] # NULL
  BY DEF NodeRefs, Key
<1>4. /\ Node(t) \in Key /\ Node(s) \in Key /\ Node(t) # Node(s)
      /\ Node(t) \in StampedKeys /\ Node(s) \in StampedKeys
      /\ \A l \in LineId : Line(l) \in Key /\ Line(l) \in StampedKeys
      /\ \A l \in LineId : Line(l) # Node(s) /\ Line(l) # Node(t)
      /\ \A k \in StampedKeys : k \notin refs
      /\ \A k \in TypeKeys : k \in Key /\ k # Node(t) /\ k # Node(s)
  <2>1. \A k \in StampedKeys : k \notin refs
    BY <1>3, TablesDisjoint DEF StampedKeys
  <2>2. Node(t) # Node(s)
    BY DEF Node
  <2>3. \A l \in LineId : Line(l) # Node(s) /\ Line(l) # Node(t)
    BY DEF Line, Node
  <2>4. \A k \in TypeKeys : k \in Key /\ k # Node(t) /\ k # Node(s)
    BY KeyTables, TablesDisjoint DEF Key
  <2> QED BY <2>1, <2>2, <2>3, <2>4, StampedAre, Keys
<1>5. db[Node(t)] \in NodeRow /\ db[Node(s)] \in NodeRow
  BY NodeRows
<1>6. DbOk(r) /\ Kept(db, r)
  BY <1>2, RemoveLinesType
<1> HIDE DEF gone
<1>7. \A l \in gone : r[Line(l)].stamp = clock
  BY <1>2, LineRows, LineStamps
<1>8. /\ SameOutside(LineKeysOf(gone) \cup PipeKeysOf(db, gone), db, r)
      /\ SameOutside(LineKeysOf(lines), r, d0)
      /\ SameOutside(LineKeysOf(lines), d0, d1)
  BY Frames
<1> HIDE DEF lines, refs, r
<1>9. DbOk(d0)
  <2>1. \A l \in lines : r[Line(l)] # NULL
    BY <1>2, <1>4, <1>6 DEF Kept
  <2> QED BY <1>2, <1>6, <2>1, RelinkedType
<1>10. Kept(r, d0)
  <2>1. \A l \in lines : r[Line(l)] # NULL
    BY <1>2, <1>4, <1>6 DEF Kept
  <2> QED BY <1>2, <1>6, <2>1, RelinkedType
<1> HIDE DEF d0
<1>11. \A l \in lines : d1[Line(l)].stamp = clock
  <2> SUFFICES ASSUME NEW l \in lines PROVE d1[Line(l)].stamp = clock
    OBVIOUS
  <2>1. d0[Line(l)] # NULL
    BY <1>2, <1>4, <1>6, <1>10 DEF Kept
  <2>2. d0[Line(l)] \in LineRow
    BY <1>2, <1>9, <2>1, LineRows
  <2> QED BY <1>2, <2>2, LineStamps
<1> HIDE DEF d1
<1>12. /\ d1[Node(t)] = db[Node(t)] /\ d1[Node(s)] = db[Node(s)]
       /\ \A l \in gone : d1[Line(l)] = r[Line(l)]
  <2>1. \A k \in StampedKeys : k \notin PipeKeysOf(db, gone)
    BY StampedAre
  <2>2. \A l \in gone : Line(l) \notin LineKeysOf(lines)
    BY <1>2 DEF LineKeysOf, Line
  <2> QED BY <1>2, <1>4, <1>8, <2>1, <2>2, StampedAre DEF SameOutside
<1>13. \A k \in StampedKeys : d2[k] = d1[k]
  BY MeasuredStamps
<1> HIDE DEF d2
<1>14. \A k \in Key \ refs : d3[k] = d2[k]
  BY DEF Update
<1>15. \A k \in TypeKeys \cap refs : d3[k].nodeid = t
  <2> SUFFICES ASSUME NEW k \in TypeKeys \cap refs PROVE d3[k].nodeid = t
    OBVIOUS
  <2>1. d3[k] = [d2[k] EXCEPT !.nodeid = t]
    BY <1>4 DEF Update
  <2>2. d2[k] = db[k]
    <3>1. \A L : k \notin LineKeysOf(L) \/ ~(L \in SUBSET LineId)
      BY KeyTables, TablesDisjoint DEF LineKeysOf
    <3>2. \A d, L : k \notin PipeKeysOf(d, L) \/ ~(L \in SUBSET LineId)
      BY KeyTables, TablesDisjoint DEF PipeKeysOf
    <3>3. d2[k] = d1[k]
      BY <1>2, <1>4, <3>2, Frames DEF SameOutside, d2
    <3> QED BY <1>2, <1>4, <1>8, <3>1, <3>2, <3>3 DEF SameOutside
  <2>3. db[k] \in CardRow
    BY <1>3, RowsOfTables
  <2> QED BY <2>1, <2>2, <2>3 DEF CardRow
<1> HIDE DEF d3
<1>16. d4[Node(t)] = [d3[Node(t)] EXCEPT !.stamp = clock] /\ \A k \in Key \ {Node(t)} : d4[k] = d3[k]
  BY <1>4 DEF Update
<1> HIDE DEF d4
<1>17. d3[Node(t)] = db[Node(t)] /\ d4[Node(s)] = db[Node(s)]
  BY <1>4, <1>12, <1>13, <1>14, <1>16
<1>18. d4[Node(t)].stamp = clock
  BY <1>5, <1>16, <1>17 DEF NodeRow
<1>19. d5[Node(s)].stamp = clock
  BY <1>5, <1>17, NodeStamp
<1>20. \A k \in Key \ {Node(s)} : d5[k] = d4[k]
  BY Frames DEF SameOutside
<1> HIDE DEF d5
<1>21. \A l \in gone \cup lines : d5[Line(l)] = d1[Line(l)]
  BY <1>2, <1>4, <1>13, <1>14, <1>16, <1>20
<1>22. \A k \in TypeKeys \cap refs : d5[k] = d3[k]
  BY <1>4, <1>16, <1>20
<1>23. \A l \in gone \cup lines : d5[Line(l)].stamp = clock
  BY <1>7, <1>11, <1>12, <1>21
<1>24. d5[Node(t)].stamp = clock /\ d5[Node(s)].stamp = clock
  BY <1>4, <1>18, <1>19, <1>20
<1>25. \A k \in TypeKeys \cap refs : d5[k].nodeid = t
  BY <1>15, <1>22
<1> QED BY <1>1, <1>2, <1>23, <1>24, <1>25 DEF refs

LEMMA MergeNodesLawful ==
  ASSUME UndoInv, Lawful, Covered, NEW a, NEW t \in NodeId, NEW s \in NodeId, MergeNodes(a, t, s)
  PROVE  Lawful'
<1> DEFINE refs  == NodeRefs(db, s)
           lines == ActiveIncident(db, s)
           d     == NodesMerged(db, t, s, clock)
           S     == {Node(t), Node(s)} \cup LinesWithPipes(lines) \cup refs
<1>1. /\ Commit(a, "MERGE", S, d) /\ UNCHANGED seq /\ "MERGE" \in Ops /\ t # s
      /\ db[Node(t)] # NULL /\ db[Node(s)] # NULL
  BY DEF MergeNodes, Active, Commit
<1>2. clock \in Stamp /\ DbOk(db) /\ TypeOK
  BY <1>1, BoundsAssumption DEF Commit, UndoInv, TypeOK, Stamp
<1>3. lines \in SUBSET LineId /\ \A l \in lines : db[Line(l)] # NULL
  BY DEF ActiveIncident, Incident
<1>4. refs \subseteq EquipKeys \cup TypeKeys \cup FlagKeys /\ \A k \in refs : k \in Key /\ db[k] # NULL /\ db[k].nodeid = s
  BY DEF NodeRefs, Key
<1>5. Kept(db, d)
  BY <1>1, <1>2, MergedRows
<1>6. /\ d[Node(t)].stamp = clock /\ d[Node(s)].stamp = clock
      /\ \A l \in lines : d[Line(l)].stamp = clock
      /\ \A k \in TypeKeys \cap refs : d[k].nodeid = t
  BY <1>1, <1>2, MergedStamps
<1> HIDE DEF d
<1>7. /\ Node(t) \in NodeKeys /\ Node(s) \in NodeKeys
      /\ LinesWithPipes(lines) \subseteq LineKeys \cup PipeKeys
      /\ StampedKeys \cap LinesWithPipes(lines) = LineKeysOf(lines)
      /\ \A l \in LineId : Pipe(l) \in LinesWithPipes(lines) => Line(l) \in LinesWithPipes(lines)
  BY <1>3, KeyTables, LinesTogether
<1>8. S \in SUBSET Key
  BY <1>4, <1>7 DEF Key
<1>9. \A k \in S : k \in StampedKeys => k \in {Node(t), Node(s)} \/ k \in LineKeysOf(lines)
  BY <1>4, <1>7, TablesDisjoint DEF StampedKeys
<1>10. \A k \in S : k \in TypeKeys \cup FlagKeys => k \in refs
  BY <1>4, <1>7, TablesDisjoint
<1>11. \A l \in LineId : Pipe(l) \in S => Line(l) \in S
  <2>1. \A l \in LineId : Pipe(l) \notin refs /\ Pipe(l) # Node(t) /\ Pipe(l) # Node(s)
    BY <1>4, KeyTables, TablesDisjoint DEF Pipe, Node
  <2> QED BY <1>7, <2>1
<1>12. Node(t) \in S /\ Node(s) \in S
  OBVIOUS
<1> HIDE DEF S, refs, lines
<1>13. ASSUME NEW k \in StampedKeys \cap S PROVE d[k] # NULL /\ d[k].stamp = clock
  <2>1. k \in Key
    BY <1>8
  <2>2. CASE k \in {Node(t), Node(s)}
    BY <1>1, <1>5, <1>6, <2>1, <2>2 DEF Kept
  <2>3. CASE k \in LineKeysOf(lines)
    <3>1. PICK l \in lines : k = Line(l)
      BY <2>3 DEF LineKeysOf
    <3> QED BY <1>3, <1>5, <1>6, <2>1, <3>1 DEF Kept
  <2> QED BY <1>9, <2>2, <2>3
<1>14. LawfulOp(S, d)
  <2>1. /\ \A k \in StampedKeys \cap S : d[k] # NULL /\ d[k].stamp = clock
        /\ \A l \in LineId : Pipe(l) \in S => Line(l) \in S
    BY <1>11, <1>13
  <2>2. \A k \in TypeKeys \cap S :
          /\ db[k] # NULL => Node(db[k].nodeid) \in S
          /\ d[k] # NULL => Node(d[k].nodeid) \in S
    BY <1>4, <1>6, <1>10, <1>12
  <2>3. \A k \in CardKeys \cap S : db[k] # NULL
    BY <1>4, <1>10 DEF CardKeys
  <2>4. seq.card <= seq'.card
    BY <1>1, <1>2, BoundsAssumption DEF TypeOK
  <2> QED BY <1>1, <2>1, <2>2, <2>3, <2>4 DEF LawfulOp
<1>15. seq' \in SeqType
  BY <1>1, <1>2 DEF TypeOK, SeqType
<1> QED BY <1>1, <1>8, <1>14, <1>15, CommitLawful

-----------------------------------------------------------------------------
(* The history of the rows.                                                *)

LEMMA OperationLawful ==
  ASSUME UndoInv, TypeOK', Lawful, NEW a \in Actor, EditNode(a) \/ EditLine(a) \/ Create(a)
  PROVE  Lawful' /\ Covered
<1>1. Covered
  BY OperationCovers DEF UndoInv
<1>2. seq' \in SeqType
  BY DEF TypeOK, SeqType
<1>3. ASSUME EditNode(a) PROVE Lawful'
  BY <1>1, <1>3, MoveNodeLawful, DeleteNodeLawful, MergeNodesLawful, DissolveNodeLawful,
     ChangeNodeTypeLawful, SetFlagLawful, ClearFlagLawful DEF EditNode
<1>4. ASSUME EditLine(a) PROVE Lawful'
  BY <1>1, <1>2, <1>4, DeleteLineLawful, ReverseLineLawful, UpdateGeometryLawful, SplitLineLawful
     DEF EditLine
<1>5. ASSUME Create(a) PROVE Lawful'
  BY <1>1, <1>5, CreateNodeLawful, CreateLineLawful DEF Create
<1> QED BY <1>1, <1>3, <1>4, <1>5

LEMMA HistoryAtFirst == ASSUME Init PROVE HistoryInv
<1>1. /\ db = InitialDb /\ journal = <<>> /\ clock = 1 /\ seq.card \in Nat
      /\ LastId(TypeKeys \cup FlagKeys, seq.card)
  BY BoundsAssumption DEF Init
<1>2. DOMAIN journal = {} /\ \A k : LiveOn(k) = {}
  BY <1>1 DEF LiveOn
<1>3. \A k \in Key : History(k)
  BY <1>1, <1>2 DEF History
<1>4. CardsNumbered
  BY <1>1, <1>2 DEF CardsNumbered, LastId, CardKeys
<1>5. RowsStamped
  BY <1>1, InitialStampsAssumption DEF RowsStamped, StampedKeys
<1> QED BY <1>2, <1>3, <1>4, <1>5, ToldAre DEF HistoryInv, Lawful, MadeOnce

LEMMA HistoryStep ==
  ASSUME UndoInv, TypeOK', HistoryInv, Next
  PROVE  HistoryInv'
<1> SUFFICES ASSUME NEW a \in Actor, EditNode(a) \/ EditLine(a) \/ Create(a) PROVE HistoryInv'
  BY UndoKeepsHistory, RedoKeepsHistory DEF Next
<1>1. Lawful' /\ Covered
  BY OperationLawful DEF HistoryInv
<1>2. Added(a)
  BY NodeAdds, LineAdds, CreateAdds
<1>3. \A k \in ToldKeys : History(k)'
  BY <1>1, <1>2, ToldAre, AddedHistory DEF HistoryInv
<1> QED BY <1>1, <1>3 DEF HistoryInv, ToldKeys

\* A user who is alone undoes and redoes in order on every row.
LEMMA SoleStep ==
  ASSUME UndoInv, HistoryInv, RowHistory, \A a, b \in Actor : a = b, Next
  PROVE  RowHistory'
<1>1. \A k \in Key : History(k)
  BY HistoryIs
<1>2. \A a \in Actor, k \in Key : LiveOn(k) \subseteq DoneOf(a)
  BY DEF LiveOn, DoneOf, Mine, UndoInv, TypeOK, EntryOk
<1>3. ASSUME NEW a \in Actor, EditNode(a) \/ EditLine(a) \/ Create(a) PROVE RowHistory'
  <2>1. Covered /\ Added(a)
    BY <1>3, OperationCovers, NodeAdds, LineAdds, CreateAdds DEF UndoInv
  <2>2. \A k \in Key : History(k)'
    BY <1>1, <2>1, AddedHistory
  <2> QED BY <2>2 DEF RowHistory, History
<1>4. ASSUME NEW a \in Actor, Undo(a) PROVE RowHistory'
  <2>1. PICK i \in Undoable(a) :
          /\ Rewritten(i, clock) /\ ImagesKept(i)
          /\ \A k \in DOMAIN journal[i].before :
               /\ k \in Key /\ db[k] = journal[i].after[k]
               /\ journal'[i].redo[k] = db[k] /\ db'[k] = journal[i].before[k]
          /\ \A k \in Key \ DOMAIN journal[i].before : db'[k] = db[k]
    BY <1>4, UndoRestores DEF UndoInv
  <2>2. \A k \in Key : \A j \in LiveOn(k) : j <= i
    BY <1>2 DEF Undoable, DoneOf
  <2>3. \A k \in Key : History(k)'
    BY <1>1, <2>1, <2>2, UndoneHistory
  <2> QED BY <2>3 DEF RowHistory, History
<1>5. ASSUME NEW a \in Actor, Redo(a) PROVE RowHistory'
  <2>1. PICK i \in Redoable(a) :
          /\ Rewritten(i, 0) /\ ImagesKept(i) /\ journal'[i].redo = journal[i].redo
          /\ \A k \in DOMAIN journal[i].before :
               k \in Key /\ db[k] = journal[i].before[k] /\ db'[k] = journal[i].redo[k]
          /\ \A k \in Key \ DOMAIN journal[i].before : db'[k] = db[k]
    BY <1>5, RedoRestores DEF UndoInv
  <2>2. i \in DOMAIN journal /\ journal[i].redo # NULL
    BY DEF Redoable, Reopened, Mine
  <2>3. \A k \in DOMAIN journal[i].before : db'[k] = journal[i].after[k]
    BY <2>1, <2>2 DEF HistoryInv, Lawful, EntryLawful, EntryRedo
  <2>4. \A k \in Key : \A j \in LiveOn(k) : j < i
    BY <1>2, RedoneIsNext DEF UndoInv, StackOk
  <2>5. \A k \in Key : History(k)'
    BY <1>1, <2>1, <2>3, <2>4, RedoneHistory
  <2> QED BY <2>5 DEF RowHistory, History
<1> QED BY <1>3, <1>4, <1>5 DEF Next

\* The strengthened invariant of the journal and the history.
LEMMA HistoryHolds == ASSUME ImagesAreThere PROVE Spec => [](UndoInv /\ HistoryInv)
<1>1. Init => TimesOk /\ StackOk /\ HistoryInv
  BY UndoInit, HistoryAtFirst
<1>2. TypeOK /\ TypeOK' /\ TimesOk /\ StackOk /\ HistoryInv /\ [Next]_vars
        => TimesOk' /\ StackOk' /\ HistoryInv'
  <2>1. ASSUME UndoInv, HistoryInv, UNCHANGED vars PROVE HistoryInv'
    <3>1. /\ db' = db /\ journal' = journal /\ seq' = seq /\ clock' = clock
      BY <2>1 DEF vars
    <3> QED BY <2>1, <3>1 DEF HistoryInv, Lawful, MadeOnce, CardsNumbered, RowsStamped, ToldKeys, History, LiveOn,
              EntryLawful, EntryStamped, EntryOwned, EntryFlags, EntryRedo
  <2> QED BY <2>1, StepOnStack, StutterOnStack, HistoryStep, ImagesAreThere DEF UndoInv
<1>3. UndoInv <=> TypeOK /\ TimesOk /\ StackOk
  BY DEF UndoInv
<1> QED BY <1>1, <1>2, <1>3, TypeCorrect, PTL DEF Spec

\* Each row is what the operations that are not undone have made of it, one after
\* the other (RowHistory), for any number of users and any order of their undos
\* and redos, as long as no nodes are merged: the comparison of the captured rows
\* (changed_since) refuses every undo and redo that would go out of order, for the
\* passports, equipment and cards that bear no stamp too, because they are captured
\* with the row they belong to; a flag is only set and cleared.
THEOREM RowsTellTheirHistory ==
  ASSUME ImagesAreThere, "MERGE" \notin Ops
  PROVE  Spec => []RowHistory
<1>1. HistoryInv => RowHistory
  BY HistoryIs, ToldAre DEF HistoryInv
<1> QED BY <1>1, HistoryHolds, PTL

\* With merges, the same of a user who is alone.
THEOREM SoleUserTellsHistory ==
  ASSUME ImagesAreThere, \A a, b \in Actor : a = b
  PROVE  Spec => []RowHistory
<1>1. Init => RowHistory
  <2> SUFFICES ASSUME Init PROVE RowHistory
    OBVIOUS
  <2>1. db = InitialDb /\ \A k : LiveOn(k) = {}
    BY DEF Init, LiveOn
  <2> QED BY <2>1 DEF RowHistory
<1>2. UndoInv /\ HistoryInv /\ RowHistory /\ [Next]_vars => RowHistory'
  <2>1. ASSUME RowHistory, UNCHANGED vars PROVE RowHistory'
    BY <2>1 DEF vars, RowHistory, LiveOn
  <2> QED BY <2>1, SoleStep
<1> QED BY <1>1, <1>2, HistoryHolds, PTL DEF Spec

\* The part of RowHistory about the rows with a history.
HistoryTold ==
  \A k \in NodeKeys \cup LineKeys \cup PipeKeys \cup TypeKeys : History(k)

\* With merges by several users, the same of the nodes, the lines, the passports
\* and the cards of a type: only a flag, a regulator or a damper, which a merge
\* moves without marking the row, can come back out of order.
THEOREM NetworkTellsItsHistory == ASSUME ImagesAreThere PROVE Spec => []HistoryTold
<1>1. HistoryInv => HistoryTold
  BY ToldAre DEF HistoryInv, HistoryTold, StampedKeys
<1> QED BY <1>1, HistoryHolds, PTL

-----------------------------------------------------------------------------
(***************************************************************************)
(* The network stays consistent (EndsActive, LinesFollowNodes,              *)
(* RegulatorsAtEnds, OneFlagPerNode, OneTypePerNode).                       *)
(*                                                                          *)
(* Each operation keeps a consistent network consistent (Sound): this is    *)
(* shown by what its statements leave of each line, node and flag.  An undo *)
(* puts back rows of an old network; that the rest of the rows fit them is  *)
(* known because the whole is a network that has been consistent before.    *)
(* The invariant (Told) has that history: the networks before and after     *)
(* each operation that can be undone or redone.                             *)
(*                                                                          *)
(* The cards of a node need no such history: they are a function of the     *)
(* row of the node, whoever undoes what (last part).                        *)
(***************************************************************************)

\* Nodes with an active line are there and the line ends at them.
Placed(d, l) ==
  Active(d, Line(l)) =>
    /\ Active(d, Node(d[Line(l)].n1)) /\ d[Node(d[Line(l)].n1)].pos = d[Line(l)].shape.start
    /\ Active(d, Node(d[Line(l)].n2)) /\ d[Node(d[Line(l)].n2)].pos = d[Line(l)].shape.finish

\* The sequences s are not behind the rows.
Numbered(d, s) ==
  /\ \A n \in NodeId : d[Node(n)] # NULL => n <= s.node
  /\ \A l \in LineId : d[Line(l)] # NULL => l <= s.line

Sound(d, s) ==
  /\ \A l \in LineId : Placed(d, l)
  /\ RegulatorsOk(d) /\ FlagsOk(d)
  /\ Numbered(d, s)

LEMMA PlacedIs ==
  ASSUME NEW d
  PROVE  EndsOk(d) /\ GeometryOk(d) <=> \A l \in LineId : Placed(d, l)
<1>1. ASSUME EndsOk(d), GeometryOk(d), NEW l \in LineId PROVE Placed(d, l)
  <2> SUFFICES ASSUME Active(d, Line(l))
               PROVE  /\ Active(d, Node(d[Line(l)].n1)) /\ d[Node(d[Line(l)].n1)].pos = d[Line(l)].shape.start
                      /\ Active(d, Node(d[Line(l)].n2)) /\ d[Node(d[Line(l)].n2)].pos = d[Line(l)].shape.finish
    BY DEF Placed
  <2>1. Active(d, Node(d[Line(l)].n1)) /\ Active(d, Node(d[Line(l)].n2))
    BY <1>1 DEF EndsOk, Ends
  <2> QED BY <1>1, <2>1 DEF GeometryOk, Active
<1>2. ASSUME \A l \in LineId : Placed(d, l) PROVE EndsOk(d) /\ GeometryOk(d)
  BY <1>2 DEF EndsOk, GeometryOk, Placed, Ends
<1> QED BY <1>1, <1>2

(***************************************************************************)
(* What the statements leave of the rows.                                   *)
(***************************************************************************)
LEMMA KeptTwice ==
  ASSUME NEW d, NEW e, NEW f, Kept(d, e), Kept(e, f)
  PROVE  Kept(d, f)
BY DEF Kept

\* The rows that are measured are passports.
LEMMA MeasuredRest ==
  ASSUME NEW d, NEW L \in SUBSET LineId
  PROVE  /\ \A l \in LineId : Measured(d, L)[Line(l)] = d[Line(l)]
         /\ \A n \in NodeId : Measured(d, L)[Node(n)] = d[Node(n)]
         /\ \A k \in EquipKeys \cup TypeKeys \cup FlagKeys : Measured(d, L)[k] = d[k]
<1>1. \A k \in Key \ PipeKeys : Measured(d, L)[k] = d[k]
  <2>1. PipeKeysOf(d, L) \subseteq PipeKeys
    BY DEF PipeKeysOf, PipeKeys
  <2> QED BY <2>1 DEF Measured, Update
<1> QED BY <1>1, KeyTables, TablesDisjoint DEF Key

\* Lines are removed.
LEMMA RemovedRest ==
  ASSUME NEW d, DbOk(d), NEW L \in SUBSET LineId, NEW now \in Stamp, \A l \in L : d[Line(l)] # NULL
  PROVE  LET e == RemoveLines(d, L, now) IN
         /\ \A l \in L : ~Active(e, Line(l))
         /\ \A l \in LineId \ L : e[Line(l)] = d[Line(l)]
         /\ \A n \in NodeId : e[Node(n)] = d[Node(n)]
         /\ \A k \in EquipKeys \cup TypeKeys \cup FlagKeys : e[k] = d[k]
<1> DEFINE e == RemoveLines(d, L, now)
<1>1. SameOutside(LineKeysOf(L) \cup PipeKeysOf(d, L), d, e)
  BY Frames
<1>2. ASSUME NEW l \in L PROVE ~Active(e, Line(l))
  <2>1. d[Line(l)] \in LineRow /\ Line(l) \in Key
    BY LineRows, Keys
  <2>2. Line(l) \notin PipeKeysOf(d, L) /\ Line(l) \in LineKeysOf(L)
    BY DEF Line, Pipe, PipeKeysOf, LineKeysOf
  <2>3. e[Line(l)] = [d[Line(l)] EXCEPT !.removed = TRUE, !.stamp = now]
    BY <2>1, <2>2 DEF RemoveLines, Update
  <2> HIDE DEF e
  <2> QED BY <2>1, <2>3 DEF LineRow, Active
<1> HIDE DEF e
<1>3. \A l \in LineId \ L : e[Line(l)] = d[Line(l)]
  BY <1>1, Keys DEF SameOutside, LineKeysOf, PipeKeysOf, Line, Pipe
<1>4. LineKeysOf(L) \cup PipeKeysOf(d, L) \subseteq LineKeys \cup PipeKeys
  BY DEF LineKeysOf, PipeKeysOf, LineKeys, PipeKeys
<1>5. /\ \A n \in NodeId : e[Node(n)] = d[Node(n)]
      /\ \A k \in EquipKeys \cup TypeKeys \cup FlagKeys : e[k] = d[k]
  <2>1. \A k \in Key \ (LineKeys \cup PipeKeys) : e[k] = d[k]
    BY <1>1, <1>4 DEF SameOutside
  <2> QED BY <2>1, KeyTables, TablesDisjoint DEF Key
<1> QED BY <1>2, <1>3, <1>5 DEF e

\* A node is removed.
LEMMA NodeRest ==
  ASSUME NEW d, DbOk(d), NEW n \in NodeId, NEW now \in Stamp, d[Node(n)] # NULL
  PROVE  LET e == RemoveNode(d, n, now) IN
         /\ \A l \in LineId : e[Line(l)] = d[Line(l)]
         /\ \A m \in NodeId \ {n} : e[Node(m)] = d[Node(m)]
         /\ \A k \in EquipKeys \cup TypeKeys \cup FlagKeys : e[k] = d[k]
<1> DEFINE e == RemoveNode(d, n, now)
<1>1. SameOutside({Node(n)}, d, e)
  BY Frames
<1> HIDE DEF e
<1>2. \A m \in NodeId \ {n} : Node(m) # Node(n)
  BY DEF Node
<1> QED BY <1>1, <1>2, KeyTables, TablesDisjoint DEF SameOutside, Key, e

\* The ends of lines are put at a node, and nothing else changes.
SnappedTo(d, L, n, e) ==
  /\ \A l \in L :
       /\ e[Line(l)] # NULL /\ e[Line(l)].removed = d[Line(l)].removed
       /\ e[Line(l)].n1 = d[Line(l)].n1 /\ e[Line(l)].n2 = d[Line(l)].n2
       /\ e[Line(l)].shape.start = IF d[Line(l)].n1 = n THEN d[Node(n)].pos ELSE d[Line(l)].shape.start
       /\ e[Line(l)].shape.finish = IF d[Line(l)].n2 = n THEN d[Node(n)].pos ELSE d[Line(l)].shape.finish
  /\ \A l \in LineId \ L : e[Line(l)] = d[Line(l)]
  /\ \A m \in NodeId : e[Node(m)] = d[Node(m)]
  /\ \A k \in EquipKeys \cup TypeKeys \cup FlagKeys : e[k] = d[k]

LEMMA SnappedRest ==
  ASSUME NEW d, DbOk(d), NEW L \in SUBSET LineId, \A l \in L : d[Line(l)] # NULL,
         NEW n \in NodeId, d[Node(n)] # NULL, NEW now \in Stamp
  PROVE  SnappedTo(d, L, n, SnapEnds(d, L, n, now))
<1> DEFINE e == SnapEnds(d, L, n, now)
<1>1. SameOutside(LineKeysOf(L), d, e) /\ Kept(d, e)
  BY Frames, SnapEndsType
<1>2. ASSUME NEW l \in L
      PROVE  /\ e[Line(l)] # NULL /\ e[Line(l)].removed = d[Line(l)].removed
             /\ e[Line(l)].n1 = d[Line(l)].n1 /\ e[Line(l)].n2 = d[Line(l)].n2
             /\ e[Line(l)].shape.start = IF d[Line(l)].n1 = n THEN d[Node(n)].pos ELSE d[Line(l)].shape.start
             /\ e[Line(l)].shape.finish = IF d[Line(l)].n2 = n THEN d[Node(n)].pos ELSE d[Line(l)].shape.finish
  <2> DEFINE r == d[Line(l)]
  <2>1. r \in LineRow /\ Line(l) \in Key /\ Line(l) \in LineKeysOf(L)
    BY LineRows, Keys DEF LineKeysOf
  <2>2. e[Line(l)] = [r EXCEPT !.shape = Snapped(d, r, n), !.stamp = now]
    BY <2>1 DEF SnapEnds, Update
  <2>3. e[Line(l)] # NULL
    BY <1>1, <2>1 DEF Kept
  <2> HIDE DEF e, r
  <2>4. e[Line(l)].shape = Snapped(d, r, n) /\ e[Line(l)].removed = r.removed /\ e[Line(l)].n1 = r.n1 /\ e[Line(l)].n2 = r.n2
    BY <2>1, <2>2 DEF LineRow
  <2> QED BY <2>3, <2>4 DEF Snapped, r
<1> HIDE DEF e
<1>3. \A l \in LineId \ L : e[Line(l)] = d[Line(l)]
  BY <1>1, Keys DEF SameOutside, LineKeysOf, Line
<1>4. LineKeysOf(L) \subseteq LineKeys
  BY DEF LineKeysOf, LineKeys
<1>5. /\ \A m \in NodeId : e[Node(m)] = d[Node(m)]
      /\ \A k \in EquipKeys \cup TypeKeys \cup FlagKeys : e[k] = d[k]
  BY <1>1, <1>4, KeyTables, TablesDisjoint DEF SameOutside, Key
<1> QED BY <1>2, <1>3, <1>5 DEF e, SnappedTo

\* The ends of one line are put at a node.
LEMMA SnappedOne ==
  ASSUME NEW d, DbOk(d), NEW l \in LineId, d[Line(l)] # NULL,
         NEW n \in NodeId, d[Node(n)] # NULL, NEW now \in Stamp
  PROVE  LET e == SnapEnds(d, {l}, n, now) IN SnappedTo(d, {l}, n, e) /\ DbOk(e) /\ Kept(d, e)
<1> DEFINE L == {l}
<1>1. L \in SUBSET LineId /\ \A i \in L : d[Line(i)] # NULL
  OBVIOUS
<1> HIDE DEF L
<1>2. LET e == SnapEnds(d, L, n, now) IN SnappedTo(d, L, n, e) /\ DbOk(e) /\ Kept(d, e)
  BY <1>1, SnappedRest, SnapEndsType
<1> QED BY <1>2 DEF L

(***************************************************************************)
(* The operations.                                                          *)
(***************************************************************************)
\* An operation that makes no row and changes neither equipment nor cards.
LEMMA RestSound ==
  ASSUME DbOk(db), Sound(db, seq), NEW e, Kept(db, e), \A l \in LineId : Placed(e, l),
         \A k \in EquipKeys \cup TypeKeys \cup FlagKeys : e[k] = db[k],
         \A l \in LineId :
           OnLine(db, l) # {} /\ Active(e, Line(l)) => Active(db, Line(l)) /\ Ends(e, l) = Ends(db, l)
  PROVE  Sound(e, seq)
<1>1. \A k \in Key : e[k] = NULL <=> db[k] = NULL
  BY DEF Kept
<1>2. RegulatorsOk(e)
  <2> SUFFICES ASSUME NEW k \in EquipKeys, db[k] # NULL
               PROVE  /\ e[Line(db[k].lineid)] # NULL
                      /\ k[1] = "pressregulators" /\ db[k].nodeid # NULL /\ Active(e, Line(db[k].lineid))
                           => db[k].nodeid \in Ends(e, db[k].lineid)
    BY DEF RegulatorsOk
  <2>1. /\ db[Line(db[k].lineid)] # NULL
        /\ k[1] = "pressregulators" /\ db[k].nodeid # NULL /\ Active(db, Line(db[k].lineid))
             => db[k].nodeid \in Ends(db, db[k].lineid)
    BY DEF Sound, RegulatorsOk
  <2>2. db[k].lineid \in LineId
    BY RowsOfTables DEF EquipRow
  <2>3. k \in OnLine(db, db[k].lineid)
    BY DEF OnLine
  <2> QED BY <1>1, <2>1, <2>2, <2>3, Keys
<1>3. FlagsOk(e)
  <2>1. \A n \in NodeId : FlagsAt(e, n) = FlagsAt(db, n)
    BY DEF FlagsAt
  <2> QED BY <2>1 DEF FlagsOk, Sound
<1>4. Numbered(e, seq)
  BY <1>1, Keys DEF Numbered, Sound
<1> QED BY <1>2, <1>3, <1>4 DEF Sound

LEMMA MoveNodeSound ==
  ASSUME TypeOK, Sound(db, seq), NEW a, NEW n \in NodeId, NEW p \in Pos, MoveNode(a, n, p)
  PROVE  Sound(db', seq')
<1> DEFINE inc == Incident(db, n)
           d1  == Update(db, {Node(n)}, LAMBDA k : [db[k] EXCEPT !.pos = p, !.stamp = clock])
           d2  == SnapEnds(d1, inc, n, clock)
           d   == Measured(d2, inc)
<1>1. Commit(a, "MOVE", {Node(n)} \cup IncidentLines(n), d) /\ db' = d /\ seq' = seq /\ Active(db, Node(n))
  BY DEF MoveNode, NodeMoved, Commit
<1>2. clock \in Stamp /\ DbOk(db)
  BY <1>1, Stamped
<1>3. inc \in SUBSET LineId /\ \A l \in inc : db[Line(l)] # NULL
  BY DEF Incident
<1>4. db[Node(n)] \in NodeRow /\ Node(n) \in Key
  BY <1>1, <1>2, NodeRows, Keys DEF Active
<1>5. d1[Node(n)] = [db[Node(n)] EXCEPT !.pos = p, !.stamp = clock] /\ SameOutside({Node(n)}, db, d1) /\ DOMAIN d1 = Key
  BY <1>4 DEF Update, SameOutside
<1> HIDE DEF d1
<1>6. d1[Node(n)] \in NodeRow /\ d1[Node(n)].pos = p /\ d1[Node(n)].removed = db[Node(n)].removed
  BY <1>2, <1>4, <1>5 DEF NodeRow
<1>7. DbOk(d1) /\ Kept(db, d1)
  <2>1. {Node(n)} \in SUBSET Key /\ \A k \in {Node(n)} : k \in NodeKeys /\ db[k] # NULL /\ d1[k] \in NodeRow
    BY <1>1, <1>4, <1>6, KeyTables DEF Active
  <2> QED BY <1>2, <1>5, <2>1, TableReplaced DEF SameOutside
<1>8. /\ \A l \in LineId : d1[Line(l)] = db[Line(l)]
      /\ \A m \in NodeId \ {n} : d1[Node(m)] = db[Node(m)]
      /\ \A k \in EquipKeys \cup TypeKeys \cup FlagKeys : d1[k] = db[k]
  BY <1>5, KeyTables, TablesDisjoint DEF SameOutside, Key, Node
<1>9. d1[Node(n)] # NULL /\ \A l \in inc : d1[Line(l)] # NULL
  BY <1>3, <1>6, <1>8, NullAssumption
<1> HIDE DEF inc
<1>10. /\ \A l \in inc :
              /\ d2[Line(l)] # NULL /\ d2[Line(l)].removed = db[Line(l)].removed
              /\ d2[Line(l)].n1 = db[Line(l)].n1 /\ d2[Line(l)].n2 = db[Line(l)].n2
              /\ d2[Line(l)].shape.start = IF db[Line(l)].n1 = n THEN p ELSE db[Line(l)].shape.start
              /\ d2[Line(l)].shape.finish = IF db[Line(l)].n2 = n THEN p ELSE db[Line(l)].shape.finish
       /\ \A l \in LineId \ inc : d2[Line(l)] = db[Line(l)]
       /\ \A m \in NodeId : d2[Node(m)] = d1[Node(m)]
       /\ \A k \in EquipKeys \cup TypeKeys \cup FlagKeys : d2[k] = db[k]
       /\ DbOk(d2) /\ Kept(d1, d2)
  <2>1. DbOk(d2) /\ Kept(d1, d2)
    BY <1>2, <1>3, <1>7, <1>9, SnapEndsType
  <2>2. /\ \A l \in inc :
             /\ d2[Line(l)] # NULL /\ d2[Line(l)].removed = d1[Line(l)].removed
             /\ d2[Line(l)].n1 = d1[Line(l)].n1 /\ d2[Line(l)].n2 = d1[Line(l)].n2
             /\ d2[Line(l)].shape.start = IF d1[Line(l)].n1 = n THEN d1[Node(n)].pos ELSE d1[Line(l)].shape.start
             /\ d2[Line(l)].shape.finish = IF d1[Line(l)].n2 = n THEN d1[Node(n)].pos ELSE d1[Line(l)].shape.finish
        /\ \A l \in LineId \ inc : d2[Line(l)] = d1[Line(l)]
        /\ \A m \in NodeId : d2[Node(m)] = d1[Node(m)]
        /\ \A k \in EquipKeys \cup TypeKeys \cup FlagKeys : d2[k] = d1[k]
    BY <1>2, <1>3, <1>7, <1>9, SnappedRest DEF SnappedTo
  <2> HIDE DEF d2
  <2> QED BY <1>3, <1>6, <1>8, <2>1, <2>2
<1> HIDE DEF d2
<1>11. /\ \A l \in LineId : d[Line(l)] = d2[Line(l)]
       /\ \A m \in NodeId : d[Node(m)] = d2[Node(m)]
       /\ \A k \in EquipKeys \cup TypeKeys \cup FlagKeys : d[k] = d2[k]
       /\ DbOk(d) /\ Kept(d2, d)
  <2>1. \A l \in inc : d2[Line(l)] # NULL
    BY <1>10
  <2> QED BY <1>3, <1>10, <2>1, MeasuredRest, MeasuredType
<1> HIDE DEF d
<1>12. ASSUME NEW l \in LineId PROVE Placed(d, l)
  <2>1. Placed(db, l)
    BY DEF Sound
  <2>2. CASE l \in inc
    <3> SUFFICES ASSUME Active(d, Line(l)) PROVE Placed(d, l)
      BY DEF Placed
    <3>1. Active(db, Line(l)) /\ db[Line(l)] \in LineRow
      BY <1>2, <1>10, <1>11, <1>3, <2>2, LineRows DEF Active
    <3>2. db[Line(l)].n1 \in NodeId /\ db[Line(l)].n2 \in NodeId
      BY <3>1 DEF LineRow
    <3> QED BY <1>1, <1>6, <1>8, <1>9, <1>10, <1>11, <2>1, <2>2, <3>1, <3>2 DEF Placed, Active
  <2>3. CASE l \notin inc
    <3> SUFFICES ASSUME Active(d, Line(l)) PROVE Placed(d, l)
      BY DEF Placed
    <3>1. d[Line(l)] = db[Line(l)] /\ Active(db, Line(l)) /\ db[Line(l)] \in LineRow
      BY <1>2, <1>10, <1>11, <2>3, LineRows DEF Active
    <3>2. db[Line(l)].n1 \in NodeId /\ db[Line(l)].n2 \in NodeId
      BY <3>1 DEF LineRow
    <3>3. db[Line(l)].n1 # n /\ db[Line(l)].n2 # n
      BY <2>3, <3>1 DEF inc, Incident, Ends, Active
    <3> QED BY <1>8, <1>10, <1>11, <2>1, <3>1, <3>2, <3>3 DEF Placed, Active
  <2> QED BY <2>2, <2>3
<1>13. \A l \in LineId : Active(d, Line(l)) => Active(db, Line(l)) /\ Ends(d, l) = Ends(db, l)
  <2>1. \A l \in LineId : Active(d, Line(l)) => Active(db, Line(l)) /\ d[Line(l)].n1 = db[Line(l)].n1 /\ d[Line(l)].n2 = db[Line(l)].n2
    BY <1>3, <1>10, <1>11 DEF Active
  <2> QED BY <2>1 DEF Ends
<1>14. Kept(db, d) /\ \A k \in EquipKeys \cup TypeKeys \cup FlagKeys : d[k] = db[k]
  BY <1>7, <1>10, <1>11, KeptTwice
<1> QED BY <1>1, <1>2, <1>12, <1>13, <1>14, RestSound

LEMMA DeleteNodeSound ==
  ASSUME TypeOK, Sound(db, seq), NEW a, NEW n \in NodeId, NEW cascade, DeleteNode(a, n, cascade)
  PROVE  Sound(db', seq')
<1> DEFINE inc == ActiveIncident(db, n)
           d1  == RemoveLines(db, inc, clock)
           d   == RemoveNode(d1, n, clock)
<1>1. Commit(a, "DELETE_NODE", {Node(n)} \cup LinesWithPipes(inc), d) /\ db' = d /\ seq' = seq /\ Active(db, Node(n))
  BY DEF DeleteNode, NodeDeleted, Commit
<1>2. clock \in Stamp /\ DbOk(db)
  BY <1>1, Stamped
<1>3. inc \in SUBSET LineId /\ \A l \in inc : db[Line(l)] # NULL
  BY DEF ActiveIncident, Incident
<1> HIDE DEF inc
<1>4. /\ \A l \in inc : ~Active(d1, Line(l))
      /\ \A l \in LineId \ inc : d1[Line(l)] = db[Line(l)]
      /\ \A m \in NodeId : d1[Node(m)] = db[Node(m)]
      /\ \A k \in EquipKeys \cup TypeKeys \cup FlagKeys : d1[k] = db[k]
      /\ DbOk(d1) /\ Kept(db, d1)
  BY <1>2, <1>3, RemovedRest, RemoveLinesType
<1> HIDE DEF d1
<1>5. /\ \A l \in LineId : d[Line(l)] = d1[Line(l)]
      /\ \A m \in NodeId \ {n} : d[Node(m)] = d1[Node(m)]
      /\ \A k \in EquipKeys \cup TypeKeys \cup FlagKeys : d[k] = d1[k]
      /\ Kept(d1, d)
  <2>1. d1[Node(n)] # NULL
    BY <1>1, <1>4 DEF Active
  <2> QED BY <1>2, <1>4, <2>1, NodeRest, RemoveNodeType
<1> HIDE DEF d
<1>6. ASSUME NEW l \in LineId, Active(d, Line(l))
      PROVE  Placed(d, l) /\ Active(db, Line(l)) /\ Ends(d, l) = Ends(db, l)
  <2>1. l \notin inc /\ d[Line(l)] = db[Line(l)] /\ Active(db, Line(l)) /\ db[Line(l)] \in LineRow
    BY <1>2, <1>4, <1>5, <1>6, LineRows DEF Active
  <2>2. db[Line(l)].n1 \in NodeId /\ db[Line(l)].n2 \in NodeId /\ db[Line(l)].n1 # n /\ db[Line(l)].n2 # n
    BY <2>1 DEF inc, ActiveIncident, Incident, Ends, Active, LineRow
  <2>3. Placed(db, l)
    BY DEF Sound
  <2> QED BY <1>4, <1>5, <2>1, <2>2, <2>3 DEF Placed, Active, Ends
<1>7. \A l \in LineId : Placed(d, l)
  BY <1>6 DEF Placed
<1>8. Kept(db, d) /\ \A k \in EquipKeys \cup TypeKeys \cup FlagKeys : d[k] = db[k]
  BY <1>4, <1>5, KeptTwice
<1> QED BY <1>1, <1>2, <1>6, <1>7, <1>8, RestSound

LEMMA DeleteLineSound ==
  ASSUME TypeOK, Sound(db, seq), NEW a, NEW l \in LineId, NEW pair \in BOOLEAN, DeleteLine(a, l, pair)
  PROVE  Sound(db', seq')
<1> DEFINE L == WithPair(l, pair)
           d == RemoveLines(db, L, clock)
<1>1. Commit(a, "DELETE_LINE", LinesWithPipes(L), d) /\ db' = d /\ seq' = seq
  BY DEF DeleteLine, Commit, WithPair
<1>2. clock \in Stamp /\ DbOk(db)
  BY <1>1, Stamped
<1>3. L \in SUBSET LineId /\ \A m \in L : db[Line(m)] # NULL
  BY WithPairLines DEF DeleteLine, Active
<1> HIDE DEF L
<1>4. /\ \A m \in L : ~Active(d, Line(m))
      /\ \A m \in LineId \ L : d[Line(m)] = db[Line(m)]
      /\ \A n \in NodeId : d[Node(n)] = db[Node(n)]
      /\ \A k \in EquipKeys \cup TypeKeys \cup FlagKeys : d[k] = db[k]
      /\ Kept(db, d)
  BY <1>2, <1>3, RemovedRest, RemoveLinesType
<1> HIDE DEF d
<1>5. ASSUME NEW m \in LineId, Active(d, Line(m))
      PROVE  Placed(d, m) /\ Active(db, Line(m)) /\ Ends(d, m) = Ends(db, m)
  <2>1. d[Line(m)] = db[Line(m)] /\ Active(db, Line(m)) /\ db[Line(m)] \in LineRow
    BY <1>2, <1>4, <1>5, LineRows DEF Active
  <2>2. db[Line(m)].n1 \in NodeId /\ db[Line(m)].n2 \in NodeId
    BY <2>1 DEF LineRow
  <2>3. Placed(db, m)
    BY DEF Sound
  <2> QED BY <1>4, <2>1, <2>2, <2>3 DEF Placed, Active, Ends
<1>6. \A m \in LineId : Placed(d, m)
  BY <1>5 DEF Placed
<1> QED BY <1>1, <1>2, <1>4, <1>5, <1>6, RestSound

LEMMA ReverseLineSound ==
  ASSUME TypeOK, Sound(db, seq), NEW a, NEW l \in LineId, NEW pair \in BOOLEAN, ReverseLine(a, l, pair)
  PROVE  Sound(db', seq')
<1> DEFINE L == WithPair(l, pair)
           d == Turned(db, L, clock)
<1>1. Commit(a, "REVERSE", LineKeysOf(L), d) /\ db' = d /\ seq' = seq
  BY DEF ReverseLine, Commit, WithPair
<1>2. clock \in Stamp /\ DbOk(db)
  BY <1>1, Stamped
<1>3. L \in SUBSET LineId /\ \A m \in L : Active(db, Line(m)) /\ db[Line(m)] # NULL
  BY WithPairLines DEF ReverseLine, Active
<1> HIDE DEF L
<1>4. SameOutside(LineKeysOf(L), db, d) /\ Kept(db, d)
  BY <1>2, <1>3, Frames, TurnedType
<1>5. ASSUME NEW m \in L
      PROVE  /\ d[Line(m)].n1 = db[Line(m)].n2 /\ d[Line(m)].n2 = db[Line(m)].n1
             /\ d[Line(m)].shape.start = db[Line(m)].shape.finish
             /\ d[Line(m)].shape.finish = db[Line(m)].shape.start
  <2> DEFINE r == db[Line(m)]
  <2>1. r \in LineRow /\ Line(m) \in Key /\ Line(m) \in LineKeysOf(L)
    BY <1>2, <1>3, LineRows, Keys DEF LineKeysOf
  <2>2. d[Line(m)] = [r EXCEPT !.n1 = r.n2, !.n2 = r.n1, !.sign = SwapSign[@],
                        !.shape = [start |-> @.finish, via |-> @.via, finish |-> @.start],
                        !.stamp = clock]
    BY <2>1 DEF Turned, Update
  <2> HIDE DEF d, r
  <2>3. /\ d[Line(m)].n1 = r.n2 /\ d[Line(m)].n2 = r.n1
        /\ d[Line(m)].shape = [start |-> r.shape.finish, via |-> r.shape.via, finish |-> r.shape.start]
    BY <2>1, <2>2 DEF LineRow
  <2> QED BY <2>3 DEF r
<1> HIDE DEF d
<1>6. LineKeysOf(L) \subseteq LineKeys
  BY <1>3 DEF LineKeysOf, LineKeys
<1>7. /\ \A m \in LineId \ L : d[Line(m)] = db[Line(m)]
      /\ \A n \in NodeId : d[Node(n)] = db[Node(n)]
      /\ \A k \in EquipKeys \cup TypeKeys \cup FlagKeys : d[k] = db[k]
  <2>1. \A m \in LineId \ L : d[Line(m)] = db[Line(m)]
    BY <1>4, Keys DEF SameOutside, LineKeysOf, Line
  <2>2. \A k \in Key \ LineKeys : d[k] = db[k]
    BY <1>4, <1>6 DEF SameOutside
  <2> QED BY <2>1, <2>2, KeyTables, TablesDisjoint DEF Key
<1>8. ASSUME NEW m \in LineId, Active(d, Line(m))
      PROVE  Placed(d, m) /\ Active(db, Line(m)) /\ Ends(d, m) = Ends(db, m)
  <2>1. Active(db, Line(m))
    BY <1>3, <1>7, <1>8 DEF Active
  <2>2. db[Line(m)].n1 \in NodeId /\ db[Line(m)].n2 \in NodeId
    BY <1>2, <2>1, LineRows DEF LineRow, Active
  <2>3. Placed(db, m)
    BY DEF Sound
  <2>4. CASE m \in L
    BY <1>5, <1>7, <2>1, <2>2, <2>3, <2>4 DEF Placed, Active, Ends
  <2>5. CASE m \notin L
    BY <1>7, <2>1, <2>2, <2>3, <2>5 DEF Placed, Active, Ends
  <2> QED BY <2>4, <2>5
<1>9. \A m \in LineId : Placed(d, m)
  BY <1>8 DEF Placed
<1> QED BY <1>1, <1>2, <1>4, <1>7, <1>8, <1>9, RestSound

LEMMA UpdateGeometrySound ==
  ASSUME TypeOK, Sound(db, seq), NEW a, NEW l \in LineId, NEW via \in {0, 1}, UpdateGeometry(a, l, via)
  PROVE  Sound(db', seq')
<1> DEFINE x  == db[Line(l)].n1
           y  == db[Line(l)].n2
           d1 == Update(db, {Line(l)}, LAMBDA k : [db[k] EXCEPT !.shape.via = via])
           d2 == SnapEnds(d1, {l}, x, clock)
           d3 == SnapEnds(d2, {l}, y, clock)
           d  == Measured(d3, {l})
<1>1. /\ Commit(a, "GEOMETRY", LinesWithPipes({l}), d) /\ db' = d /\ seq' = seq
      /\ Active(db, Line(l))
  BY DEF UpdateGeometry, Reshaped, Commit
<1>2. clock \in Stamp /\ DbOk(db)
  BY <1>1, Stamped
<1>3. db[Line(l)] \in LineRow /\ Line(l) \in Key /\ Line(l) \in LineKeys
  BY <1>1, <1>2, LineRows, Keys, KeyTables DEF Active
<1>4. x \in NodeId /\ y \in NodeId
  BY <1>3 DEF LineRow
<1>5. /\ Active(db, Node(x)) /\ db[Node(x)].pos = db[Line(l)].shape.start
      /\ Active(db, Node(y)) /\ db[Node(y)].pos = db[Line(l)].shape.finish
  BY <1>1 DEF Sound, Placed
<1> HIDE DEF x, y
<1>6. SameOutside({Line(l)}, db, d1) /\ DOMAIN d1 = Key
  BY DEF SameOutside, Update
<1>7. /\ d1[Line(l)] \in LineRow /\ d1[Line(l)].removed = db[Line(l)].removed
      /\ d1[Line(l)].n1 = db[Line(l)].n1 /\ d1[Line(l)].n2 = db[Line(l)].n2
      /\ d1[Line(l)].shape.start = db[Line(l)].shape.start
      /\ d1[Line(l)].shape.finish = db[Line(l)].shape.finish
  BY <1>3 DEF Update, LineRow, Shape
<1> HIDE DEF d1
<1>8. DbOk(d1) /\ Kept(db, d1)
  <2>1. {Line(l)} \in SUBSET Key /\ \A k \in {Line(l)} : k \in LineKeys /\ db[k] # NULL /\ d1[k] \in LineRow
    BY <1>1, <1>3, <1>7 DEF Active
  <2> QED BY <1>2, <1>6, <2>1, TableReplaced DEF SameOutside
<1>9. /\ \A m \in LineId \ {l} : d1[Line(m)] = db[Line(m)]
      /\ \A n \in NodeId : d1[Node(n)] = db[Node(n)]
      /\ \A k \in EquipKeys \cup TypeKeys \cup FlagKeys : d1[k] = db[k]
  BY <1>3, <1>6, KeyTables, TablesDisjoint DEF SameOutside, Key, Line
<1>10. d1[Line(l)] # NULL /\ d1[Node(x)] # NULL /\ d1[Node(y)] # NULL
  BY <1>4, <1>5, <1>7, <1>9, NullAssumption DEF Active
<1>11. /\ d2[Line(l)] # NULL /\ d2[Line(l)].removed = d1[Line(l)].removed
       /\ d2[Line(l)].n1 = d1[Line(l)].n1 /\ d2[Line(l)].n2 = d1[Line(l)].n2
       /\ d2[Line(l)].shape.start = IF d1[Line(l)].n1 = x THEN d1[Node(x)].pos ELSE d1[Line(l)].shape.start
       /\ d2[Line(l)].shape.finish = IF d1[Line(l)].n2 = x THEN d1[Node(x)].pos ELSE d1[Line(l)].shape.finish
       /\ \A m \in LineId \ {l} : d2[Line(m)] = d1[Line(m)]
       /\ \A n \in NodeId : d2[Node(n)] = d1[Node(n)]
       /\ \A k \in EquipKeys \cup TypeKeys \cup FlagKeys : d2[k] = d1[k]
       /\ DbOk(d2) /\ Kept(d1, d2)
  <2>1. SnappedTo(d1, {l}, x, d2) /\ DbOk(d2) /\ Kept(d1, d2)
    BY <1>2, <1>4, <1>8, <1>10, SnappedOne
  <2> HIDE DEF d2
  <2> QED BY <2>1 DEF SnappedTo
<1> HIDE DEF d2
<1>12. /\ d3[Line(l)] # NULL /\ d3[Line(l)].removed = d2[Line(l)].removed
       /\ d3[Line(l)].n1 = d2[Line(l)].n1 /\ d3[Line(l)].n2 = d2[Line(l)].n2
       /\ d3[Line(l)].shape.start = IF d2[Line(l)].n1 = y THEN d2[Node(y)].pos ELSE d2[Line(l)].shape.start
       /\ d3[Line(l)].shape.finish = IF d2[Line(l)].n2 = y THEN d2[Node(y)].pos ELSE d2[Line(l)].shape.finish
       /\ \A m \in LineId \ {l} : d3[Line(m)] = d2[Line(m)]
       /\ \A n \in NodeId : d3[Node(n)] = d2[Node(n)]
       /\ \A k \in EquipKeys \cup TypeKeys \cup FlagKeys : d3[k] = d2[k]
       /\ DbOk(d3) /\ Kept(d2, d3)
  <2>1. d2[Node(y)] # NULL
    BY <1>4, <1>10, <1>11
  <2>2. SnappedTo(d2, {l}, y, d3) /\ DbOk(d3) /\ Kept(d2, d3)
    BY <1>2, <1>4, <1>11, <2>1, SnappedOne
  <2> HIDE DEF d3
  <2> QED BY <2>2 DEF SnappedTo
<1> HIDE DEF d3
<1>13. /\ \A m \in LineId : d[Line(m)] = d3[Line(m)]
       /\ \A n \in NodeId : d[Node(n)] = d3[Node(n)]
       /\ \A k \in EquipKeys \cup TypeKeys \cup FlagKeys : d[k] = d3[k]
       /\ Kept(d3, d)
  BY <1>12, MeasuredRest, MeasuredType
<1> HIDE DEF d
<1>14. ASSUME NEW m \in LineId, Active(d, Line(m))
       PROVE  Placed(d, m) /\ Active(db, Line(m)) /\ Ends(d, m) = Ends(db, m)
  <2>1. CASE m = l
    <3>1. /\ d[Line(l)].n1 = x /\ d[Line(l)].n2 = y
          /\ d[Line(l)].shape.start = db[Node(x)].pos /\ d[Line(l)].shape.finish = db[Node(y)].pos
      <4>1. db[Line(l)].n1 = x /\ db[Line(l)].n2 = y
        BY DEF x, y
      <4> QED BY <1>4, <1>5, <1>7, <1>9, <1>11, <1>12, <1>13, <4>1
    <3>2. d[Node(x)] = db[Node(x)] /\ d[Node(y)] = db[Node(y)]
      BY <1>4, <1>9, <1>11, <1>12, <1>13
    <3>3. Ends(d, l) = Ends(db, l)
      BY <3>1 DEF Ends, x, y
    <3> QED BY <1>1, <1>5, <2>1, <3>1, <3>2, <3>3 DEF Placed, Active
  <2>2. CASE m # l
    <3>1. d[Line(m)] = db[Line(m)] /\ Active(db, Line(m)) /\ db[Line(m)] \in LineRow
      BY <1>2, <1>9, <1>11, <1>12, <1>13, <1>14, <2>2, LineRows DEF Active
    <3>2. /\ db[Line(m)].n1 \in NodeId /\ db[Line(m)].n2 \in NodeId
          /\ \A n \in NodeId : d[Node(n)] = db[Node(n)]
      BY <1>9, <1>11, <1>12, <1>13, <3>1 DEF LineRow
    <3>3. Placed(db, m)
      BY DEF Sound
    <3> QED BY <3>1, <3>2, <3>3 DEF Placed, Active, Ends
  <2> QED BY <2>1, <2>2
<1>15. \A m \in LineId : Placed(d, m)
  BY <1>14 DEF Placed
<1>16. Kept(db, d) /\ \A k \in EquipKeys \cup TypeKeys \cup FlagKeys : d[k] = db[k]
  BY <1>8, <1>9, <1>11, <1>12, <1>13, KeptTwice
<1> QED BY <1>1, <1>2, <1>14, <1>15, <1>16, RestSound

\* One element more.
LEMMA OneMore ==
  ASSUME NEW S, IsFiniteSet(S), NEW x, x \notin S
  PROVE  IsFiniteSet(S \cup {x}) /\ Cardinality(S \cup {x}) = Cardinality(S) + 1
<1>1. /\ IsFiniteSet(S \cup {x})
      /\ Cardinality(S \cup {x}) = IF x \in S THEN Cardinality(S) ELSE Cardinality(S) + 1
  BY FS_AddElement
<1> QED BY <1>1

LEMMA Two ==
  ASSUME NEW a, NEW b, a # b
  PROVE  IsFiniteSet({a, b}) /\ Cardinality({a, b}) = 2
<1>1. IsFiniteSet({a}) /\ Cardinality({a}) = 1 /\ b \notin {a} /\ {a} \cup {b} = {a, b}
  BY FS_Singleton
<1>2. IsFiniteSet({a} \cup {b}) /\ Cardinality({a} \cup {b}) = Cardinality({a}) + 1
  BY <1>1, OneMore
<1> QED BY <1>1, <1>2

LEMMA Four ==
  ASSUME NEW a, NEW b, NEW c, NEW d, a # b, c # a, c # b, d # a, d # b, d # c
  PROVE  Cardinality({a, b, c, d}) = 4
<1>1. IsFiniteSet({a, b}) /\ Cardinality({a, b}) = 2
  BY Two
<1>2. /\ {a, b} \cup {c} = {a, b, c} /\ {a, b, c} \cup {d} = {a, b, c, d}
      /\ c \notin {a, b} /\ d \notin {a, b, c}
  OBVIOUS
<1>3. IsFiniteSet({a, b} \cup {c}) /\ Cardinality({a, b} \cup {c}) = Cardinality({a, b}) + 1
  BY <1>1, <1>2, OneMore
<1>4. IsFiniteSet({a, b, c}) /\ Cardinality({a, b, c}) = 3
  BY <1>1, <1>2, <1>3
<1>5. Cardinality({a, b, c} \cup {d}) = Cardinality({a, b, c}) + 1
  BY <1>2, <1>4, OneMore
<1> QED BY <1>2, <1>4, <1>5

\* The lines of the node are kept or removed, the kept ones are joined.
LEMMA AllJoined ==
  ASSUME DbOk(db), NEW n \in NodeId, Dissolvable(db, n)
  PROVE  LET joins == Joins(db, n) IN
         /\ ActiveIncident(db, n) = {j[1] : j \in joins} \cup {j[2] : j \in joins}
         /\ {j[1] : j \in joins} \cap {j[2] : j \in joins} = {}
         /\ \A l \in ActiveIncident(db, n) : Other(db, l, n) # n /\ OnLine(db, l) = {}

<1> DEFINE inc   == ActiveIncident(db, n)
           kept  == KeptLines(db, n)
           joins == Joins(db, n)
           J1    == {j[1] : j \in joins}
           J2    == {j[2] : j \in joins}
<1>1. /\ inc \subseteq LineId /\ IsFiniteSet(inc) /\ IsFiniteSet(kept) /\ kept \subseteq inc
  <2>1. inc \subseteq LineId /\ kept \subseteq inc
    BY DEF ActiveIncident, Incident, KeptLines
  <2>2. IsFiniteSet(LineId)
    BY FS_Interval, BoundsAssumption DEF LineId
  <2> HIDE DEF inc, kept
  <2>3. IsFiniteSet(inc)
    BY <2>1, <2>2, FS_Subset
  <2> QED BY <2>1, <2>3, FS_Subset
<1>2. /\ Cardinality(kept) \in {1, 2} /\ Cardinality(inc) = 2 * Cardinality(kept)
      /\ \A l \in kept : \E j \in joins : j[1] = l
      /\ Cardinality(kept) = 2 => \A l \in kept : FindPair(db, l) # {}
      /\ \A l \in inc : Other(db, l, n) # n /\ OnLine(db, l) = {}
  BY DEF Dissolvable
<1>3. \A j \in joins : j[1] \in kept /\ j[2] \in inc \ kept /\ db[Line(j[1])].sign = db[Line(j[2])].sign
  BY DEF Joins
<1>4. ASSUME NEW a \in kept, NEW b \in FindPair(db, a)
      PROVE  b \in kept /\ b # a /\ db[Line(a)].sign # db[Line(b)].sign
  <2>1. /\ b \in LineId /\ b # a /\ Active(db, Line(b)) /\ db[Line(a)].sign \in {2, 3}
        /\ db[Line(b)].sign = PairSign[db[Line(a)].sign]
        /\ db[Line(b)].n1 = db[Line(a)].n1 /\ db[Line(b)].n2 = db[Line(a)].n2
    BY DEF FindPair, Pairs
  <2>2. db[Line(b)].sign # db[Line(a)].sign
    BY <2>1 DEF PairSign, Sign
  <2>3. b \in inc /\ Other(db, b, n) = Other(db, a, n)
    <3>1. n \in Ends(db, a)
      BY <1>1 DEF ActiveIncident, Incident
    <3> QED BY <2>1, <3>1 DEF ActiveIncident, Incident, Ends, Active, Other
  <2> QED BY <2>1, <2>2, <2>3 DEF KeptLines
<1> HIDE DEF inc, kept, joins
<1>5. J1 = kept /\ J2 \subseteq inc \ kept
  BY <1>2, <1>3
<1>6. ASSUME NEW T \in SUBSET inc, Cardinality(T) = Cardinality(inc) PROVE T = inc
  BY <1>1, <1>6, FS_Subset
<1>7. CASE Cardinality(kept) = 1
  <2>1. PICK a : kept = {a}
    BY <1>1, <1>7, FS_Singleton
  <2>2. PICK j \in joins : j[1] = a
    BY <1>2, <2>1
  <2> DEFINE c == j[2]
  <2>3. c \in inc /\ c # a /\ c \in J2 /\ a \in inc
    BY <1>1, <1>3, <2>1
  <2> HIDE DEF c
  <2>4. Cardinality({a, c}) = 2
    BY <2>3, Two
  <2>5. {a, c} = inc
    BY <1>2, <1>6, <1>7, <2>3, <2>4
  <2> QED BY <1>1, <1>2, <1>5, <2>1, <2>3, <2>5 DEF inc, joins
<1>8. CASE Cardinality(kept) = 2
  <2>1. PICK a : a \in kept
    BY <1>1, <1>8, FS_EmptySet
  <2>2. PICK b : b \in FindPair(db, a)
    BY <1>2, <1>8, <2>1
  <2>3. b \in kept /\ b # a /\ db[Line(a)].sign # db[Line(b)].sign
    BY <1>4, <2>1, <2>2
  <2>4. Cardinality({a, b}) = 2
    BY <2>3, Two
  <2>5. kept = {a, b}
    <3>1. {a, b} \in SUBSET kept
      BY <2>1, <2>3
    <3> QED BY <1>1, <1>8, <2>4, <3>1, FS_Subset
  <2>6. PICK i \in joins : i[1] = a
    BY <1>2, <2>1
  <2>7. PICK j \in joins : j[1] = b
    BY <1>2, <2>3
  <2> DEFINE c == i[2]
             e == j[2]
  <2>8. /\ c \in inc \ kept /\ e \in inc \ kept /\ c \in J2 /\ e \in J2
        /\ db[Line(c)].sign = db[Line(a)].sign /\ db[Line(e)].sign = db[Line(b)].sign
    BY <1>3, <2>6, <2>7
  <2> HIDE DEF c, e
  <2>9. c # e /\ c # a /\ c # b /\ e # a /\ e # b
    BY <2>1, <2>3, <2>8
  <2>10. Cardinality({a, b, c, e}) = 4
    <3>1. a # b /\ c # a /\ c # b /\ e # a /\ e # b /\ e # c
      BY <2>3, <2>9
    <3>2. \A w, x, y, z : w # x /\ y # w /\ y # x /\ z # w /\ z # x /\ z # y => Cardinality({w, x, y, z}) = 4
      BY Four
    <3> QED BY <3>1, <3>2, Zenon
  <2>11. {a, b, c, e} = inc
    <3>1. {a, b, c, e} \in SUBSET inc
      BY <1>1, <2>1, <2>3, <2>8
    <3>2. Cardinality(inc) = 4
      BY <1>2, <1>8
    <3>3. \A T \in SUBSET inc : Cardinality(T) = Cardinality(inc) => T = inc
      BY <1>6
    <3> QED BY <2>10, <3>1, <3>2, <3>3
  <2> QED BY <1>1, <1>2, <1>5, <2>5, <2>8, <2>11 DEF inc, joins
<1> QED BY <1>2, <1>7, <1>8

LEMMA DissolveNodeSound ==
  ASSUME TypeOK, Sound(db, seq), NEW a, NEW n \in NodeId, DissolveNode(a, n)
  PROVE  Sound(db', seq')
<1> DEFINE joins == Joins(db, n)
           kept  == {j[1] : j \in joins}
           gone  == {j[2] : j \in joins}
           d1    == Extended(db, joins, n, clock)
           d2    == Measured(d1, kept)
           d3    == RemoveLines(d2, gone, clock)
           d     == RemoveNode(d3, n, clock)
<1>1. /\ Commit(a, "DISSOLVE_NODE", {Node(n)} \cup LinesWithPipes(kept \cup gone), d)
      /\ db' = d /\ seq' = seq /\ db[Node(n)] # NULL /\ Dissolvable(db, n)
  BY DEF DissolveNode, NodeDissolved, Active, Commit
<1>2. clock \in Stamp /\ DbOk(db)
  BY <1>1, Stamped
<1>3. /\ ActiveIncident(db, n) = kept \cup gone /\ kept \cap gone = {}
      /\ \A l \in kept \cup gone : Other(db, l, n) # n /\ OnLine(db, l) = {}
  BY <1>1, <1>2, AllJoined
<1>4. /\ kept \in SUBSET LineId /\ gone \in SUBSET LineId
      /\ \A l \in kept \cup gone :
           /\ db[Line(l)] \in LineRow /\ Active(db, Line(l)) /\ db[Line(l)] # NULL /\ n \in Ends(db, l)
           /\ Placed(db, l)
  <2>1. \A l \in ActiveIncident(db, n) : l \in LineId /\ Active(db, Line(l)) /\ n \in Ends(db, l)
    BY DEF ActiveIncident, Incident, Active
  <2> QED BY <1>2, <1>3, <2>1, LineRows DEF Active, Sound
<1>5. DbOk(d1) /\ Kept(db, d1)
  BY <1>2, ExtendedRows
<1>6. ASSUME NEW l \in kept
      PROVE  \E j \in joins : l = j[1] /\ d1[Line(l)] = Joined(db, j, n, clock)
  <2>1. Line(l) \in Key
    BY <1>4, Keys
  <2>2. PICK i \in joins : l = i[1]
    OBVIOUS
  <2> DEFINE c == CHOOSE j \in joins : Line(l) = Line(j[1])
  <2>3. c \in joins /\ Line(l) = Line(c[1])
    BY <2>2
  <2>4. d1[Line(l)] = Joined(db, c, n, clock)
    BY <2>1, <2>2 DEF Extended
  <2> HIDE DEF c
  <2>5. l = c[1]
    BY <2>3 DEF Line
  <2> QED BY <2>3, <2>4, <2>5
<1>7. SameOutside(LineKeysOf(kept), db, d1)
  BY DEF SameOutside, Extended, LineKeysOf
<1>8. /\ \A j \in joins : j[1] \in kept /\ j[2] \in gone
  OBVIOUS
<1> HIDE DEF d1
<1> HIDE DEF joins
<1> HIDE DEF kept, gone
<1>9. /\ \A l \in LineId \ kept : d1[Line(l)] = db[Line(l)]
      /\ \A m \in NodeId : d1[Node(m)] = db[Node(m)]
      /\ \A k \in EquipKeys \cup TypeKeys \cup FlagKeys : d1[k] = db[k]
  <2>1. \A l \in LineId \ kept : d1[Line(l)] = db[Line(l)]
    BY <1>7, Keys DEF SameOutside, LineKeysOf, Line
  <2>2. LineKeysOf(kept) \subseteq LineKeys
    BY <1>4 DEF LineKeysOf, LineKeys
  <2>3. \A k \in Key \ LineKeys : d1[k] = db[k]
    BY <1>7, <2>2 DEF SameOutside
  <2> QED BY <2>1, <2>3, KeyTables, TablesDisjoint DEF Key
\* A kept line goes on to the other end of the removed one.
<1>10. ASSUME NEW l \in kept
       PROVE  LET r == d1[Line(l)] IN
              /\ r.n1 # n /\ r.n2 # n /\ r.n1 \in NodeId /\ r.n2 \in NodeId
              /\ Active(db, Node(r.n1)) /\ db[Node(r.n1)].pos = r.shape.start
              /\ Active(db, Node(r.n2)) /\ db[Node(r.n2)].pos = r.shape.finish
  <2>1. PICK j \in joins : l = j[1] /\ d1[Line(l)] = Joined(db, j, n, clock)
    BY <1>6
  <2> DEFINE keep  == db[Line(l)]
             m     == j[2]
             rest  == db[Line(m)]
             o     == Other(db, m, n)
             first == IF rest.n2 = n THEN rest.shape.start ELSE rest.shape.finish
             last  == IF rest.n1 = n THEN rest.shape.finish ELSE rest.shape.start
  <2>2. /\ keep \in LineRow /\ rest \in LineRow /\ Active(db, Line(l)) /\ Active(db, Line(m))
        /\ Placed(db, l) /\ Placed(db, m) /\ Other(db, l, n) # n /\ o # n
        /\ n \in {keep.n1, keep.n2} /\ n \in {rest.n1, rest.n2}
    BY <1>3, <1>4, <1>8 DEF Ends
  <2>3. /\ o \in NodeId /\ Active(db, Node(o)) /\ db[Node(o)].pos = first /\ first = last
    BY <2>2 DEF Other, Placed, LineRow
  <2>4. CASE keep.n2 = n
    <3>1. d1[Line(l)] = [keep EXCEPT !.n2 = o, !.stamp = clock,
                           !.shape = [start |-> @.start, via |-> 1, finish |-> last]]
      BY <2>1, <2>4 DEF Joined
    <3>2. keep.n1 # n
      BY <2>2, <2>4 DEF Other
    <3> HIDE DEF o, last, first, keep, rest, m
    <3>3. /\ d1[Line(l)].n1 = keep.n1 /\ d1[Line(l)].n2 = o
          /\ d1[Line(l)].shape.start = keep.shape.start /\ d1[Line(l)].shape.finish = last
      BY <2>2, <3>1 DEF LineRow
    <3>4. keep.n1 \in NodeId /\ Active(db, Node(keep.n1)) /\ db[Node(keep.n1)].pos = keep.shape.start
      BY <2>2 DEF Placed, LineRow, keep
    <3> QED BY <2>2, <2>3, <3>2, <3>3, <3>4
  <2>5. CASE keep.n2 # n
    <3>1. d1[Line(l)] = [keep EXCEPT !.n1 = o, !.stamp = clock,
                           !.shape = [start |-> first, via |-> 1, finish |-> @.finish]]
      BY <2>1, <2>5 DEF Joined
    <3> HIDE DEF o, last, first, keep, rest, m
    <3>3. /\ d1[Line(l)].n2 = keep.n2 /\ d1[Line(l)].n1 = o
          /\ d1[Line(l)].shape.finish = keep.shape.finish /\ d1[Line(l)].shape.start = first
      BY <2>2, <3>1 DEF LineRow
    <3>4. keep.n2 \in NodeId /\ Active(db, Node(keep.n2)) /\ db[Node(keep.n2)].pos = keep.shape.finish
      BY <2>2 DEF Placed, LineRow, keep
    <3> QED BY <2>2, <2>3, <2>5, <3>3, <3>4
  <2> QED BY <2>4, <2>5
<1>11. /\ \A l \in LineId : d2[Line(l)] = d1[Line(l)]
       /\ \A m \in NodeId : d2[Node(m)] = d1[Node(m)]
       /\ \A k \in EquipKeys \cup TypeKeys \cup FlagKeys : d2[k] = d1[k]
       /\ DbOk(d2) /\ Kept(d1, d2)
  <2>1. \A l \in kept : d1[Line(l)] # NULL
    BY <1>4, <1>5, Keys DEF Kept
  <2> QED BY <1>4, <1>5, <2>1, MeasuredRest, MeasuredType
<1> HIDE DEF d2
<1>12. /\ \A l \in gone : ~Active(d3, Line(l))
       /\ \A l \in LineId \ gone : d3[Line(l)] = d2[Line(l)]
       /\ \A m \in NodeId : d3[Node(m)] = d2[Node(m)]
       /\ \A k \in EquipKeys \cup TypeKeys \cup FlagKeys : d3[k] = d2[k]
       /\ DbOk(d3) /\ Kept(d2, d3)
  <2>1. \A l \in gone : d2[Line(l)] # NULL
    BY <1>4, <1>5, <1>11, Keys DEF Kept
  <2> QED BY <1>2, <1>4, <1>11, <2>1, RemovedRest, RemoveLinesType
<1> HIDE DEF d3
<1>13. /\ \A l \in LineId : d[Line(l)] = d3[Line(l)]
       /\ \A m \in NodeId \ {n} : d[Node(m)] = d3[Node(m)]
       /\ \A k \in EquipKeys \cup TypeKeys \cup FlagKeys : d[k] = d3[k]
       /\ Kept(d3, d)
  <2>1. d3[Node(n)] # NULL
    BY <1>1, <1>9, <1>11, <1>12
  <2> QED BY <1>2, <1>12, <2>1, NodeRest, RemoveNodeType
<1> HIDE DEF d
<1>14. ASSUME NEW l \in LineId, Active(d, Line(l))
       PROVE  /\ Placed(d, l)
              /\ OnLine(db, l) # {} => Active(db, Line(l)) /\ Ends(d, l) = Ends(db, l)
  <2>1. l \notin gone /\ d[Line(l)] = d1[Line(l)]
    BY <1>11, <1>12, <1>13, <1>14 DEF Active
  <2>2. \A m \in NodeId \ {n} : d[Node(m)] = db[Node(m)]
    BY <1>9, <1>11, <1>12, <1>13
  <2>3. CASE l \in kept
    <3>1. OnLine(db, l) = {}
      BY <1>3, <2>3
    <3>2. Placed(d, l)
      BY <1>10, <2>1, <2>2, <2>3 DEF Placed, Active
    <3> QED BY <3>1, <3>2
  <2>4. CASE l \notin kept
    <3>1. d[Line(l)] = db[Line(l)] /\ Active(db, Line(l)) /\ db[Line(l)] \in LineRow
      BY <1>2, <1>9, <1>14, <2>1, <2>4, LineRows DEF Active
    <3>2. l \notin ActiveIncident(db, n)
      BY <1>3, <2>1, <2>4
    <3>3. db[Line(l)].n1 \in NodeId \ {n} /\ db[Line(l)].n2 \in NodeId \ {n}
      BY <3>1, <3>2 DEF ActiveIncident, Incident, Ends, Active, LineRow
    <3>4. Placed(db, l)
      BY DEF Sound
    <3> QED BY <2>2, <3>1, <3>3, <3>4 DEF Placed, Active, Ends
  <2> QED BY <2>3, <2>4
<1>15. \A l \in LineId : Placed(d, l)
  BY <1>14 DEF Placed
<1>16. Kept(db, d) /\ \A k \in EquipKeys \cup TypeKeys \cup FlagKeys : d[k] = db[k]
  BY <1>5, <1>9, <1>11, <1>12, <1>13, KeptTwice
<1> QED BY <1>1, <1>2, <1>14, <1>15, <1>16, RestSound

\* The parts an operation has not touched.
LEMMA PartsSame ==
  ASSUME NEW d, DbOk(d), NEW e
  PROVE  /\ (\A l \in LineId : e[Line(l)] = d[Line(l)]) /\ (\A k \in EquipKeys : e[k] = d[k])
              => (RegulatorsOk(d) => RegulatorsOk(e))
         /\ (\A k \in FlagKeys : e[k] = d[k]) => (FlagsOk(d) => FlagsOk(e))
<1>1. ASSUME \A l \in LineId : e[Line(l)] = d[Line(l)], \A k \in EquipKeys : e[k] = d[k], RegulatorsOk(d)
      PROVE  RegulatorsOk(e)
  <2>1. \A k \in EquipKeys : d[k] # NULL => d[k].lineid \in LineId
    BY RowsOfTables DEF EquipRow
  <2> QED BY <1>1, <2>1 DEF RegulatorsOk, Active, Ends
<1>2. ASSUME \A k \in FlagKeys : e[k] = d[k], FlagsOk(d) PROVE FlagsOk(e)
  <2>1. \A n \in NodeId : FlagsAt(e, n) = FlagsAt(d, n)
    BY <1>2 DEF FlagsAt
  <2> QED BY <1>2, <2>1 DEF FlagsOk
<1> QED BY <1>1, <1>2

\* The rows under the next ids are not there.
LEMMA Fresh ==
  ASSUME TypeOK, Numbered(db, seq)
  PROVE  /\ NextNode \in NodeId => db[Node(NextNode)] = NULL
         /\ NextLine \in LineId => db[Line(NextLine)] = NULL
         /\ seq.node \in Int /\ seq.line \in Int
<1>1. seq.node \in Int /\ seq.line \in Int
  BY DEF TypeOK
<1> QED BY <1>1 DEF Numbered, NextNode, NextLine

LEMMA CreateNodeSound ==
  ASSUME TypeOK, Sound(db, seq), NEW a, NEW p \in Pos, NEW table, CreateNode(a, p, table)
  PROVE  Sound(db', seq')
<1> DEFINE n     == NextNode
           cards == NewCards(table)
           d1    == Update(db, {Node(n)}, LAMBDA k : [pos |-> p, removed |-> FALSE, stamp |-> clock])
           d     == WithCards(d1, cards, n)
<1>1. /\ Commit(a, "CREATE_NODE", {Node(n)} \cup cards, d) /\ db' = d
      /\ seq' = [seq EXCEPT !.node = n, !.card = @ + Cardinality(cards)]
      /\ n \in NodeId /\ cards \subseteq TypeKeys
  BY DEF CreateNode, Commit
<1>2. DbOk(db) /\ seq \in SeqType
  BY DEF TypeOK, SeqType
<1>3. db[Node(n)] = NULL /\ n = seq.node + 1 /\ seq.node \in Int
  BY <1>1, Fresh DEF Sound, NextNode
<1>4. seq'.node = n /\ seq'.line = seq.line
  BY <1>1, <1>2 DEF SeqType
<1>5. \A k \in cards : k[1] = table
  BY DEF NewCards
<1> HIDE DEF n, cards
<1>6. d[Node(n)] = [pos |-> p, removed |-> FALSE, stamp |-> clock]
  BY <1>1, KeyTables, TablesDisjoint, Keys DEF WithCards, Update
<1>7. \A k \in cards : d[k] = [nodeid |-> n]
  BY <1>1 DEF WithCards, Update, Key
<1>8. \A k \in Key : k # Node(n) /\ k \notin cards => d[k] = db[k]
  BY DEF WithCards, Update
<1> HIDE DEF d
<1>9. /\ \A l \in LineId : d[Line(l)] = db[Line(l)]
      /\ \A m \in NodeId \ {n} : d[Node(m)] = db[Node(m)]
      /\ \A k \in EquipKeys \cup FlagKeys : d[k] = db[k]
      /\ \A k \in TypeKeys \ cards : d[k] = db[k]
  <2>1. \A l \in LineId : Line(l) # Node(n) /\ Line(l) \notin cards /\ Line(l) \in Key
    BY <1>1, KeyTables, TablesDisjoint, Keys
  <2>2. \A m \in NodeId \ {n} : Node(m) # Node(n) /\ Node(m) \notin cards /\ Node(m) \in Key
    BY <1>1, KeyTables, TablesDisjoint, Keys DEF Node
  <2>3. \A k \in EquipKeys \cup FlagKeys \cup TypeKeys : k # Node(n) /\ k \in Key
    BY <1>1, KeyTables, TablesDisjoint DEF Key
  <2>4. \A k \in EquipKeys \cup FlagKeys : k \notin cards
    BY <1>1, TablesDisjoint
  <2> QED BY <1>8, <2>1, <2>2, <2>3, <2>4
<1>10. RegulatorsOk(d) /\ FlagsOk(d)
  BY <1>2, <1>9, PartsSame DEF Sound
<1>11. ASSUME NEW l \in LineId PROVE Placed(d, l)
  <2>1. Placed(db, l)
    BY DEF Sound
  <2>2. ASSUME Active(db, Line(l))
        PROVE  db[Line(l)].n1 \in NodeId \ {n} /\ db[Line(l)].n2 \in NodeId \ {n}
    BY <1>2, <1>3, <2>1, <2>2, LineRows DEF Placed, LineRow, Active
  <2> QED BY <1>9, <2>1, <2>2 DEF Placed, Active
<1>12. Numbered(d, seq')
  <2>1. \A m \in NodeId : d[Node(m)] # NULL => m <= seq'.node
    BY <1>3, <1>4, <1>9 DEF Sound, Numbered, NodeId
  <2>2. \A l \in LineId : d[Line(l)] # NULL => l <= seq'.line
    BY <1>4, <1>9 DEF Sound, Numbered
  <2> QED BY <2>1, <2>2 DEF Numbered
<1> QED BY <1>1, <1>10, <1>11, <1>12 DEF Sound

LEMMA CreateLineSound ==
  ASSUME TypeOK, Sound(db, seq), NEW a, NEW x \in NodeId, NEW y \in NodeId, CreateLine(a, x, y)
  PROVE  Sound(db', seq')
<1> DEFINE l     == NextLine
           shape == [start |-> db[Node(x)].pos, via |-> 0, finish |-> db[Node(y)].pos]
           d     == NewLine(db, l, x, y, clock)
<1>1. /\ Commit(a, "CREATE_LINE", {Line(l), Pipe(l)}, d) /\ db' = d /\ seq' = [seq EXCEPT !.line = l]
      /\ l \in LineId /\ Active(db, Node(x)) /\ Active(db, Node(y))
  BY DEF CreateLine, Commit
<1>2. DbOk(db) /\ seq \in SeqType
  BY DEF TypeOK, SeqType
<1>3. db[Line(l)] = NULL /\ l = seq.line + 1 /\ seq.line \in Int
  BY <1>1, Fresh DEF Sound, NextLine
<1>4. seq'.line = l /\ seq'.node = seq.node
  BY <1>1, <1>2 DEF SeqType
<1> HIDE DEF l
<1>5. Line(l) # Pipe(l) /\ Line(l) \in Key
  BY <1>1, Keys DEF Line, Pipe
<1>6. d[Line(l)] = [n1 |-> x, n2 |-> y, sign |-> 0, shape |-> shape, removed |-> FALSE, stamp |-> clock]
  BY <1>5 DEF NewLine, Update
<1>7. \A k \in Key : k # Line(l) /\ k # Pipe(l) => d[k] = db[k]
  BY DEF NewLine, Update
<1> HIDE DEF d
<1>8. /\ \A m \in LineId \ {l} : d[Line(m)] = db[Line(m)]
      /\ \A n \in NodeId : d[Node(n)] = db[Node(n)]
      /\ \A k \in EquipKeys \cup TypeKeys \cup FlagKeys : d[k] = db[k]
  <2>1. \A m \in LineId \ {l} : Line(m) # Line(l) /\ Line(m) # Pipe(l) /\ Line(m) \in Key
    BY Keys DEF Line, Pipe
  <2>2. Line(l) \in LineKeys /\ Pipe(l) \in PipeKeys
    BY <1>1, KeyTables
  <2> QED BY <1>7, <2>1, <2>2, KeyTables, TablesDisjoint DEF Key
<1>9. FlagsOk(d)
  BY <1>2, <1>8, PartsSame DEF Sound
<1>10. RegulatorsOk(d)
  <2>1. \A k \in EquipKeys : db[k] # NULL => db[k].lineid \in LineId \ {l}
    <3>1. \A k \in EquipKeys : db[k] # NULL => db[k].lineid \in LineId
      BY <1>2, RowsOfTables DEF EquipRow
    <3> QED BY <1>3, <3>1 DEF Sound, RegulatorsOk
  <2> QED BY <1>8, <2>1 DEF Sound, RegulatorsOk, Active, Ends
<1>11. ASSUME NEW m \in LineId PROVE Placed(d, m)
  <2>1. CASE m = l
    BY <1>1, <1>6, <1>8, <2>1 DEF Placed, Active
  <2>2. CASE m # l
    <3>1. Placed(db, m)
      BY DEF Sound
    <3>2. Active(db, Line(m)) => db[Line(m)].n1 \in NodeId /\ db[Line(m)].n2 \in NodeId
      BY <1>2, LineRows DEF LineRow, Active
    <3> QED BY <1>8, <2>2, <3>1, <3>2 DEF Placed, Active
  <2> QED BY <2>1, <2>2
<1>12. Numbered(d, seq')
  BY <1>3, <1>4, <1>8 DEF Sound, Numbered, LineId
<1> QED BY <1>1, <1>9, <1>10, <1>11, <1>12 DEF Sound

LEMMA ChangeNodeTypeSound ==
  ASSUME TypeOK, Sound(db, seq), NEW a, NEW n \in NodeId, NEW table, ChangeNodeType(a, n, table)
  PROVE  Sound(db', seq')
<1> DEFINE cards == TypesAt(db, n)
           same  == {k \in cards : k[1] = table}
           keep  == {k \in same : \A j \in same : k[2] <= j[2]}
           out   == cards \ keep
           new   == IF keep = {} THEN NewCards(table) ELSE {}
           d1    == Update(db, out, LAMBDA k : NULL)
           d2    == Update(d1, {Node(n)}, LAMBDA k : [d1[k] EXCEPT !.stamp = clock])
           d     == WithCards(d2, new, n)
<1>1. /\ Commit(a, "CHANGE_NODE_TYPE", {Node(n)} \cup out \cup new, d) /\ db' = d
      /\ seq' = [seq EXCEPT !.card = @ + Cardinality(new)]
      /\ new \subseteq TypeKeys /\ Active(db, Node(n))
  BY DEF ChangeNodeType, Commit
<1>2. DbOk(db) /\ seq \in SeqType /\ clock \in Stamp
  BY <1>1, Stamped DEF TypeOK, SeqType
<1>3. seq'.line = seq.line /\ seq'.node = seq.node
  BY <1>1, <1>2 DEF SeqType
<1>4. /\ cards \subseteq TypeKeys /\ out \subseteq TypeKeys /\ cards \ out = keep
      /\ \A k \in keep : k[1] = table
      /\ \A k \in new : k[1] = table
  BY DEF TypesAt, NewCards
<1>5. \A k \in TypeKeys \cup FlagKeys \cup EquipKeys : k # Node(n) /\ k \in Key
  BY KeyTables, TablesDisjoint DEF Key
<1>6. db[Node(n)] \in NodeRow /\ Node(n) \in Key /\ Node(n) \notin new /\ Node(n) \notin out
  BY <1>1, <1>2, <1>4, <1>5, NodeRows, Keys DEF Active
<1> HIDE DEF cards, keep, out, new
<1>7. /\ d[Node(n)].removed = db[Node(n)].removed /\ d[Node(n)].pos = db[Node(n)].pos /\ d[Node(n)] # NULL
  <2>1. d[Node(n)] = [db[Node(n)] EXCEPT !.stamp = clock]
    BY <1>6 DEF WithCards, Update
  <2>2. [db[Node(n)] EXCEPT !.stamp = clock] \in NodeRow
    BY <1>2, <1>6 DEF NodeRow
  <2> HIDE DEF d
  <2> QED BY <1>6, <2>1, <2>2, NullAssumption DEF NodeRow
<1>8. /\ \A k \in new : d[k] = [nodeid |-> n]
      /\ \A k \in out \ new : d[k] = NULL
  BY <1>1, <1>4, <1>5 DEF WithCards, Update
<1>9. \A k \in Key : k # Node(n) /\ k \notin out /\ k \notin new => d[k] = db[k]
  BY DEF WithCards, Update
<1> HIDE DEF d
<1>10. /\ \A l \in LineId : d[Line(l)] = db[Line(l)]
       /\ \A m \in NodeId \ {n} : d[Node(m)] = db[Node(m)]
       /\ \A k \in EquipKeys \cup FlagKeys : d[k] = db[k]
       /\ \A k \in TypeKeys : k \notin out /\ k \notin new => d[k] = db[k]
  <2>1. \A l \in LineId : Line(l) # Node(n) /\ Line(l) \notin TypeKeys /\ Line(l) \in Key
    BY KeyTables, TablesDisjoint, Keys
  <2>2. \A m \in NodeId \ {n} : Node(m) # Node(n) /\ Node(m) \notin TypeKeys /\ Node(m) \in Key
    BY KeyTables, TablesDisjoint, Keys DEF Node
  <2>3. \A k \in EquipKeys \cup FlagKeys : k \notin TypeKeys
    BY TablesDisjoint
  <2> QED BY <1>1, <1>4, <1>5, <1>9, <2>1, <2>2, <2>3
<1>11. RegulatorsOk(d) /\ FlagsOk(d)
  BY <1>2, <1>10, PartsSame DEF Sound
<1>12. ASSUME NEW l \in LineId PROVE Placed(d, l)
  <2>1. Placed(db, l)
    BY DEF Sound
  <2>2. Active(db, Line(l)) => db[Line(l)].n1 \in NodeId /\ db[Line(l)].n2 \in NodeId
    BY <1>2, LineRows DEF LineRow, Active
  <2> QED BY <1>7, <1>10, <2>1, <2>2 DEF Placed, Active
<1>13. Numbered(d, seq')
  BY <1>1, <1>3, <1>10 DEF Sound, Numbered, Active
<1> QED BY <1>1, <1>11, <1>12, <1>13 DEF Sound

\* Flags are set or cleared.
LEMMA FlagsOnlySound ==
  ASSUME DbOk(db), Sound(db, seq), NEW d, NEW S \in SUBSET FlagKeys, SameOutside(S, db, d), FlagsOk(d)
  PROVE  Sound(d, seq)
<1>1. /\ \A l \in LineId : d[Line(l)] = db[Line(l)]
      /\ \A n \in NodeId : d[Node(n)] = db[Node(n)]
      /\ \A k \in EquipKeys \cup TypeKeys : d[k] = db[k]
  <2>1. \A k \in Key \ FlagKeys : d[k] = db[k]
    BY DEF SameOutside
  <2> QED BY <2>1, KeyTables, TablesDisjoint DEF Key
<1>2. RegulatorsOk(d)
  BY <1>1, PartsSame DEF Sound
<1>3. ASSUME NEW l \in LineId PROVE Placed(d, l)
  <2>1. Placed(db, l)
    BY DEF Sound
  <2>2. Active(db, Line(l)) => db[Line(l)].n1 \in NodeId /\ db[Line(l)].n2 \in NodeId
    BY LineRows DEF LineRow, Active
  <2> QED BY <1>1, <2>1, <2>2 DEF Placed, Active
<1>4. Numbered(d, seq)
  BY <1>1 DEF Sound, Numbered
<1> QED BY <1>2, <1>3, <1>4 DEF Sound

LEMMA SetFlagSound ==
  ASSUME TypeOK, Sound(db, seq), NEW a, NEW n \in NodeId, SetFlag(a, n)
  PROVE  Sound(db', seq')
<1> DEFINE k == <<FlagTable, NextCard>>
           d == WithCards(db, {k}, n)
<1>1. /\ db' = d /\ k \in FlagKeys /\ seq' = [seq EXCEPT !.card = NextCard] /\ FlagsAt(db, n) = {}
  BY DEF SetFlag, Commit
<1>2. DbOk(db) /\ seq \in SeqType
  BY DEF TypeOK, SeqType
<1>3. seq'.line = seq.line /\ seq'.node = seq.node
  BY <1>1, <1>2 DEF SeqType
<1> HIDE DEF k
<1>4. SameOutside({k}, db, d) /\ d[k] = [nodeid |-> n]
  BY <1>1, Frames DEF WithCards, Update, Key
<1> HIDE DEF d
<1>5. FlagsOk(d)
  <2>1. \A j \in FlagKeys : j # k => d[j] = db[j]
    BY <1>4 DEF SameOutside, Key
  <2>2. FlagsAt(d, n) \subseteq {k}
    BY <1>1, <2>1 DEF FlagsAt
  <2>3. \A m \in NodeId \ {n} : FlagsAt(d, m) \subseteq FlagsAt(db, m)
    BY <1>4, <2>1 DEF FlagsAt
  <2> QED BY <2>2, <2>3 DEF FlagsOk, Sound
<1>6. Sound(d, seq)
  BY <1>1, <1>2, <1>4, <1>5, FlagsOnlySound
<1> QED BY <1>1, <1>3, <1>6 DEF Sound, Numbered

LEMMA ClearFlagSound ==
  ASSUME TypeOK, Sound(db, seq), NEW a, NEW n \in NodeId, ClearFlag(a, n)
  PROVE  Sound(db', seq')
<1> DEFINE flags == FlagsAt(db, n)
           d     == Update(db, flags, LAMBDA k : NULL)
<1>1. db' = d /\ seq' = seq /\ DbOk(db) /\ flags \in SUBSET FlagKeys
  BY DEF ClearFlag, Commit, TypeOK, FlagsAt
<1>2. SameOutside(flags, db, d) /\ \A k \in flags : d[k] = NULL
  BY <1>1 DEF SameOutside, Update, Key
<1> HIDE DEF flags, d
<1>3. FlagsOk(d)
  <2>1. \A j \in FlagKeys : d[j] # NULL => d[j] = db[j]
    BY <1>2 DEF SameOutside, Key
  <2>2. \A m \in NodeId : FlagsAt(d, m) \subseteq FlagsAt(db, m)
    BY <2>1 DEF FlagsAt
  <2> QED BY <2>2 DEF FlagsOk, Sound
<1> QED BY <1>1, <1>2, <1>3, FlagsOnlySound

LEMMA SplitLineSound ==
  ASSUME TypeOK, Sound(db, seq), NEW a, NEW l \in LineId, NEW p \in Pos, NEW via1 \in {0, 1},
         NEW via2 \in {0, 1}, NEW toNew \in SUBSET Review(db, l), SplitLine(a, l, p, via1, via2, toNew)
  PROVE  Sound(db', seq')
<1> DEFINE n     == NextNode
           m     == NextLine
           old   == db[Line(l)]
           moved == FollowsEnd(db, l) \cup toNew
           d1    == Cut(l, n, m, p, via1, via2)
           d2    == Measured(d1, {l, m})
           d     == Update(d2, moved, LAMBDA k : [db[k] EXCEPT !.lineid = m])
<1>1. /\ Commit(a, "SPLIT", SplitCaptured(l, n, m), d) /\ db' = d
      /\ seq' = [seq EXCEPT !.node = n, !.line = m]
      /\ n \in NodeId /\ m \in LineId /\ Active(db, Line(l))
  BY DEF SplitLine, Commit, Halves, Cut
<1>2. DbOk(db) /\ seq \in SeqType /\ clock \in Stamp
  BY <1>1, Stamped DEF TypeOK, SeqType
<1>3. /\ db[Node(n)] = NULL /\ n = seq.node + 1 /\ seq.node \in Int
      /\ db[Line(m)] = NULL /\ m = seq.line + 1 /\ seq.line \in Int
  BY <1>1, Fresh DEF Sound, NextLine, NextNode
<1>4. seq'.line = m /\ seq'.node = n
  BY <1>1, <1>2 DEF SeqType
<1> HIDE DEF n, m
<1>5. old \in LineRow /\ l # m
  BY <1>1, <1>2, <1>3, LineRows DEF Active
<1>6. /\ old.n1 \in NodeId \ {n} /\ old.n2 \in NodeId \ {n}
      /\ Active(db, Node(old.n1)) /\ db[Node(old.n1)].pos = old.shape.start
      /\ Active(db, Node(old.n2)) /\ db[Node(old.n2)].pos = old.shape.finish
  BY <1>1, <1>3, <1>5 DEF Sound, Placed, LineRow, Active
<1>7. /\ Node(n) \in Key /\ Line(l) \in Key /\ Line(m) \in Key
      /\ Line(l) # Line(m) /\ Line(l) # Node(n) /\ Line(m) # Node(n)
      /\ Pipe(m) \notin {Line(l), Line(m), Node(n)}
  BY <1>1, <1>5, Keys DEF Line, Node, Pipe
<1>8. /\ d1[Node(n)] = [pos |-> p, removed |-> FALSE, stamp |-> clock]
      /\ d1[Line(m)] = [old EXCEPT !.n1 = n, !.stamp = clock,
                          !.shape = [start |-> p, via |-> via2, finish |-> @.finish]]
      /\ d1[Line(l)] = [old EXCEPT !.n2 = n, !.stamp = clock,
                          !.shape = [start |-> @.start, via |-> via1, finish |-> p]]
  BY <1>7 DEF Cut, Update
<1>9. \A k \in Key \ {Node(n), Line(m), Line(l), Pipe(m)} : d1[k] = db[k]
  BY DEF Cut, Update
<1> HIDE DEF d1, old
<1>10. /\ d1[Node(n)].pos = p /\ Active(d1, Node(n))
       /\ d1[Line(m)] # NULL /\ d1[Line(m)].n1 = n /\ d1[Line(m)].n2 = old.n2 /\ ~d1[Line(m)].removed
       /\ d1[Line(m)].shape.start = p /\ d1[Line(m)].shape.finish = old.shape.finish
       /\ d1[Line(l)] # NULL /\ d1[Line(l)].n1 = old.n1 /\ d1[Line(l)].n2 = n /\ ~d1[Line(l)].removed
       /\ d1[Line(l)].shape.start = old.shape.start /\ d1[Line(l)].shape.finish = p
  <2>1. [pos |-> p, removed |-> FALSE, stamp |-> clock] \in NodeRow
    BY <1>2 DEF NodeRow
  <2>2. d1[Line(m)] \in LineRow /\ d1[Line(l)] \in LineRow
    <3>1. /\ [start |-> p, via |-> via2, finish |-> old.shape.finish] \in Shape
          /\ [start |-> old.shape.start, via |-> via1, finish |-> p] \in Shape
      BY <1>5 DEF LineRow, Shape
    <3> QED BY <1>1, <1>2, <1>5, <1>8, <3>1 DEF LineRow
  <2>3. d1[Node(n)] # NULL /\ d1[Line(m)] # NULL /\ d1[Line(l)] # NULL
    BY <1>8, <2>1, <2>2, NullAssumption
  <2>4. ~old.removed
    BY <1>1 DEF Active, old
  <2> QED BY <1>5, <1>8, <2>3, <2>4 DEF Active, LineRow
<1>11. /\ \A i \in LineId \ {l, m} : d1[Line(i)] = db[Line(i)]
       /\ \A i \in NodeId \ {n} : d1[Node(i)] = db[Node(i)]
       /\ \A k \in EquipKeys \cup TypeKeys \cup FlagKeys : d1[k] = db[k]
  <2>1. \A i \in LineId \ {l, m} : Line(i) \in Key /\ Line(i) \notin {Node(n), Line(m), Line(l), Pipe(m)}
    BY Keys DEF Line, Node, Pipe
  <2>2. \A i \in NodeId \ {n} : Node(i) \in Key /\ Node(i) \notin {Node(n), Line(m), Line(l), Pipe(m)}
    BY Keys DEF Line, Node, Pipe
  <2>3. {Node(n), Line(m), Line(l), Pipe(m)} \subseteq NodeKeys \cup LineKeys \cup PipeKeys
    BY <1>1, KeyTables
  <2> QED BY <1>9, <2>1, <2>2, <2>3, TablesDisjoint DEF Key
<1>12. /\ \A i \in LineId : d2[Line(i)] = d1[Line(i)]
       /\ \A i \in NodeId : d2[Node(i)] = d1[Node(i)]
       /\ \A k \in EquipKeys \cup TypeKeys \cup FlagKeys : d2[k] = d1[k]
  BY <1>1, MeasuredRest
<1> HIDE DEF d2
<1>13. moved \subseteq EquipKeys /\ \A k \in moved : db[k] # NULL /\ db[k].lineid = l /\ db[k] \in EquipRow
  <2>1. moved \subseteq OnLine(db, l)
    BY DEF FollowsEnd, Review
  <2> HIDE DEF moved
  <2> QED BY <1>2, <2>1, RowsOfTables DEF OnLine
<1>14. \A k \in EquipKeys : d[k] # NULL /\ k[1] = "pressregulators" =>
          (k \in moved <=> db[k].lineid = l /\ db[k].nodeid = old.n2)
  <2>1. \A k \in EquipKeys : k \notin moved => d[k] = d2[k]
    BY DEF Update, Key
  <2>2. toNew \subseteq {k \in EquipKeys : k[1] = "dampers"}
    BY DEF Review, OnLine
  <2>3. \A k \in FollowsEnd(db, l) : db[k].lineid = l /\ db[k].nodeid = old.n2
    BY DEF FollowsEnd, OnLine, old
  <2>4. \A k \in EquipKeys : db[k] # NULL /\ k[1] = "pressregulators" /\ db[k].lineid = l /\ db[k].nodeid = old.n2
          => k \in FollowsEnd(db, l)
    BY DEF FollowsEnd, OnLine, old
  <2>5. \A k \in EquipKeys : k[1] = "pressregulators" /\ k \in moved => k \in FollowsEnd(db, l)
    BY <2>2
  <2>6. \A k \in FollowsEnd(db, l) : k \in moved
    OBVIOUS
  <2> HIDE DEF d, moved
  <2> QED BY <1>11, <1>12, <2>1, <2>3, <2>4, <2>5, <2>6
<1>15. /\ \A k \in moved : d[k] = [db[k] EXCEPT !.lineid = m]
       /\ \A k \in Key \ moved : d[k] = d2[k]
  BY <1>13 DEF Update, Key
<1> HIDE DEF moved, d
<1>16. /\ \A i \in LineId : d[Line(i)] = d1[Line(i)]
       /\ \A i \in NodeId : d[Node(i)] = d1[Node(i)]
       /\ \A k \in TypeKeys \cup FlagKeys : d[k] = db[k]
       /\ \A k \in EquipKeys \ moved : d[k] = db[k]
  <2>1. \A k \in Key \ EquipKeys : d[k] = d2[k]
    BY <1>13, <1>15
  <2>2. /\ \A i \in LineId : d[Line(i)] = d2[Line(i)]
        /\ \A i \in NodeId : d[Node(i)] = d2[Node(i)]
        /\ \A k \in TypeKeys \cup FlagKeys : d[k] = d2[k]
    BY <2>1, KeyTables, TablesDisjoint DEF Key
  <2>3. \A k \in EquipKeys \ moved : d[k] = d2[k]
    BY <1>15 DEF Key
  <2> QED BY <1>11, <1>12, <2>2, <2>3
<1>17. ASSUME NEW i \in LineId PROVE Placed(d, i)
  <2>1. CASE i = l
    BY <1>1, <1>6, <1>10, <1>11, <1>16, <2>1 DEF Placed, Active
  <2>2. CASE i = m
    BY <1>1, <1>6, <1>10, <1>11, <1>16, <2>2 DEF Placed, Active
  <2>3. CASE i \notin {l, m}
    <3>1. Placed(db, i) /\ d[Line(i)] = db[Line(i)]
      BY <1>11, <1>16, <2>3 DEF Sound
    <3>2. Active(db, Line(i)) => db[Line(i)].n1 \in NodeId \ {n} /\ db[Line(i)].n2 \in NodeId \ {n}
      BY <1>2, <1>3, <3>1, LineRows DEF LineRow, Active, Placed
    <3> QED BY <1>11, <1>16, <3>1, <3>2 DEF Placed, Active
  <2> QED BY <2>1, <2>2, <2>3
<1>18. RegulatorsOk(d)
  <2> SUFFICES ASSUME NEW k \in EquipKeys, d[k] # NULL
               PROVE  /\ d[Line(d[k].lineid)] # NULL
                      /\ k[1] = "pressregulators" /\ d[k].nodeid # NULL /\ Active(d, Line(d[k].lineid))
                           => d[k].nodeid \in Ends(d, d[k].lineid)
    BY DEF RegulatorsOk
  <2>1. CASE k \in moved
    <3>1. d[k].lineid = m /\ d[k].nodeid = db[k].nodeid
      BY <1>13, <1>15, <2>1 DEF EquipRow
    <3>2. k[1] = "pressregulators" => db[k].nodeid = old.n2
      BY <1>14, <2>1
    <3> QED BY <1>1, <1>10, <1>16, <3>1, <3>2 DEF Ends
  <2>2. CASE k \notin moved
    <3>1. d[k] = db[k] /\ db[k] # NULL
      BY <1>16, <2>2
    <3>2. /\ db[Line(db[k].lineid)] # NULL
          /\ k[1] = "pressregulators" /\ db[k].nodeid # NULL /\ Active(db, Line(db[k].lineid))
               => db[k].nodeid \in Ends(db, db[k].lineid)
      BY <3>1 DEF Sound, RegulatorsOk
    <3>3. db[k].lineid \in LineId /\ db[k].lineid # m
      BY <1>2, <1>3, <3>1, <3>2, RowsOfTables DEF EquipRow
    <3>4. CASE db[k].lineid = l
      <4>1. k[1] = "pressregulators" => db[k].nodeid # old.n2
        BY <1>14, <2>2, <3>1, <3>4
      <4>2. k[1] = "pressregulators" /\ db[k].nodeid # NULL => db[k].nodeid = old.n1
        BY <1>1, <3>2, <3>4, <4>1 DEF Ends, old
      <4> QED BY <1>10, <1>16, <3>1, <3>4, <4>2 DEF Ends
    <3>5. CASE db[k].lineid # l
      BY <1>11, <1>16, <3>1, <3>2, <3>3, <3>5 DEF Ends, Active
    <3> QED BY <3>4, <3>5
  <2> QED BY <2>1, <2>2
<1>19. FlagsOk(d)
  <2>1. \A i \in NodeId : db[Node(i)] # NULL => d[Node(i)] # NULL
    BY <1>10, <1>11, <1>16 DEF Active
  <2> QED BY <1>2, <1>16, <2>1, PartsSame DEF Sound
<1>20. Numbered(d, seq')
  <2>1. \A i \in NodeId : d[Node(i)] # NULL => i <= n
    BY <1>3, <1>11, <1>16 DEF Sound, Numbered, NodeId
  <2>2. \A i \in LineId : d[Line(i)] # NULL => i <= m
    BY <1>3, <1>5, <1>1, <1>11, <1>16 DEF Sound, Numbered, LineId, Active
  <2> QED BY <1>4, <2>1, <2>2 DEF Numbered
<1> QED BY <1>1, <1>17, <1>18, <1>19, <1>20 DEF Sound

\* The lines L are attached to t instead of s, and nothing else changes.
AttachedTo(d, L, t, s, e) ==
  /\ \A l \in L :
       /\ e[Line(l)] # NULL /\ e[Line(l)].removed = d[Line(l)].removed
       /\ e[Line(l)].n1 = IF d[Line(l)].n1 = s THEN t ELSE d[Line(l)].n1
       /\ e[Line(l)].n2 = IF d[Line(l)].n2 = s THEN t ELSE d[Line(l)].n2
       /\ e[Line(l)].shape = d[Line(l)].shape
  /\ \A l \in LineId \ L : e[Line(l)] = d[Line(l)]
  /\ \A m \in NodeId : e[Node(m)] = d[Node(m)]
  /\ \A k \in EquipKeys \cup TypeKeys \cup FlagKeys : e[k] = d[k]

LEMMA RelinkedRest ==
  ASSUME NEW d, DbOk(d), NEW L \in SUBSET LineId, \A l \in L : d[Line(l)] # NULL,
         NEW t \in NodeId, NEW s \in NodeId
  PROVE  AttachedTo(d, L, t, s, Relinked(d, L, t, s))
<1> DEFINE e == Relinked(d, L, t, s)
<1>1. SameOutside(LineKeysOf(L), d, e) /\ Kept(d, e)
  BY Frames, RelinkedType
<1>2. ASSUME NEW l \in L
      PROVE  /\ e[Line(l)] # NULL /\ e[Line(l)].removed = d[Line(l)].removed
             /\ e[Line(l)].n1 = IF d[Line(l)].n1 = s THEN t ELSE d[Line(l)].n1
             /\ e[Line(l)].n2 = IF d[Line(l)].n2 = s THEN t ELSE d[Line(l)].n2
             /\ e[Line(l)].shape = d[Line(l)].shape
  <2> DEFINE r == d[Line(l)]
  <2>1. r \in LineRow /\ Line(l) \in Key /\ Line(l) \in LineKeysOf(L)
    BY LineRows, Keys DEF LineKeysOf
  <2>2. e[Line(l)] = [r EXCEPT !.n1 = IF @ = s THEN t ELSE @, !.n2 = IF @ = s THEN t ELSE @]
    BY <2>1 DEF Relinked, Update
  <2>3. e[Line(l)] # NULL
    BY <1>1, <2>1 DEF Kept
  <2> HIDE DEF e, r
  <2>4. /\ e[Line(l)].removed = r.removed /\ e[Line(l)].shape = r.shape
        /\ e[Line(l)].n1 = IF r.n1 = s THEN t ELSE r.n1
        /\ e[Line(l)].n2 = IF r.n2 = s THEN t ELSE r.n2
    BY <2>1, <2>2 DEF LineRow
  <2> QED BY <2>3, <2>4 DEF r
<1> HIDE DEF e
<1>3. \A l \in LineId \ L : e[Line(l)] = d[Line(l)]
  BY <1>1, Keys DEF SameOutside, LineKeysOf, Line
<1>4. LineKeysOf(L) \subseteq LineKeys
  BY DEF LineKeysOf, LineKeys
<1>5. /\ \A m \in NodeId : e[Node(m)] = d[Node(m)]
      /\ \A k \in EquipKeys \cup TypeKeys \cup FlagKeys : e[k] = d[k]
  BY <1>1, <1>4, KeyTables, TablesDisjoint DEF SameOutside, Key
<1> QED BY <1>2, <1>3, <1>5 DEF e, AttachedTo

\* The lines of s, brought to t.
LEMMA GatheredRest ==
  ASSUME TypeOK, clock \in Stamp, NEW t \in NodeId, NEW s \in NodeId, t # s, db[Node(t)] # NULL
  PROVE  LET gone  == Connecting(db, t, s)
             lines == ActiveIncident(db, s) \ gone
             e     == Gathered(t, s)
         IN
         /\ \A l \in gone : ~Active(e, Line(l))
         /\ \A l \in lines :
              /\ e[Line(l)] # NULL /\ e[Line(l)].removed = db[Line(l)].removed
              /\ e[Line(l)].n1 = IF db[Line(l)].n1 = s THEN t ELSE db[Line(l)].n1
              /\ e[Line(l)].n2 = IF db[Line(l)].n2 = s THEN t ELSE db[Line(l)].n2
              /\ e[Line(l)].shape.start = IF e[Line(l)].n1 = t THEN db[Node(t)].pos ELSE db[Line(l)].shape.start
              /\ e[Line(l)].shape.finish = IF e[Line(l)].n2 = t THEN db[Node(t)].pos ELSE db[Line(l)].shape.finish
         /\ \A l \in LineId \ (gone \cup lines) : e[Line(l)] = db[Line(l)]
         /\ \A m \in NodeId : e[Node(m)] = db[Node(m)]
         /\ \A k \in EquipKeys \cup TypeKeys \cup FlagKeys : e[k] = db[k]
<1> DEFINE gone  == Connecting(db, t, s)
           lines == ActiveIncident(db, s) \ gone
           d0    == RemoveLines(db, gone, clock)
           d1    == Relinked(d0, lines, t, s)
           e     == SnapEnds(d1, lines, t, clock)
<1>1. /\ gone \in SUBSET LineId /\ \A l \in gone : db[Line(l)] # NULL
      /\ lines \in SUBSET LineId /\ \A l \in lines : db[Line(l)] # NULL
      /\ gone \cap lines = {}
  BY DEF Connecting, ActiveIncident, Incident
<1>2. Gathered(t, s) = e
  BY DEF Gathered
<1> HIDE DEF gone, lines
<1>3. DbOk(db)
  BY DEF TypeOK
<1>4. /\ \A l \in gone : ~Active(d0, Line(l))
      /\ \A l \in LineId \ gone : d0[Line(l)] = db[Line(l)]
      /\ \A m \in NodeId : d0[Node(m)] = db[Node(m)]
      /\ \A k \in EquipKeys \cup TypeKeys \cup FlagKeys : d0[k] = db[k]
      /\ DbOk(d0)
  BY <1>1, <1>3, RemovedRest, RemoveLinesType
<1> HIDE DEF d0
<1>5. \A l \in lines : d0[Line(l)] = db[Line(l)] /\ d0[Line(l)] # NULL
  BY <1>1, <1>4
<1>6. AttachedTo(d0, lines, t, s, d1) /\ DbOk(d1)
  BY <1>1, <1>4, <1>5, RelinkedRest, RelinkedType
<1> HIDE DEF d1
<1>7. /\ d1[Node(t)] # NULL /\ d1[Node(t)] = db[Node(t)]
      /\ \A l \in lines : d1[Line(l)] # NULL
  BY <1>4, <1>6 DEF AttachedTo
<1>8. SnappedTo(d1, lines, t, e)
  BY <1>1, <1>6, <1>7, SnappedRest
<1> HIDE DEF e
<1>10. \A l \in gone : ~Active(e, Line(l))
  <2>1. \A l \in gone : e[Line(l)] = d0[Line(l)]
    BY <1>1, <1>6, <1>8 DEF AttachedTo, SnappedTo
  <2> QED BY <1>4, <2>1 DEF Active
<1>11. \A l \in lines :
         /\ e[Line(l)] # NULL /\ e[Line(l)].removed = db[Line(l)].removed
         /\ e[Line(l)].n1 = IF db[Line(l)].n1 = s THEN t ELSE db[Line(l)].n1
         /\ e[Line(l)].n2 = IF db[Line(l)].n2 = s THEN t ELSE db[Line(l)].n2
         /\ e[Line(l)].shape.start = IF e[Line(l)].n1 = t THEN db[Node(t)].pos ELSE db[Line(l)].shape.start
         /\ e[Line(l)].shape.finish = IF e[Line(l)].n2 = t THEN db[Node(t)].pos ELSE db[Line(l)].shape.finish
  <2> SUFFICES ASSUME NEW l \in lines
               PROVE  /\ e[Line(l)] # NULL /\ e[Line(l)].removed = db[Line(l)].removed
                      /\ e[Line(l)].n1 = IF db[Line(l)].n1 = s THEN t ELSE db[Line(l)].n1
                      /\ e[Line(l)].n2 = IF db[Line(l)].n2 = s THEN t ELSE db[Line(l)].n2
                      /\ e[Line(l)].shape.start = IF e[Line(l)].n1 = t THEN db[Node(t)].pos ELSE db[Line(l)].shape.start
                      /\ e[Line(l)].shape.finish = IF e[Line(l)].n2 = t THEN db[Node(t)].pos ELSE db[Line(l)].shape.finish
    OBVIOUS
  <2>1. d0[Line(l)] = db[Line(l)]
    BY <1>5
  <2>2. /\ d1[Line(l)].removed = db[Line(l)].removed /\ d1[Line(l)].shape = db[Line(l)].shape
        /\ d1[Line(l)].n1 = IF db[Line(l)].n1 = s THEN t ELSE db[Line(l)].n1
        /\ d1[Line(l)].n2 = IF db[Line(l)].n2 = s THEN t ELSE db[Line(l)].n2
    BY <1>6, <2>1 DEF AttachedTo
  <2> QED BY <1>7, <1>8, <2>2 DEF SnappedTo
<1>12. /\ \A l \in LineId \ (gone \cup lines) : e[Line(l)] = db[Line(l)]
       /\ \A m \in NodeId : e[Node(m)] = db[Node(m)]
       /\ \A k \in EquipKeys \cup TypeKeys \cup FlagKeys : e[k] = db[k]
  BY <1>4, <1>6, <1>8 DEF AttachedTo, SnappedTo
<1> QED BY <1>2, <1>10, <1>11, <1>12 DEF gone, lines

LEMMA MergeNodesSound ==
  ASSUME TypeOK, Sound(db, seq), NEW a, NEW t \in NodeId, NEW s \in NodeId, MergeNodes(a, t, s)
  PROVE  Sound(db', seq')
<1> DEFINE gone  == Connecting(db, t, s)
           lines == ActiveIncident(db, s) \ gone
           refs  == NodeRefs(db, s)
           d1    == Gathered(t, s)
           d2    == Measured(d1, lines)
           d3    == Update(d2, refs, LAMBDA k : [d2[k] EXCEPT !.nodeid = t])
           d4    == Update(d3, {Node(t)}, LAMBDA k : [d3[k] EXCEPT !.stamp = clock])
           d     == RemoveNode(d4, s, clock)
           rows  == {Node(t), Node(s)} \cup LinesWithPipes(ActiveIncident(db, s)) \cup refs
<1>1. /\ Commit(a, "MERGE", rows, d) /\ db' = d /\ seq' = seq /\ "MERGE" \in Ops
      /\ t # s /\ Active(db, Node(t)) /\ Active(db, Node(s)) /\ ~MergeConflict(db, t, s)
  BY DEF MergeNodes, NodesMerged, Gathered, Commit
<1>2. clock \in Stamp /\ DbOk(db)
  BY <1>1, Stamped
<1>3. /\ gone \in SUBSET LineId /\ \A l \in gone : db[Line(l)] # NULL
      /\ lines \in SUBSET LineId /\ \A l \in lines : db[Line(l)] # NULL /\ s \in Ends(db, l)
      /\ \A l \in LineId \ (gone \cup lines) : Active(db, Line(l)) => s \notin Ends(db, l)
  BY DEF Connecting, ActiveIncident, Incident, Active
<1>4. refs \in SUBSET (EquipKeys \cup TypeKeys \cup FlagKeys) /\ \A k \in refs : k \in Key /\ db[k] # NULL
  BY DEF NodeRefs, Key
<1>5. \A k \in EquipKeys \cup TypeKeys \cup FlagKeys : db[k] # NULL => (k \in refs <=> db[k].nodeid = s)
  BY DEF NodeRefs
<1>6. /\ \A l \in gone : ~Active(d1, Line(l))
      /\ \A l \in lines :
           /\ d1[Line(l)] # NULL /\ d1[Line(l)].removed = db[Line(l)].removed
           /\ d1[Line(l)].n1 = IF db[Line(l)].n1 = s THEN t ELSE db[Line(l)].n1
           /\ d1[Line(l)].n2 = IF db[Line(l)].n2 = s THEN t ELSE db[Line(l)].n2
           /\ d1[Line(l)].shape.start = IF d1[Line(l)].n1 = t THEN db[Node(t)].pos ELSE db[Line(l)].shape.start
           /\ d1[Line(l)].shape.finish = IF d1[Line(l)].n2 = t THEN db[Node(t)].pos ELSE db[Line(l)].shape.finish
      /\ \A l \in LineId \ (gone \cup lines) : d1[Line(l)] = db[Line(l)]
      /\ \A m \in NodeId : d1[Node(m)] = db[Node(m)]
      /\ \A k \in EquipKeys \cup TypeKeys \cup FlagKeys : d1[k] = db[k]
  BY <1>1, <1>2, GatheredRest DEF Active
<1>7. DbOk(d1) /\ Kept(db, d1)
  BY <1>1, <1>2, GatheredRows DEF Active
<1> HIDE DEF gone, lines, refs, rows, d1
<1>8. DbOk(d2) /\ Kept(d1, d2)
  <2>1. \A l \in lines : d1[Line(l)] # NULL
    BY <1>6
  <2> QED BY <1>3, <1>7, <2>1, MeasuredType
<1>9. /\ \A l \in LineId : d2[Line(l)] = d1[Line(l)]
      /\ \A m \in NodeId : d2[Node(m)] = db[Node(m)]
      /\ \A k \in EquipKeys \cup TypeKeys \cup FlagKeys : d2[k] = db[k]
  <2>1. /\ \A l \in LineId : d2[Line(l)] = d1[Line(l)]
        /\ \A m \in NodeId : d2[Node(m)] = d1[Node(m)]
        /\ \A k \in EquipKeys \cup TypeKeys \cup FlagKeys : d2[k] = d1[k]
    BY <1>3, MeasuredRest
  <2> HIDE DEF d2
  <2> QED BY <1>6, <2>1
<1> HIDE DEF d2
<1>10. /\ DOMAIN d3 = Key /\ \A k \in Key \ refs : d3[k] = d2[k]
       /\ \A k \in refs : d3[k] = [d2[k] EXCEPT !.nodeid = t]
  BY <1>4 DEF Update
<1>11. d4[Node(t)] = [d3[Node(t)] EXCEPT !.stamp = clock] /\ SameOutside({Node(t)}, d3, d4) /\ DOMAIN d4 = Key
  BY Keys DEF Update, SameOutside
<1> HIDE DEF d3, d4
<1>12. DbOk(d3) /\ Kept(d2, d3)
  <2>1. \A k \in refs : d2[k] # NULL
    BY <1>4, <1>9
  <2>2. \E i \in NodeId : \A k \in refs : d3[k] = [d2[k] EXCEPT !.nodeid = i]
    BY <1>10
  <2> QED BY <1>4, <1>8, <1>10, <2>1, <2>2, RefsMoved
<1>13. /\ \A l \in LineId : d3[Line(l)] = d1[Line(l)]
       /\ \A m \in NodeId : d3[Node(m)] = db[Node(m)]
  BY <1>4, <1>9, <1>10, KeyTables, TablesDisjoint, Keys
<1>14. \A k \in EquipKeys \cup TypeKeys \cup FlagKeys :
         d3[k] = IF k \in refs THEN [db[k] EXCEPT !.nodeid = t] ELSE db[k]
  BY <1>9, <1>10 DEF Key
<1>15. d3[Node(t)] # NULL /\ d3[Node(t)] \in NodeRow
  BY <1>1, <1>12, <1>13, NodeRows DEF Active
<1>16. d4[Node(t)] \in NodeRow /\ d4[Node(t)].pos = d3[Node(t)].pos /\ d4[Node(t)].removed = d3[Node(t)].removed
  BY <1>2, <1>11, <1>15 DEF NodeRow
<1>17. DbOk(d4) /\ Kept(d3, d4)
  <2>1. {Node(t)} \in SUBSET Key /\ \A k \in {Node(t)} : k \in NodeKeys /\ d3[k] # NULL /\ d4[k] \in NodeRow
    BY <1>15, <1>16, KeyTables, Keys
  <2> QED BY <1>11, <1>12, <2>1, TableReplaced DEF SameOutside
<1>18. /\ \A l \in LineId : d4[Line(l)] = d3[Line(l)]
       /\ \A m \in NodeId \ {t} : d4[Node(m)] = d3[Node(m)]
       /\ \A k \in EquipKeys \cup TypeKeys \cup FlagKeys : d4[k] = d3[k]
  BY <1>11, KeyTables, TablesDisjoint DEF SameOutside, Key, Node
<1>19. d4[Node(s)] # NULL
  BY <1>1, <1>13, <1>18 DEF Active
<1>20. /\ \A l \in LineId : d[Line(l)] = d4[Line(l)]
       /\ \A m \in NodeId \ {s} : d[Node(m)] = d4[Node(m)]
       /\ \A k \in EquipKeys \cup TypeKeys \cup FlagKeys : d[k] = d4[k]
       /\ DbOk(d) /\ Kept(d4, d)
  BY <1>2, <1>17, <1>19, NodeRest, RemoveNodeType
<1> HIDE DEF d
<1>21. Kept(db, d)
  BY <1>7, <1>8, <1>12, <1>17, <1>20, KeptTwice
<1>22. /\ \A l \in LineId : d[Line(l)] = d1[Line(l)]
       /\ \A m \in NodeId \ {s, t} : d[Node(m)] = db[Node(m)]
       /\ Active(d, Node(t)) /\ d[Node(t)].pos = db[Node(t)].pos
       /\ \A k \in EquipKeys \cup TypeKeys \cup FlagKeys :
            d[k] = IF k \in refs THEN [db[k] EXCEPT !.nodeid = t] ELSE db[k]
  <2>1. d[Node(t)] = d4[Node(t)] /\ d3[Node(t)] = db[Node(t)]
    BY <1>1, <1>13, <1>20
  <2>2. Active(d, Node(t)) /\ d[Node(t)].pos = db[Node(t)].pos
    BY <1>1, <1>16, <2>1, NullAssumption DEF Active
  <2> QED BY <1>13, <1>14, <1>18, <1>20, <2>2
<1>23. ASSUME NEW l \in LineId PROVE Placed(d, l)
  <2> SUFFICES ASSUME Active(d, Line(l)) PROVE Placed(d, l)
    BY DEF Placed
  <2>1. Placed(db, l) /\ d[Line(l)] = d1[Line(l)] /\ l \notin gone
    BY <1>6, <1>22 DEF Sound, Active
  <2>2. CASE l \in lines
    <3>1. Active(db, Line(l)) /\ db[Line(l)] \in LineRow
      BY <1>2, <1>3, <1>6, <2>1, <2>2, LineRows DEF Active
    <3>2. db[Line(l)].n1 \in NodeId /\ db[Line(l)].n2 \in NodeId
      BY <3>1 DEF LineRow
    <3>3. /\ Active(db, Node(db[Line(l)].n1)) /\ db[Node(db[Line(l)].n1)].pos = db[Line(l)].shape.start
          /\ Active(db, Node(db[Line(l)].n2)) /\ db[Node(db[Line(l)].n2)].pos = db[Line(l)].shape.finish
      BY <2>1, <3>1 DEF Placed
    <3>4. Active(d, Node(d[Line(l)].n1)) /\ d[Node(d[Line(l)].n1)].pos = d[Line(l)].shape.start
      <4>1. CASE d[Line(l)].n1 = t
        BY <1>6, <1>22, <2>1, <2>2, <4>1
      <4>2. CASE d[Line(l)].n1 # t
        BY <1>6, <1>22, <2>1, <2>2, <3>2, <3>3, <4>2 DEF Active
      <4> QED BY <4>1, <4>2
    <3>5. Active(d, Node(d[Line(l)].n2)) /\ d[Node(d[Line(l)].n2)].pos = d[Line(l)].shape.finish
      <4>1. CASE d[Line(l)].n2 = t
        BY <1>6, <1>22, <2>1, <2>2, <4>1
      <4>2. CASE d[Line(l)].n2 # t
        BY <1>6, <1>22, <2>1, <2>2, <3>2, <3>3, <4>2 DEF Active
      <4> QED BY <4>1, <4>2
    <3> QED BY <3>4, <3>5 DEF Placed
  <2>3. CASE l \notin lines
    <3>1. d[Line(l)] = db[Line(l)] /\ Active(db, Line(l)) /\ db[Line(l)] \in LineRow
      BY <1>2, <1>6, <2>1, <2>3, LineRows DEF Active
    <3>2. /\ db[Line(l)].n1 \in NodeId /\ db[Line(l)].n2 \in NodeId
          /\ db[Line(l)].n1 # s /\ db[Line(l)].n2 # s
      BY <1>3, <2>1, <2>3, <3>1 DEF LineRow, Ends
    <3>3. /\ Active(db, Node(db[Line(l)].n1)) /\ db[Node(db[Line(l)].n1)].pos = db[Line(l)].shape.start
          /\ Active(db, Node(db[Line(l)].n2)) /\ db[Node(db[Line(l)].n2)].pos = db[Line(l)].shape.finish
      BY <2>1, <3>1 DEF Placed
    <3>4. Active(d, Node(d[Line(l)].n1)) /\ d[Node(d[Line(l)].n1)].pos = d[Line(l)].shape.start
      BY <1>22, <3>1, <3>2, <3>3 DEF Active
    <3>5. Active(d, Node(d[Line(l)].n2)) /\ d[Node(d[Line(l)].n2)].pos = d[Line(l)].shape.finish
      BY <1>22, <3>1, <3>2, <3>3 DEF Active
    <3> QED BY <3>4, <3>5 DEF Placed
  <2> QED BY <2>2, <2>3
<1>24. RegulatorsOk(d)
  <2> SUFFICES ASSUME NEW k \in EquipKeys, d[k] # NULL
               PROVE  /\ d[Line(d[k].lineid)] # NULL
                      /\ k[1] = "pressregulators" /\ d[k].nodeid # NULL /\ Active(d, Line(d[k].lineid))
                           => d[k].nodeid \in Ends(d, d[k].lineid)
    BY DEF RegulatorsOk
  <2>1. db[k] # NULL /\ db[k] \in EquipRow
    BY <1>2, <1>4, <1>22, RowsOfTables
  <2>2. /\ db[k].lineid \in LineId /\ d[k].lineid = db[k].lineid
        /\ d[k].nodeid = IF k \in refs THEN t ELSE db[k].nodeid
    BY <1>22, <2>1 DEF EquipRow
  <2> DEFINE l == db[k].lineid
  <2>3. /\ db[Line(l)] # NULL
        /\ k[1] = "pressregulators" /\ db[k].nodeid # NULL /\ Active(db, Line(l)) => db[k].nodeid \in Ends(db, l)
    BY <2>1 DEF Sound, RegulatorsOk
  <2>4. d[Line(l)] # NULL
    BY <1>21, <2>2, <2>3, Keys DEF Kept
  <2>5. ASSUME k[1] = "pressregulators", d[k].nodeid # NULL, Active(d, Line(l)) PROVE d[k].nodeid \in Ends(d, l)
    <3>1. l \notin gone /\ d[Line(l)] = d1[Line(l)] /\ db[k].nodeid # NULL
      BY <1>5, <1>6, <1>22, <2>1, <2>2, <2>5, NullAssumption DEF Active
    <3>2. CASE l \in lines
      <4>1. Active(db, Line(l))
        BY <1>6, <2>3, <2>5, <3>1, <3>2 DEF Active
      <4>2. db[k].nodeid \in Ends(db, l) /\ s \in Ends(db, l)
        BY <1>3, <2>3, <2>5, <3>1, <3>2, <4>1
      <4>3. CASE k \in refs
        BY <1>6, <2>2, <3>1, <3>2, <4>2, <4>3 DEF Ends
      <4>4. CASE k \notin refs
        <5>1. d[k].nodeid = db[k].nodeid /\ db[k].nodeid # s
          BY <1>5, <2>1, <2>2, <4>4
        <5> QED BY <1>6, <3>1, <3>2, <4>2, <5>1 DEF Ends
      <4> QED BY <4>3, <4>4
    <3>3. CASE l \notin lines
      <4>1. d[Line(l)] = db[Line(l)] /\ Active(db, Line(l))
        BY <1>6, <2>2, <2>5, <3>1, <3>3 DEF Active
      <4>2. db[k].nodeid \in Ends(db, l) /\ s \notin Ends(db, l)
        BY <1>3, <2>2, <2>3, <2>5, <3>1, <3>3, <4>1
      <4>3. d[k].nodeid = db[k].nodeid
        BY <1>5, <2>1, <2>2, <4>2
      <4> QED BY <4>1, <4>2, <4>3 DEF Ends
    <3> QED BY <3>2, <3>3
  <2> QED BY <2>2, <2>4, <2>5
<1>25. FlagsOk(d)
  <2>1. \A k \in FlagKeys : db[k] = NULL <=> d[k] = NULL
    BY <1>21 DEF Kept, Key
  <2>2. \A k \in FlagKeys : db[k] # NULL => /\ k \in refs <=> db[k].nodeid = s
                                            /\ d[k].nodeid = IF k \in refs THEN t ELSE db[k].nodeid
    <3>1. \A k \in FlagKeys : db[k] # NULL => db[k] \in CardRow
      BY <1>2, RowsOfTables
    <3> QED BY <1>5, <1>22, <3>1 DEF CardRow
  <2>3. FlagsAt(db, s) = {} \/ FlagsAt(db, t) = {}
    <3>1. FlagTable \in SingletonTable /\ \A k \in FlagKeys : k[1] = FlagTable
      BY DEF SingletonTable, FlagKeys
    <3>2. FlagsAt(db, s) \subseteq NodeRefs(db, s) /\ FlagsAt(db, t) \subseteq NodeRefs(db, t)
      BY DEF FlagsAt, NodeRefs
    <3>3. FlagsAt(db, s) \subseteq FlagKeys /\ FlagsAt(db, t) \subseteq FlagKeys
      BY DEF FlagsAt
    <3> QED BY <1>1, <3>1, <3>2, <3>3 DEF MergeConflict
  <2>4. \A n \in NodeId : \A j, k \in FlagsAt(db, n) : j = k
    BY DEF Sound, FlagsOk
  <2> SUFFICES ASSUME NEW n \in NodeId, NEW j \in FlagsAt(d, n), NEW k \in FlagsAt(d, n) PROVE j = k
    BY DEF FlagsOk
  <2>5. /\ j \in FlagKeys /\ db[j] # NULL /\ d[j].nodeid = n
        /\ k \in FlagKeys /\ db[k] # NULL /\ d[k].nodeid = n
    BY <2>1 DEF FlagsAt
  <2>6. CASE n = t
    <3>1. /\ j \in FlagsAt(db, s) \/ j \in FlagsAt(db, t)
          /\ k \in FlagsAt(db, s) \/ k \in FlagsAt(db, t)
      BY <2>2, <2>5, <2>6 DEF FlagsAt
    <3> QED BY <2>3, <2>4, <3>1
  <2>7. CASE n # t
    <3>1. j \in FlagsAt(db, n) /\ k \in FlagsAt(db, n)
      BY <2>2, <2>5, <2>7 DEF FlagsAt
    <3> QED BY <2>4, <3>1
  <2> QED BY <2>6, <2>7
<1>26. Numbered(d, seq)
  BY <1>21, Keys DEF Kept, Numbered, Sound
<1> QED BY <1>1, <1>23, <1>24, <1>25, <1>26 DEF Sound

LEMMA NodeSound == ASSUME TypeOK, Sound(db, seq), NEW a, EditNode(a) PROVE Sound(db', seq')
<1>1. PICK n \in NodeId :
        \/ \E p \in Pos : MoveNode(a, n, p)
        \/ \E cascade \in BOOLEAN : DeleteNode(a, n, cascade)
        \/ \E s \in NodeId : MergeNodes(a, n, s)
        \/ DissolveNode(a, n)
        \/ \E table \in TypeTable \cup {NULL} : ChangeNodeType(a, n, table)
        \/ SetFlag(a, n)
        \/ ClearFlag(a, n)
  BY Zenon DEF EditNode
<1> QED BY <1>1, MoveNodeSound, DeleteNodeSound, MergeNodesSound, DissolveNodeSound,
           ChangeNodeTypeSound, SetFlagSound, ClearFlagSound

LEMMA LineSound == ASSUME TypeOK, Sound(db, seq), NEW a, EditLine(a) PROVE Sound(db', seq')
BY DeleteLineSound, ReverseLineSound, UpdateGeometrySound, SplitLineSound DEF EditLine

LEMMA CreateSound == ASSUME TypeOK, Sound(db, seq), NEW a, Create(a) PROVE Sound(db', seq')
BY CreateNodeSound, CreateLineSound DEF Create

(***************************************************************************)
(* Undo and redo.  What a user's operations have made of the rows, and can  *)
(* make again, is a line of networks; undo and redo go along it.            *)
(***************************************************************************)
SameRows(d, e) == \A k \in Key : d[k] = e[k]

LEMMA SoundRows ==
  ASSUME NEW d, NEW e, DbOk(e), SameRows(d, e), NEW s, Sound(d, s)
  PROVE  Sound(e, s)
<1>1. /\ \A n \in NodeId : e[Node(n)] = d[Node(n)]
      /\ \A l \in LineId : e[Line(l)] = d[Line(l)]
      /\ \A k \in EquipKeys \cup TypeKeys \cup FlagKeys : e[k] = d[k]
  BY Keys DEF SameRows, Key
<1>2. ASSUME NEW l \in LineId PROVE Placed(e, l)
  <2>1. Placed(d, l)
    BY DEF Sound
  <2>2. Active(e, Line(l)) => e[Line(l)].n1 \in NodeId /\ e[Line(l)].n2 \in NodeId
    BY LineRows DEF Active, LineRow
  <2> QED BY <1>1, <2>1, <2>2 DEF Placed, Active
<1>3. RegulatorsOk(e)
  <2>1. \A k \in EquipKeys : e[k] # NULL => e[k].lineid \in LineId
    BY RowsOfTables DEF EquipRow
  <2> QED BY <1>1, <2>1 DEF Sound, RegulatorsOk, Active, Ends
<1>4. FlagsOk(e)
  <2>1. \A n \in NodeId : FlagsAt(e, n) = FlagsAt(d, n)
    BY <1>1 DEF FlagsAt
  <2> QED BY <2>1 DEF FlagsOk, Sound
<1>5. Numbered(e, s)
  BY <1>1 DEF Numbered, Sound
<1> QED BY <1>2, <1>3, <1>4, <1>5 DEF Sound

\* The sequences only go up.
SeqGrows ==
  /\ seq.node \in Int /\ seq'.node \in Int /\ seq.node <= seq'.node
  /\ seq.line \in Int /\ seq'.line \in Int /\ seq.line <= seq'.line

LEMMA Grows ==
  ASSUME TypeOK, NEW a, EditNode(a) \/ EditLine(a) \/ Create(a) \/ Undo(a) \/ Redo(a)
  PROVE  SeqGrows
<1>1. seq \in [node : Int, line : Int, card : Int]
  BY BoundsAssumption DEF TypeOK
<1>2. ASSUME seq'.node \in {seq.node, seq.node + 1}, seq'.line \in {seq.line, seq.line + 1} PROVE SeqGrows
  BY <1>1, <1>2 DEF SeqGrows
<1>3. ASSUME seq' = seq PROVE SeqGrows
  BY <1>2, <1>3
<1>4. ASSUME NEW c, seq' = [seq EXCEPT !.card = c] PROVE SeqGrows
  BY <1>1, <1>2, <1>4
<1>5. ASSUME NEW c, seq' = [seq EXCEPT !.node = NextNode, !.card = c] PROVE SeqGrows
  BY <1>1, <1>2, <1>5 DEF NextNode
<1>6. ASSUME seq' = [seq EXCEPT !.line = NextLine] PROVE SeqGrows
  BY <1>1, <1>2, <1>6 DEF NextLine
<1>7. ASSUME seq' = [seq EXCEPT !.node = NextNode, !.line = NextLine] PROVE SeqGrows
  BY <1>1, <1>2, <1>7 DEF NextNode, NextLine
<1>8. CASE EditNode(a)
  <2>1. UNCHANGED seq \/ \E c : seq' = [seq EXCEPT !.card = c]
    BY <1>8 DEF EditNode, MoveNode, DeleteNode, MergeNodes, DissolveNode, ChangeNodeType, SetFlag, ClearFlag
  <2> QED BY <1>3, <1>4, <2>1
<1>9. CASE EditLine(a)
  <2>1. UNCHANGED seq \/ seq' = [seq EXCEPT !.node = NextNode, !.line = NextLine]
    BY <1>9 DEF EditLine, DeleteLine, ReverseLine, UpdateGeometry, SplitLine
  <2> QED BY <1>3, <1>7, <2>1
<1>10. CASE Create(a)
  <2>1. \/ \E c : seq' = [seq EXCEPT !.node = NextNode, !.card = c]
        \/ seq' = [seq EXCEPT !.line = NextLine]
    BY <1>10 DEF Create, CreateNode, CreateLine
  <2> QED BY <1>5, <1>6, <2>1
<1>11. CASE Undo(a) \/ Redo(a)
  BY <1>3, <1>11 DEF Undo, Redo
<1> QED BY <1>8, <1>9, <1>10, <1>11

LEMMA SoundLater ==
  ASSUME SeqGrows, NEW d, Sound(d, seq)
  PROVE  Sound(d, seq')
BY DEF SeqGrows, Sound, Numbered, NodeId, LineId

\* The networks before (was) and after (now) each operation i that user a has
\* done or can redo: they are consistent;
ToldSound(a, was, now) ==
  \A i \in DoneOf(a) \cup RedoOf(a) : Sound(was[i], seq) /\ Sound(now[i], seq)

\* they differ by the images of the entry;
ToldRows(a, was, now) ==
  \A i \in DoneOf(a) \cup RedoOf(a), k \in Key :
    IF k \in DOMAIN journal[i].before
    THEN was[i][k] = journal[i].before[k] /\ now[i][k] = journal[i].after[k]
    ELSE was[i][k] = now[i][k]

ToldRedo(a) ==
  \A i \in RedoOf(a) : \A k \in DOMAIN journal[i].before : journal[i].redo[k] = journal[i].after[k]

\* an operation begins where the one before it has ended;
ToldLine(a, was, now) ==
  \A i, j \in DoneOf(a) \cup RedoOf(a) :
    i < j /\ (\A m \in DoneOf(a) \cup RedoOf(a) : m <= i \/ j <= m) => SameRows(was[j], now[i])

\* and the rows are those between the last one done and the next one to redo.
ToldDone(a, now) == \A i \in DoneOf(a) : (\A j \in DoneOf(a) : j <= i) => SameRows(now[i], db)
ToldNext(a, was) == \A i \in RedoOf(a) : (\A j \in RedoOf(a) : i <= j) => SameRows(was[i], db)

Told(a, was, now) ==
  /\ ToldSound(a, was, now) /\ ToldRows(a, was, now) /\ ToldRedo(a)
  /\ ToldLine(a, was, now) /\ ToldDone(a, now) /\ ToldNext(a, was)

LEMMA Ids ==
  ASSUME TypeOK, NEW a
  PROVE  DoneOf(a) \subseteq DOMAIN journal /\ RedoOf(a) \subseteq DOMAIN journal /\ DOMAIN journal \subseteq Nat
BY JournalTypes DEF DoneOf, RedoOf, Mine

\* A new operation ends the line.
LEMMA AddedTold ==
  ASSUME UndoInv, NEW a \in Actor, Added(a), Covered, SeqGrows, Sound(db, seq), Sound(db', seq'),
         NEW was, NEW now, Told(a, was, now)
  PROVE  \E w, v : Told(a, w, v)'
<1> DEFINE n == Len(journal) + 1
<1>1. /\ Len(journal') = n /\ DOMAIN journal' = DOMAIN journal \cup {n} /\ n \notin DOMAIN journal
      /\ \A i \in DOMAIN journal : journal'[i] = journal[i] /\ i < n
      /\ \A k \in DOMAIN journal'[n].before :
           journal'[n].before[k] = db[k] /\ journal'[n].after[k] = db'[k]
  BY AddedRows DEF UndoInv
<1>2. /\ \A j \in DoneOf(a) \cup RedoOf(a) : j < n
      /\ DoneOf(a)' = DoneOf(a) \cup {n} /\ RedoOf(a)' = {}
  BY AddedSets
<1>3. /\ DoneOf(a) \subseteq DOMAIN journal /\ RedoOf(a) \subseteq DOMAIN journal
      /\ DOMAIN journal \subseteq Nat /\ n \in Nat /\ Len(journal) < n
  BY Ids, JournalTypes DEF UndoInv
<1>4. \A k \in Key : k \notin DOMAIN journal'[n].before => db'[k] = db[k]
  BY <1>1, <1>3 DEF Covered
<1> HIDE DEF n
<1>5. PICK w : w = [i \in Nat |-> IF i = n THEN db ELSE was[i]]
  OBVIOUS
<1>6. PICK v : v = [i \in Nat |-> IF i = n THEN db' ELSE now[i]]
  OBVIOUS
<1>7. /\ w[n] = db /\ v[n] = db'
      /\ \A i \in DoneOf(a) : w[i] = was[i] /\ v[i] = now[i] /\ journal'[i] = journal[i]
  BY <1>1, <1>3, <1>5, <1>6
<1>8. ToldSound(a, w, v)'
  <2>1. Sound(db, seq') /\ \A i \in DoneOf(a) : Sound(was[i], seq') /\ Sound(now[i], seq')
    BY SoundLater DEF Told, ToldSound
  <2> QED BY <1>2, <1>7, <2>1 DEF ToldSound
<1>9. ToldRows(a, w, v)'
  BY <1>1, <1>2, <1>4, <1>7 DEF Told, ToldRows
<1>10. ToldLine(a, w, v)'
  <2> SUFFICES ASSUME NEW i \in DoneOf(a) \cup {n}, NEW j \in DoneOf(a) \cup {n}, i < j,
                      \A m \in DoneOf(a) \cup {n} : m <= i \/ j <= m
               PROVE  SameRows(w[j], v[i])
    BY <1>2 DEF ToldLine
  <2>1. i \in DoneOf(a)
    BY <1>2, <1>3
  <2>2. CASE j = n
    <3>1. \A m \in DoneOf(a) : m <= i
      BY <1>2, <1>3, <2>2
    <3>2. SameRows(now[i], db)
      BY <2>1, <3>1 DEF Told, ToldDone
    <3> QED BY <1>7, <2>1, <2>2, <3>2 DEF SameRows
  <2>3. CASE j \in DoneOf(a)
    <3>1. \A m \in RedoOf(a) : j <= m
      BY <1>3, <2>3 DEF UndoInv, StackOk
    <3>2. SameRows(was[j], now[i])
      BY <2>1, <2>3, <3>1 DEF Told, ToldLine
    <3> QED BY <1>7, <2>1, <2>3, <3>2
  <2> QED BY <2>2, <2>3
<1>11. ToldDone(a, v)'
  <2> SUFFICES ASSUME NEW i \in DoneOf(a) \cup {n}, \A j \in DoneOf(a) \cup {n} : j <= i
               PROVE  SameRows(v[i], db')
    BY <1>2 DEF ToldDone, SameRows
  <2>1. n <= i
    OBVIOUS
  <2>2. \A j \in DoneOf(a) : j < n /\ j \in Nat
    BY <1>2, <1>3
  <2>3. i = n
    BY <1>3, <2>1, <2>2
  <2> QED BY <1>7, <2>3 DEF SameRows
<1>12. ToldRedo(a)' /\ ToldNext(a, w)'
  BY <1>2 DEF ToldRedo, ToldNext
<1>13. Told(a, w, v)'
  BY <1>8, <1>9, <1>10, <1>11, <1>12 DEF Told
<1> QED BY <1>13

\* Undo goes one operation back.
LEMMA UndoneTold ==
  ASSUME UndoInv, TypeOK', NEW a \in Actor, Undo(a), NEW was, NEW now, Told(a, was, now)
  PROVE  Told(a, was, now)' /\ Sound(db', seq')
<1>1. PICK i \in Undoable(a) :
        /\ Rewritten(i, clock) /\ ImagesKept(i)
        /\ \A k \in DOMAIN journal[i].before :
             /\ k \in Key /\ db[k] = journal[i].after[k]
             /\ journal'[i].redo[k] = db[k] /\ db'[k] = journal[i].before[k]
        /\ \A k \in Key \ DOMAIN journal[i].before : db'[k] = db[k]
  BY UndoRestores DEF UndoInv
<1>2. /\ i \in DoneOf(a) /\ \A j \in DoneOf(a) : j <= i
      /\ DoneOf(a)' = DoneOf(a) \ {i} /\ RedoOf(a)' = RedoOf(a) \cup {i}
  BY <1>1, UndoneSets
<1>3. /\ DoneOf(a) \subseteq DOMAIN journal /\ RedoOf(a) \subseteq DOMAIN journal /\ DOMAIN journal \subseteq Nat
      /\ \A j \in RedoOf(a), k \in DoneOf(a) : k < j
  BY Ids DEF UndoInv, StackOk
<1>4. /\ \A j \in DOMAIN journal : j # i => journal'[j] = journal[j]
      /\ \A j \in DOMAIN journal : journal'[j].before = journal[j].before /\ journal'[j].after = journal[j].after
      /\ seq' = seq
  BY <1>1 DEF Rewritten, ImagesKept, Undo
<1>5. DoneOf(a)' \cup RedoOf(a)' = DoneOf(a) \cup RedoOf(a)
  BY <1>2
<1>6. SameRows(now[i], db)
  BY <1>2 DEF Told, ToldDone
<1>7. SameRows(was[i], db')
  BY <1>1, <1>2, <1>6 DEF SameRows, Told, ToldRows
<1>8. Sound(db', seq')
  <2>1. Sound(was[i], seq)
    BY <1>2 DEF Told, ToldSound
  <2> QED BY <1>4, <1>7, <2>1, SoundRows DEF TypeOK
<1>9. ToldSound(a, was, now)' /\ ToldRows(a, was, now)' /\ ToldLine(a, was, now)'
  BY <1>3, <1>4, <1>5 DEF Told, ToldSound, ToldRows, ToldLine
<1>10. ToldRedo(a)'
  BY <1>1, <1>2, <1>3, <1>4 DEF Told, ToldRedo
<1>11. ToldDone(a, now)'
  <2> SUFFICES ASSUME NEW j \in DoneOf(a) \ {i}, \A m \in DoneOf(a) \ {i} : m <= j
               PROVE  SameRows(now[j], db')
    BY <1>2 DEF ToldDone, SameRows
  <2>1. j < i /\ \A m \in DoneOf(a) \cup RedoOf(a) : m <= j \/ i <= m
    BY <1>2, <1>3
  <2>2. SameRows(was[i], now[j])
    BY <1>2, <2>1 DEF Told, ToldLine
  <2> QED BY <1>7, <2>2 DEF SameRows
<1>12. ToldNext(a, was)'
  <2> SUFFICES ASSUME NEW j \in RedoOf(a) \cup {i}, \A m \in RedoOf(a) \cup {i} : j <= m
               PROVE  SameRows(was[j], db')
    BY <1>2 DEF ToldNext, SameRows
  <2>1. j = i
    BY <1>2, <1>3
  <2> QED BY <1>7, <2>1
<1> QED BY <1>8, <1>9, <1>10, <1>11, <1>12 DEF Told

\* Redo goes one operation on.
LEMMA RedoneTold ==
  ASSUME UndoInv, TypeOK', NEW a \in Actor, Redo(a), NEW was, NEW now, Told(a, was, now)
  PROVE  Told(a, was, now)' /\ Sound(db', seq')
<1>1. PICK i \in Redoable(a) :
        /\ Rewritten(i, 0) /\ ImagesKept(i)
        /\ \A k \in DOMAIN journal[i].before :
             k \in Key /\ db[k] = journal[i].before[k] /\ db'[k] = journal[i].redo[k]
        /\ \A k \in Key \ DOMAIN journal[i].before : db'[k] = db[k]
  BY RedoRestores DEF UndoInv
<1>2. /\ i \in RedoOf(a) /\ \A j \in RedoOf(a) : i <= j
      /\ DoneOf(a)' = DoneOf(a) \cup {i} /\ RedoOf(a)' = RedoOf(a) \ {i}
  BY <1>1, RedoneSets
<1>3. /\ DoneOf(a) \subseteq DOMAIN journal /\ RedoOf(a) \subseteq DOMAIN journal /\ DOMAIN journal \subseteq Nat
      /\ \A j \in RedoOf(a), k \in DoneOf(a) : k < j
  BY Ids DEF UndoInv, StackOk
<1>4. /\ \A j \in DOMAIN journal : j # i => journal'[j] = journal[j]
      /\ \A j \in DOMAIN journal : journal'[j].before = journal[j].before /\ journal'[j].after = journal[j].after
      /\ seq' = seq
  BY <1>1 DEF Rewritten, ImagesKept, Redo
<1>5. DoneOf(a)' \cup RedoOf(a)' = DoneOf(a) \cup RedoOf(a)
  BY <1>2
<1>6. SameRows(was[i], db)
  BY <1>2 DEF Told, ToldNext
<1>7. SameRows(now[i], db')
  BY <1>1, <1>2, <1>6 DEF SameRows, Told, ToldRows, ToldRedo
<1>8. Sound(db', seq')
  <2>1. Sound(now[i], seq)
    BY <1>2 DEF Told, ToldSound
  <2> QED BY <1>4, <1>7, <2>1, SoundRows DEF TypeOK
<1>9. ToldSound(a, was, now)' /\ ToldRows(a, was, now)' /\ ToldLine(a, was, now)'
  BY <1>3, <1>4, <1>5 DEF Told, ToldSound, ToldRows, ToldLine
<1>10. ToldRedo(a)'
  BY <1>2, <1>3, <1>4 DEF Told, ToldRedo
<1>11. ToldDone(a, now)'
  <2> SUFFICES ASSUME NEW j \in DoneOf(a) \cup {i}, \A m \in DoneOf(a) \cup {i} : m <= j
               PROVE  SameRows(now[j], db')
    BY <1>2 DEF ToldDone, SameRows
  <2>1. j = i
    BY <1>2, <1>3
  <2> QED BY <1>7, <2>1
<1>12. ToldNext(a, was)'
  <2> SUFFICES ASSUME NEW j \in RedoOf(a) \ {i}, \A m \in RedoOf(a) \ {i} : j <= m
               PROVE  SameRows(was[j], db')
    BY <1>2 DEF ToldNext, SameRows
  <2>1. i < j /\ \A m \in DoneOf(a) \cup RedoOf(a) : m <= i \/ j <= m
    BY <1>2, <1>3
  <2>2. SameRows(was[j], now[i])
    BY <1>2, <2>1 DEF Told, ToldLine
  <2> QED BY <1>7, <2>2 DEF SameRows
<1> QED BY <1>8, <1>9, <1>10, <1>11, <1>12 DEF Told

\* The undos and redos of one user are all there are: there is one user, or
\* nothing is undone.
Orderly == (\A a, b \in Actor : a = b) \/ "UNDO" \notin Ops

NetworkInv ==
  /\ Sound(db, seq)
  /\ \/ (\A a, b \in Actor : a = b) /\ \A a \in Actor : \E was, now : Told(a, was, now)
     \/ "UNDO" \notin Ops /\ \A i \in DOMAIN journal : journal[i].undone = 0

LEMMA NetworkInit == ASSUME Orderly, Init PROVE NetworkInv
<1>1. db = InitialDb /\ journal = <<>>
  BY DEF Init
<1>2. Sound(db, seq)
  <2>1. \A l \in LineId : Placed(db, l)
    BY <1>1, InitialDbAssumption, PlacedIs DEF NetworkOk
  <2>2. /\ \A n \in NodeId : Node(n) \in NodeKeys /\ Node(n)[2] = n
        /\ \A l \in LineId : Line(l) \in LineKeys /\ Line(l)[2] = l
    BY KeyTables DEF Node, Line
  <2>3. Numbered(db, seq)
    BY <1>1, <2>2 DEF Init, LastId, Numbered
  <2> QED BY <1>1, <2>1, <2>3, InitialDbAssumption DEF NetworkOk, Sound
<1>3. \A a \in Actor : DoneOf(a) = {} /\ RedoOf(a) = {}
  BY <1>1 DEF DoneOf, RedoOf, Mine
<1>4. ASSUME NEW a \in Actor PROVE \A was, now : Told(a, was, now)
  BY <1>3 DEF Told, ToldSound, ToldRows, ToldRedo, ToldLine, ToldDone, ToldNext
<1> QED BY <1>1, <1>2, <1>4 DEF NetworkInv, Orderly

LEMMA NetworkStep ==
  ASSUME UndoInv, TypeOK', NetworkInv, Next
  PROVE  NetworkInv'
<1>1. PICK a \in Actor : EditNode(a) \/ EditLine(a) \/ Create(a) \/ Undo(a) \/ Redo(a)
  BY DEF Next
<1>2. TypeOK /\ Sound(db, seq) /\ SeqGrows
  BY <1>1, Grows DEF UndoInv, NetworkInv
<1>3. CASE EditNode(a) \/ EditLine(a) \/ Create(a)
  <2>1. Sound(db', seq')
    BY <1>2, <1>3, NodeSound, LineSound, CreateSound
  <2>2. Added(a) /\ Covered
    BY <1>2, <1>3, NodeAdds, LineAdds, CreateAdds, OperationCovers
  <2>3. CASE (\A b, c \in Actor : b = c) /\ \A b \in Actor : \E was, now : Told(b, was, now)
    <3>1. PICK was, now : Told(a, was, now)
      BY <2>3
    <3>2. \E w, v : Told(a, w, v)'
      BY <1>2, <2>1, <2>2, <3>1, AddedTold
    <3>3. \A b \in Actor : b = a
      BY <2>3
    <3> QED BY <2>1, <2>3, <3>2, <3>3 DEF NetworkInv
  <2>4. CASE "UNDO" \notin Ops /\ \A i \in DOMAIN journal : journal[i].undone = 0
    <3>1. \A i \in DOMAIN journal' : journal'[i].undone = 0
      BY <1>2, <2>2, <2>4, AddedRows
    <3> QED BY <2>1, <2>4, <3>1 DEF NetworkInv
  <2> QED BY <2>3, <2>4 DEF NetworkInv
<1>4. CASE Undo(a) \/ Redo(a)
  <2>1. "UNDO" \in Ops \/ \E i \in DOMAIN journal : journal[i].undone # 0
    BY <1>4 DEF Undo, Redo, Redoable, Reopened, Mine
  <2>2. /\ \A b, c \in Actor : b = c
        /\ \A b \in Actor : \E was, now : Told(b, was, now)
    BY <2>1 DEF NetworkInv
  <2>3. PICK was, now : Told(a, was, now)
    BY <2>2
  <2>4. Told(a, was, now)' /\ Sound(db', seq')
    BY <1>4, <2>3, UndoneTold, RedoneTold
  <2>5. \A b \in Actor : b = a
    BY <2>2
  <2> QED BY <2>2, <2>4, <2>5 DEF NetworkInv
<1> QED BY <1>1, <1>3, <1>4

LEMMA NetworkStutter ==
  ASSUME NetworkInv, UNCHANGED vars
  PROVE  NetworkInv'
<1>1. UNCHANGED <<db, journal, seq>>
  BY DEF vars
<1>2. \A a : DoneOf(a)' = DoneOf(a) /\ RedoOf(a)' = RedoOf(a)
  BY <1>1 DEF DoneOf, RedoOf, Mine
<1>3. ASSUME NEW a, NEW was, NEW now, Told(a, was, now) PROVE Told(a, was, now)'
  BY <1>1, <1>2, <1>3 DEF Told, ToldSound, ToldRows, ToldRedo, ToldLine, ToldDone, ToldNext
<1> QED BY <1>1, <1>3 DEF NetworkInv

LEMMA NetworkAlways == ASSUME ImagesAreThere, Orderly PROVE Spec => []NetworkInv
<1>1. Init => NetworkInv /\ TimesOk /\ StackOk
  BY NetworkInit, UndoInit
<1>2. TypeOK /\ TypeOK' /\ TimesOk /\ StackOk /\ NetworkInv /\ [Next]_vars => NetworkInv' /\ TimesOk' /\ StackOk'
  BY NetworkStep, NetworkStutter, StepOnStack, StutterOnStack DEF UndoInv
<1> QED BY <1>1, <1>2, TypeCorrect, PTL DEF Spec

\* No active line is left at a node that is removed, or not there any more.
THEOREM LinesHaveNodes == ASSUME ImagesAreThere, Orderly PROVE Spec => []EndsActive
<1>1. NetworkInv => EndsActive
  BY PlacedIs DEF NetworkInv, Sound, EndsActive
<1> QED BY <1>1, NetworkAlways, PTL

\* An active line ends at the points of its nodes (LinesFollowNodes): a move, a
\* merge or a split takes the ends of the lines along, and an undo puts back the
\* node and all lines that went with it, though their images are rows of an
\* older network.
THEOREM LinesEndAtNodes == ASSUME ImagesAreThere, Orderly PROVE Spec => []LinesFollowNodes
<1>1. NetworkInv => LinesFollowNodes
  BY PlacedIs DEF NetworkInv, Sound, LinesFollowNodes
<1> QED BY <1>1, NetworkAlways, PTL

\* A regulator on an active line stands at one of its ends (RegulatorsAtEnds),
\* through splits that share the equipment out, merges that carry it over and the
\* undos that take back the lines it was moved to.
THEOREM RegulatorsStay == ASSUME ImagesAreThere, Orderly PROVE Spec => []RegulatorsAtEnds
<1>1. NetworkInv => RegulatorsAtEnds
  BY DEF NetworkInv, Sound, RegulatorsAtEnds
<1> QED BY <1>1, NetworkAlways, PTL

\* A node has each flag once (OneFlagPerNode): neither a redo of a set_node_flag
\* nor an undo of its removal brings in a second one.
THEOREM FlagsAreSingle == ASSUME ImagesAreThere, Orderly PROVE Spec => []OneFlagPerNode
<1>1. NetworkInv => OneFlagPerNode
  BY DEF NetworkInv, Sound, OneFlagPerNode
<1> QED BY <1>1, NetworkAlways, PTL

-----------------------------------------------------------------------------
(* The cards of a node.  A node's row is new, with a new stamp, whenever    *)
(* its cards change: the cards are a function (W) of the row, also of the   *)
(* rows in the images, and come back with it.                               *)

TypesIn(f, n) == {k \in TypeKeys \cap DOMAIN f : f[k] # NULL /\ f[k].nodeid = n}
OneType(C) == \A j, k \in C : j[1] = k[1]

\* The cards that go with the rows of entry e, if it captures cards at all.
EntryCards(e, W) ==
  \A n \in NodeId : Node(n) \in DOMAIN e.before =>
    IF TypeKeys \cap DOMAIN e.before = {}
    THEN W[n][e.before[Node(n)]] = W[n][e.after[Node(n)]]
    ELSE /\ W[n][e.before[Node(n)]] = TypesIn(e.before, n)
         /\ W[n][e.after[Node(n)]] = TypesIn(e.after, n)

Cards(W) ==
  /\ \A n \in NodeId : W[n][NULL] = {} /\ \A r \in NodeRow : OneType(W[n][r])
  /\ \A n \in NodeId : TypesAt(db, n) = W[n][db[Node(n)]]
  /\ \A i \in DOMAIN journal : EntryCards(journal[i], W)

\* The sequence is not behind any node there is or has been.
NodesNumbered ==
  \A n \in NodeId :
    db[Node(n)] # NULL \/ (\E i \in DOMAIN journal : Node(n) \in DOMAIN journal[i].before) => n <= seq.node

CardsInv == NodesNumbered /\ \E W : Cards(W)

LEMMA CardsAreOfOneType == ASSUME TypeOK, CardsInv PROVE OneTypePerNode
<1>1. PICK W : Cards(W)
  BY DEF CardsInv
<1>2. ASSUME NEW n \in NodeId
      PROVE  OneType(TypesAt(db, n)) /\ (db[Node(n)] = NULL => TypesAt(db, n) = {})
  <2>1. db[Node(n)] = NULL \/ db[Node(n)] \in NodeRow
    BY NodeRows DEF TypeOK
  <2>2. TypesAt(db, n) = W[n][db[Node(n)]]
    BY <1>1 DEF Cards
  <2> QED BY <1>1, <2>1, <2>2 DEF Cards, OneType
<1>3. \A k \in TypeKeys : db[k] # NULL => db[k].nodeid \in NodeId /\ k \in TypesAt(db, db[k].nodeid)
  BY RowsOfTables DEF TypeOK, CardRow, TypesAt
<1> QED BY <1>2, <1>3 DEF OneTypePerNode, TypesOk, OneType

LEMMA CardsInit == ASSUME Init PROVE CardsInv
<1>1. db = InitialDb /\ DOMAIN journal = {} /\ TypesOk(db) /\ DbOk(db)
  BY InitialDbAssumption DEF Init, NetworkOk
<1>2. PICK W : W = [n \in NodeId |-> [r \in NodeRow \cup {NULL} |->
                      IF r # NULL /\ r = db[Node(n)] THEN TypesAt(db, n) ELSE {}]]
  OBVIOUS
<1>3. \A n \in NodeId, r \in NodeRow \cup {NULL} :
        W[n][r] = IF r # NULL /\ r = db[Node(n)] THEN TypesAt(db, n) ELSE {}
  BY <1>2
<1>4. ASSUME NEW n \in NodeId PROVE W[n][NULL] = {} /\ \A r \in NodeRow : OneType(W[n][r])
  BY <1>1, <1>3 DEF TypesOk, OneType
<1>5. ASSUME NEW n \in NodeId PROVE TypesAt(db, n) = W[n][db[Node(n)]]
  <2>1. db[Node(n)] \in NodeRow \cup {NULL}
    BY <1>1, NodeRows
  <2>2. db[Node(n)] = NULL => TypesAt(db, n) = {}
    BY <1>1 DEF TypesOk, TypesAt
  <2> QED BY <1>3, <2>1, <2>2
<1>6. NodesNumbered
  <2>1. \A n \in NodeId : Node(n) \in NodeKeys /\ Node(n)[2] = n
    BY KeyTables DEF Node
  <2> QED BY <1>1, <2>1 DEF Init, LastId, NodesNumbered
<1> QED BY <1>1, <1>4, <1>5, <1>6 DEF CardsInv, Cards

\* The rows x of entry i give way to the rows y: one is the image before the
\* operation, the other the image after it.
LEMMA SwapCards ==
  ASSUME TypeOK, TypeOK', NEW W, Cards(W), NEW i \in DOMAIN journal, EntryOwned(journal[i]),
         NEW x, NEW y, {x, y} = {journal[i].before, journal[i].after},
         \A k \in DOMAIN journal[i].before : k \in Key /\ db[k] = x[k] /\ db'[k] = y[k],
         \A k \in Key \ DOMAIN journal[i].before : db'[k] = db[k]
  PROVE  \A n \in NodeId : TypesAt(db, n)' = W[n][db'[Node(n)]]
<1> DEFINE D == DOMAIN journal[i].before
<1>1. TypeKeys \subseteq Key /\ \A n \in NodeId : Node(n) \in Key
  BY Keys DEF Key
<1>2. EntryOk(journal[i]) /\ DOMAIN x = D /\ DOMAIN y = D
  <2>1. EntryOk(journal[i])
    BY DEF TypeOK
  <2>2. \A f \in {journal[i].before, journal[i].after} : DOMAIN f = D
    BY <2>1 DEF EntryOk
  <2> QED BY <2>1, <2>2
<1>3. EntryCards(journal[i], W) /\ \A n \in NodeId : TypesAt(db, n) = W[n][db[Node(n)]]
  BY DEF Cards
<1>4. \A k \in TypeKeys \cap D :
        /\ x[k] # NULL => Node(x[k].nodeid) \in D
        /\ y[k] # NULL => Node(y[k].nodeid) \in D
  BY DEF EntryOwned
<1>5. \A n \in NodeId : TypesAt(db, n)' = {k \in TypeKeys : db'[k] # NULL /\ db'[k].nodeid = n}
  BY DEF TypesAt
<1> SUFFICES ASSUME NEW n \in NodeId PROVE TypesAt(db, n)' = W[n][db'[Node(n)]]
  OBVIOUS
<1>6. CASE Node(n) \notin D
  <2>1. \A k \in TypeKeys \cap D : /\ ~(db[k] # NULL /\ db[k].nodeid = n)
                                   /\ ~(db'[k] # NULL /\ db'[k].nodeid = n)
    BY <1>4, <1>6
  <2>2. TypesAt(db, n)' = TypesAt(db, n)
    BY <1>1, <1>5, <2>1 DEF TypesAt
  <2> QED BY <1>1, <1>3, <1>6, <2>2
<1>7. CASE Node(n) \in D /\ TypeKeys \cap D = {}
  <2>1. TypesAt(db, n)' = TypesAt(db, n)
    BY <1>1, <1>5, <1>7 DEF TypesAt
  <2>2. W[n][x[Node(n)]] = W[n][y[Node(n)]]
    BY <1>3, <1>7 DEF EntryCards
  <2> QED BY <1>3, <1>7, <2>1, <2>2
<1>8. CASE Node(n) \in D /\ TypeKeys \cap D # {}
  <2>1. W[n][x[Node(n)]] = TypesIn(x, n) /\ W[n][y[Node(n)]] = TypesIn(y, n)
    BY <1>3, <1>8 DEF EntryCards
  <2>2. TypesAt(db, n) = TypesIn(x, n)
    BY <1>3, <1>8, <2>1
  <2>3. \A k \in TypeKeys \ D : k \notin TypesAt(db, n)
    BY <1>2, <2>2 DEF TypesIn
  <2>4. TypesAt(db, n)' = TypesIn(y, n)
    BY <1>1, <1>2, <1>5, <2>3 DEF TypesIn, TypesAt
  <2> QED BY <1>8, <2>1, <2>4
<1> QED BY <1>6, <1>7, <1>8

LEMMA RewrittenCards ==
  ASSUME UndoInv, Lawful, TypeOK', CardsInv, NEW a \in Actor, Undo(a) \/ Redo(a)
  PROVE  CardsInv'
<1>1. \E i, t, x, y :
        /\ i \in DOMAIN journal /\ {x, y} = {journal[i].before, journal[i].after} /\ Rewritten(i, t) /\ ImagesKept(i)
        /\ \A k \in DOMAIN journal[i].before : k \in Key /\ db[k] = x[k] /\ db'[k] = y[k]
        /\ \A k \in Key \ DOMAIN journal[i].before : db'[k] = db[k]
  <2>1. CASE Undo(a)
    <3>1. PICK i \in Undoable(a) :
            /\ Rewritten(i, clock) /\ ImagesKept(i)
            /\ \A k \in DOMAIN journal[i].before :
                 /\ k \in Key /\ db[k] = journal[i].after[k]
                 /\ journal'[i].redo[k] = db[k] /\ db'[k] = journal[i].before[k]
            /\ \A k \in Key \ DOMAIN journal[i].before : db'[k] = db[k]
      BY <2>1, UndoRestores DEF UndoInv
    <3>2. i \in DOMAIN journal
      BY DEF Undoable, Mine
    <3> QED BY <3>1, <3>2
  <2>2. CASE Redo(a)
    <3>1. PICK i \in Redoable(a) :
            /\ Rewritten(i, 0) /\ ImagesKept(i) /\ journal'[i].redo = journal[i].redo
            /\ \A k \in DOMAIN journal[i].before :
                 k \in Key /\ db[k] = journal[i].before[k] /\ db'[k] = journal[i].redo[k]
            /\ \A k \in Key \ DOMAIN journal[i].before : db'[k] = db[k]
      BY <2>2, RedoRestores DEF UndoInv
    <3>2. i \in DOMAIN journal /\ journal[i].redo # NULL
      BY DEF Redoable, Reopened, Mine
    <3>3. \A k \in DOMAIN journal[i].before : db'[k] = journal[i].after[k]
      BY <3>1, <3>2 DEF Lawful, EntryLawful, EntryRedo
    <3> QED BY <3>1, <3>2, <3>3
  <2> QED BY <2>1, <2>2
<1>2. PICK i, t, x, y :
        /\ i \in DOMAIN journal /\ {x, y} = {journal[i].before, journal[i].after} /\ Rewritten(i, t) /\ ImagesKept(i)
        /\ \A k \in DOMAIN journal[i].before : k \in Key /\ db[k] = x[k] /\ db'[k] = y[k]
        /\ \A k \in Key \ DOMAIN journal[i].before : db'[k] = db[k]
  BY <1>1
<1>3. PICK W : Cards(W)
  BY DEF CardsInv
<1>4. EntryOwned(journal[i])
  BY <1>2 DEF Lawful, EntryLawful
<1>5. \A n \in NodeId : TypesAt(db, n)' = W[n][db'[Node(n)]]
  BY <1>2, <1>3, <1>4, SwapCards DEF UndoInv
<1>6. /\ DOMAIN journal' = DOMAIN journal /\ seq' = seq
      /\ \A j \in DOMAIN journal : journal'[j].before = journal[j].before /\ journal'[j].after = journal[j].after
  BY <1>2 DEF Rewritten, ImagesKept, Undo, Redo
<1>7. Cards(W)'
  BY <1>3, <1>5, <1>6 DEF Cards, EntryCards
<1>8. NodesNumbered'
  <2>1. \A n \in NodeId : Node(n) \in Key
    BY Keys
  <2> QED BY <1>2, <1>6, <2>1 DEF CardsInv, NodesNumbered
<1> QED BY <1>7, <1>8 DEF CardsInv

\* An operation that leaves the cards alone, or captures all of a node's.
TypedOp(S, d) ==
  /\ seq.node \in Int /\ seq'.node \in Int /\ seq.node <= seq'.node
  /\ \A n \in NodeId : Node(n) \in S => db[Node(n)] # NULL \/ n <= seq'.node
  /\ TypeKeys \cap S # {} =>
       \A n \in NodeId : Node(n) \in S => OneType(TypesAt(d, n)) /\ TypesAt(db, n) \cup TypesAt(d, n) \subseteq S

LEMMA CommitCards ==
  ASSUME UndoInv, TypeOK', Lawful, Lawful', CardsInv, Covered,
         NEW a, NEW op, NEW S \in SUBSET Key, NEW d, Commit(a, op, S, d), TypedOp(S, d)
  PROVE  CardsInv'
<1> DEFINE N == Len(journal) + 1
           e == Entry(a, op, S, d)
<1>1. PICK W : Cards(W)
  BY DEF CardsInv
<1>2. /\ DOMAIN e.before = S /\ \A k \in S : e.before[k] = db[k] /\ e.after[k] = d[k]
      /\ e.created = clock
  BY DEF Entry, Image
<1>3. journal' = Append(journal, e) /\ db' = d
  BY DEF Commit
<1> HIDE DEF e
<1>4. /\ DOMAIN journal' = DOMAIN journal \cup {N}
      /\ \A i \in DOMAIN journal : journal'[i] = journal[i]
      /\ journal'[N] = e
      /\ \A k \in Key \ S : d[k] = db[k]
  <2>1. journal \in Seq({journal[i] : i \in DOMAIN journal})
    BY DEF UndoInv, TypeOK
  <2>2. Len(journal') = N /\ Len(journal) \in Nat
    BY <1>3, <2>1, JournalAppend, JournalTypes DEF UndoInv
  <2>3. /\ DOMAIN journal' = DOMAIN journal \cup {N}
        /\ \A i \in DOMAIN journal : journal'[i] = journal[i]
        /\ journal'[N] = e
    BY <1>3, <2>1, JournalAppend, JournalTypes DEF UndoInv
  <2> QED BY <1>2, <1>3, <2>2, <2>3 DEF Covered
<1> HIDE DEF N
<1>5. TypeKeys \subseteq Key /\ \A n \in NodeId : Node(n) \in Key /\ Node(n) \in StampedKeys
  BY Keys, KeyTables DEF Key, StampedKeys
<1>6. \A n \in NodeId : Node(n) \in S => d[Node(n)] # NULL /\ d[Node(n)].stamp = clock
  <2>1. EntryStamped(e)
    BY <1>4 DEF Lawful, EntryLawful
  <2> QED BY <1>2, <1>5, <2>1 DEF EntryStamped
<1>7. \A k \in TypeKeys \cap S : /\ db[k] # NULL => Node(db[k].nodeid) \in S
                                 /\ d[k] # NULL => Node(d[k].nodeid) \in S
  <2>1. EntryOwned(e)
    BY <1>4 DEF Lawful, EntryLawful
  <2> QED BY <1>2, <2>1 DEF EntryOwned
<1>8. PICK V : V = [n \in NodeId |-> [r \in NodeRow \cup {NULL} |->
                      IF Node(n) \in S /\ r = d[Node(n)] THEN TypesAt(d, n) ELSE W[n][r]]]
  OBVIOUS
<1>9. \A n \in NodeId, r \in NodeRow \cup {NULL} :
        V[n][r] = IF Node(n) \in S /\ r = d[Node(n)] THEN TypesAt(d, n) ELSE W[n][r]
  BY <1>8
<1> HIDE <1>8
<1>10. \A n \in NodeId : db[Node(n)] \in NodeRow \cup {NULL} /\ d[Node(n)] \in NodeRow \cup {NULL}
  BY <1>3, NodeRows DEF UndoInv, TypeOK
\* No row is as new as the ones the operation leaves.
<1>11. ASSUME NEW n \in NodeId, NEW r \in NodeRow \cup {NULL}, r = NULL \/ r.stamp < clock
       PROVE  V[n][r] = W[n][r]
  <2>1. r # NULL => r.stamp \in Int
    <3>1. Stamp \subseteq Int
      BY DEF Stamp
    <3> QED BY <3>1 DEF NodeRow
  <2>2. clock \in Int
    BY JournalTypes DEF UndoInv
  <2>3. Node(n) \in S => r # d[Node(n)]
    BY <1>6, <1>11, <2>1, <2>2
  <2> QED BY <1>9, <2>3
<1>12. ASSUME NEW n \in NodeId PROVE db[Node(n)] = NULL \/ db[Node(n)].stamp < clock
  BY <1>5 DEF Lawful, RowsStamped
<1>13. ASSUME NEW n \in NodeId, TypeKeys \cap S = {} \/ Node(n) \notin S
       PROVE  TypesAt(d, n) = TypesAt(db, n)
  <2>1. \A k \in TypeKeys \cap S : /\ ~(db[k] # NULL /\ db[k].nodeid = n)
                                   /\ ~(d[k] # NULL /\ d[k].nodeid = n)
    BY <1>7, <1>13
  <2> QED BY <1>4, <1>5, <2>1 DEF TypesAt
<1>14. ASSUME NEW n \in NodeId PROVE OneType(TypesAt(d, n)) /\ OneType(TypesAt(db, n))
  <2>1. OneType(TypesAt(db, n))
    <3>1. OneType({})
      BY DEF OneType
    <3> QED BY <1>1, <1>10, <3>1 DEF Cards
  <2>2. CASE TypeKeys \cap S = {} \/ Node(n) \notin S
    BY <1>13, <2>1, <2>2
  <2>3. CASE TypeKeys \cap S # {} /\ Node(n) \in S
    BY <2>1, <2>3 DEF TypedOp
  <2> QED BY <2>1, <2>2, <2>3
<1>15. ASSUME NEW n \in NodeId PROVE V[n][NULL] = {} /\ \A r \in NodeRow : OneType(V[n][r])
  BY <1>1, <1>6, <1>9, <1>14 DEF Cards
<1>16. ASSUME NEW n \in NodeId PROVE TypesAt(d, n) = V[n][d[Node(n)]]
  <2>1. CASE Node(n) \in S
    BY <1>9, <1>10, <2>1
  <2>2. CASE Node(n) \notin S
    <3>1. d[Node(n)] = db[Node(n)] /\ TypesAt(d, n) = TypesAt(db, n)
      BY <1>4, <1>5, <1>13, <2>2
    <3> QED BY <1>1, <1>9, <1>10, <2>2, <3>1 DEF Cards
  <2> QED BY <2>1, <2>2
<1>17. ASSUME NEW i \in DOMAIN journal PROVE EntryCards(journal[i], V)
  <2>1. EntryOk(journal[i]) /\ EntryStamped(journal[i]) /\ journal[i].created < clock
    BY DEF UndoInv, TypeOK, TimesOk, Lawful, EntryLawful
  <2>2. EntryCards(journal[i], W)
    BY <1>1 DEF Cards
  <2> SUFFICES ASSUME NEW n \in NodeId, Node(n) \in DOMAIN journal[i].before
               PROVE  /\ V[n][journal[i].before[Node(n)]] = W[n][journal[i].before[Node(n)]]
                      /\ V[n][journal[i].after[Node(n)]] = W[n][journal[i].after[Node(n)]]
    BY <2>2 DEF EntryCards
  <2> DEFINE x == journal[i].before[Node(n)]
             y == journal[i].after[Node(n)]
  <2>3. RowOk(Node(n), x) /\ RowOk(Node(n), y)
    BY <2>1 DEF EntryOk, ImageOk
  <2>4. x \in NodeRow \cup {NULL} /\ y \in NodeRow \cup {NULL}
    BY <2>3, KeyTables, TablesDisjoint DEF RowOk
  <2>5. /\ y # NULL /\ y.stamp = journal[i].created
        /\ x # NULL => x.stamp < journal[i].created
    BY <1>5, <2>1 DEF EntryStamped
  <2>6. x # NULL => x.stamp \in Nat
    BY <1>5, <2>3, StampsAre
  <2>7. journal[i].created \in Nat /\ clock \in Nat
    BY JournalTypes DEF UndoInv
  <2> HIDE DEF x, y
  <2>8. (x = NULL \/ x.stamp < clock) /\ y.stamp < clock
    BY <2>1, <2>5, <2>6, <2>7
  <2> QED BY <1>11, <2>4, <2>8 DEF x, y
<1>18. EntryCards(e, V)
  <2> SUFFICES ASSUME NEW n \in NodeId, Node(n) \in S
               PROVE  IF TypeKeys \cap S = {}
                      THEN V[n][db[Node(n)]] = V[n][d[Node(n)]]
                      ELSE /\ V[n][db[Node(n)]] = TypesIn(e.before, n)
                           /\ V[n][d[Node(n)]] = TypesIn(e.after, n)
    BY <1>2 DEF EntryCards
  <2>1. V[n][db[Node(n)]] = TypesAt(db, n) /\ V[n][d[Node(n)]] = TypesAt(d, n)
    BY <1>1, <1>10, <1>11, <1>12, <1>16 DEF Cards
  <2>2. ASSUME TypeKeys \cap S # {}
        PROVE  TypesAt(db, n) = TypesIn(e.before, n) /\ TypesAt(d, n) = TypesIn(e.after, n)
    <3>1. TypesAt(db, n) \cup TypesAt(d, n) \subseteq S
      BY <2>2 DEF TypedOp
    <3>2. DOMAIN e.after = S
      BY DEF e, Entry, Image
    <3> QED BY <1>2, <3>1, <3>2 DEF TypesAt, TypesIn
  <2> QED BY <1>13, <2>1, <2>2
<1>19. Cards(V)'
  <2>1. \A n \in NodeId : TypesAt(db, n)' = TypesAt(d, n)
    BY <1>3 DEF TypesAt
  <2> QED BY <1>3, <1>4, <1>15, <1>16, <1>17, <1>18, <2>1 DEF Cards
<1>20. NodesNumbered'
  <2> SUFFICES ASSUME NEW n \in NodeId,
                      d[Node(n)] # NULL \/ \E i \in DOMAIN journal' : Node(n) \in DOMAIN journal'[i].before
               PROVE  n <= seq'.node
    BY <1>3 DEF NodesNumbered
  <2>1. n \in Int /\ seq.node <= seq'.node /\ seq.node \in Int /\ seq'.node \in Int
    BY DEF TypedOp, NodeId
  <2>2. CASE Node(n) \in S /\ db[Node(n)] = NULL
    BY <2>2 DEF TypedOp
  <2>3. CASE Node(n) \notin S \/ db[Node(n)] # NULL
    <3>1. db[Node(n)] # NULL \/ \E i \in DOMAIN journal : Node(n) \in DOMAIN journal[i].before
      BY <1>2, <1>4, <1>5, <2>3
    <3>2. n <= seq.node
      BY <3>1 DEF CardsInv, NodesNumbered
    <3> QED BY <2>1, <3>2
  <2> QED BY <2>2, <2>3
<1> QED BY <1>19, <1>20 DEF CardsInv

\* An operation that captures no cards.
LEMMA Untyped ==
  ASSUME TypeOK, NEW S, NEW d, TypeKeys \cap S = {}, SeqGrows,
         \A n \in NodeId : Node(n) \in S => db[Node(n)] # NULL \/ n <= seq'.node
  PROVE  TypedOp(S, d)
BY DEF TypedOp, SeqGrows

\* The nodes among some rows, and that there are no cards.
LEMMA LinesUntyped ==
  ASSUME NEW S, S \subseteq LineKeys \cup PipeKeys \cup EquipKeys \cup FlagKeys
  PROVE  TypeKeys \cap S = {} /\ \A n \in NodeId : Node(n) \notin S
BY KeyTables, TablesDisjoint

LEMMA NodeUntyped ==
  ASSUME NEW n \in NodeId, NEW S, S \subseteq LineKeys \cup PipeKeys \cup EquipKeys \cup FlagKeys
  PROVE  /\ TypeKeys \cap ({Node(n)} \cup S) = {}
         /\ \A m \in NodeId : Node(m) \in {Node(n)} \cup S => m = n
BY KeyTables, TablesDisjoint DEF Node

\* What an operation captures.
Captures(a) == \E op, S, d : S \in SUBSET Key /\ Commit(a, op, S, d) /\ TypedOp(S, d)

LEMMA LinesOnlyTyped ==
  ASSUME TypeOK, SeqGrows, NEW a, NEW op, NEW S, NEW d, Commit(a, op, S, d),
         S \subseteq LineKeys \cup PipeKeys \cup EquipKeys \cup FlagKeys
  PROVE  Captures(a)
<1>1. S \in SUBSET Key
  BY DEF Key
<1> QED BY <1>1, LinesUntyped, Untyped DEF Captures

LEMMA NodeTyped ==
  ASSUME TypeOK, SeqGrows, NEW a, NEW op, NEW n \in NodeId, NEW S, NEW d, Commit(a, op, {Node(n)} \cup S, d),
         S \subseteq LineKeys \cup PipeKeys \cup EquipKeys \cup FlagKeys,
         db[Node(n)] # NULL \/ n <= seq'.node
  PROVE  Captures(a)
<1>1. {Node(n)} \cup S \in SUBSET Key
  BY KeyTables DEF Key
<1>2. /\ TypeKeys \cap ({Node(n)} \cup S) = {}
      /\ \A m \in NodeId : Node(m) \in {Node(n)} \cup S => db[Node(m)] # NULL \/ m <= seq'.node
  BY NodeUntyped
<1>3. TypedOp({Node(n)} \cup S, d)
  BY <1>2, Untyped
<1> QED BY <1>1, <1>3 DEF Captures

LEMMA NodeOpsTyped ==
  ASSUME TypeOK, SeqGrows, NEW a, NEW n \in NodeId,
         \/ \E p \in Pos : MoveNode(a, n, p)
         \/ \E cascade \in BOOLEAN : DeleteNode(a, n, cascade)
         \/ DissolveNode(a, n)
         \/ SetFlag(a, n)
         \/ ClearFlag(a, n)
  PROVE  Captures(a)
<1>1. \A L \in SUBSET LineId : LinesWithPipes(L) \subseteq LineKeys \cup PipeKeys
  BY LinesTogether
<1>2. ASSUME NEW p \in Pos, MoveNode(a, n, p) PROVE Captures(a)
  <2>1. Incident(db, n) \in SUBSET LineId
    BY DEF Incident
  <2>2. /\ Commit(a, "MOVE", {Node(n)} \cup IncidentLines(n), NodeMoved(db, n, p, clock))
        /\ db[Node(n)] # NULL
    BY <1>2 DEF MoveNode, Active
  <2> QED BY <1>1, <2>1, <2>2, NodeTyped DEF IncidentLines
<1>3. ASSUME NEW cascade \in BOOLEAN, DeleteNode(a, n, cascade) PROVE Captures(a)
  <2>1. ActiveIncident(db, n) \in SUBSET LineId
    BY DEF ActiveIncident, Incident
  <2>2. /\ Commit(a, "DELETE_NODE", {Node(n)} \cup LinesWithPipes(ActiveIncident(db, n)), NodeDeleted(db, n, clock))
        /\ db[Node(n)] # NULL
    BY <1>3 DEF DeleteNode, Active
  <2> QED BY <1>1, <2>1, <2>2, NodeTyped
<1>4. ASSUME DissolveNode(a, n) PROVE Captures(a)
  <2> DEFINE lines == {j[1] : j \in Joins(db, n)} \cup {j[2] : j \in Joins(db, n)}
  <2>1. lines \in SUBSET LineId
    BY DEF Joins, KeptLines, ActiveIncident, Incident
  <2>2. /\ Commit(a, "DISSOLVE_NODE", {Node(n)} \cup LinesWithPipes(lines), NodeDissolved(db, n, clock))
        /\ db[Node(n)] # NULL
    BY <1>4 DEF DissolveNode, Active
  <2> HIDE DEF lines
  <2> QED BY <1>1, <2>1, <2>2, NodeTyped
<1>5. ASSUME SetFlag(a, n) PROVE Captures(a)
  <2> DEFINE k == <<FlagTable, NextCard>>
  <2>1. Commit(a, "SET_NODE_FLAG", {k}, WithCards(db, {k}, n)) /\ k \in FlagKeys
    BY <1>5 DEF SetFlag
  <2> HIDE DEF k
  <2> QED BY <2>1, LinesOnlyTyped
<1>6. ASSUME ClearFlag(a, n) PROVE Captures(a)
  <2> DEFINE flags == FlagsAt(db, n)
  <2>1. Commit(a, "SET_NODE_FLAG", flags, Update(db, flags, LAMBDA k : NULL)) /\ flags \subseteq FlagKeys
    BY <1>6 DEF ClearFlag, FlagsAt
  <2> HIDE DEF flags
  <2> QED BY <2>1, LinesOnlyTyped
<1> QED BY <1>2, <1>3, <1>4, <1>5, <1>6

LEMMA LineOpsTyped ==
  ASSUME TypeOK, SeqGrows, NEW a, EditLine(a)
  PROVE  Captures(a)
<1>1. PICK l \in LineId :
        \/ \E pair \in BOOLEAN : DeleteLine(a, l, pair)
        \/ \E pair \in BOOLEAN : ReverseLine(a, l, pair)
        \/ \E via \in {0, 1} : UpdateGeometry(a, l, via)
        \/ Active(db, Line(l)) /\ \E p \in Pos, via1, via2 \in {0, 1}, toNew \in SUBSET Review(db, l) :
              SplitLine(a, l, p, via1, via2, toNew)
  BY DEF EditLine
<1>2. \A L \in SUBSET LineId : LinesWithPipes(L) \subseteq LineKeys \cup PipeKeys /\ LineKeysOf(L) \subseteq LineKeys
  BY LinesTogether DEF LineKeysOf, LineKeys
<1>3. ASSUME NEW pair \in BOOLEAN PROVE WithPair(l, pair) \in SUBSET LineId
  BY DEF WithPair, FindPair, Pairs
<1>4. ASSUME NEW pair \in BOOLEAN, DeleteLine(a, l, pair) PROVE Captures(a)
  <2>1. Commit(a, "DELETE_LINE", LinesWithPipes(WithPair(l, pair)), RemoveLines(db, WithPair(l, pair), clock))
    BY <1>4 DEF DeleteLine, WithPair
  <2> QED BY <1>2, <1>3, <2>1, LinesOnlyTyped
<1>5. ASSUME NEW pair \in BOOLEAN, ReverseLine(a, l, pair) PROVE Captures(a)
  <2>1. Commit(a, "REVERSE", LineKeysOf(WithPair(l, pair)), Turned(db, WithPair(l, pair), clock))
    BY <1>5 DEF ReverseLine, WithPair
  <2> QED BY <1>2, <1>3, <2>1, LinesOnlyTyped
<1>6. ASSUME NEW via \in {0, 1}, UpdateGeometry(a, l, via) PROVE Captures(a)
  <2>1. Commit(a, "GEOMETRY", LinesWithPipes({l}), Reshaped(db, l, via, clock))
    BY <1>6 DEF UpdateGeometry
  <2> QED BY <1>2, <2>1, LinesOnlyTyped
<1>7. ASSUME NEW p \in Pos, NEW via1 \in {0, 1}, NEW via2 \in {0, 1}, NEW toNew \in SUBSET Review(db, l),
             SplitLine(a, l, p, via1, via2, toNew)
      PROVE  Captures(a)
  <2> DEFINE n == NextNode
             m == NextLine
             S == LinesWithPipes({l}) \cup OnLine(db, l) \cup {Line(m), Pipe(m)}
  <2>1. PICK d : Commit(a, "SPLIT", SplitCaptured(l, n, m), d)
    BY <1>7 DEF SplitLine
  <2>2. n \in NodeId /\ m \in LineId /\ seq' = [seq EXCEPT !.node = n, !.line = m]
    BY <1>7 DEF SplitLine
  <2>3. n <= seq'.node
    BY <2>2 DEF TypeOK, NodeId
  <2>4. S \subseteq LineKeys \cup PipeKeys \cup EquipKeys
    BY <1>2, <2>2, KeyTables DEF OnLine
  <2>5. SplitCaptured(l, n, m) = {Node(n)} \cup S
    BY DEF SplitCaptured
  <2>6. Commit(a, "SPLIT", {Node(n)} \cup S, d)
    BY <2>1, <2>5
  <2> HIDE DEF n, m, S
  <2> QED BY <2>2, <2>3, <2>4, <2>6, NodeTyped
<1> QED BY <1>1, <1>4, <1>5, <1>6, <1>7

LEMMA CreateLineTyped ==
  ASSUME TypeOK, SeqGrows, NEW a, NEW x \in NodeId, NEW y \in NodeId, CreateLine(a, x, y)
  PROVE  Captures(a)
<1> DEFINE l == NextLine
<1>1. l \in LineId /\ Commit(a, "CREATE_LINE", {Line(l), Pipe(l)}, NewLine(db, l, x, y, clock))
  BY DEF CreateLine
<1>2. {Line(l), Pipe(l)} \subseteq LineKeys \cup PipeKeys
  BY <1>1, KeyTables
<1> HIDE DEF l
<1> QED BY <1>1, <1>2, LinesOnlyTyped

LEMMA CreateNodeTyped ==
  ASSUME TypeOK, SeqGrows, CardsInv, NEW a, NEW p \in Pos, NEW table, CreateNode(a, p, table)
  PROVE  Captures(a)
<1> DEFINE n     == NextNode
           cards == NewCards(table)
           d1    == Update(db, {Node(n)}, LAMBDA k : [pos |-> p, removed |-> FALSE, stamp |-> clock])
           d     == WithCards(d1, cards, n)
<1>1. /\ Commit(a, "CREATE_NODE", {Node(n)} \cup cards, d)
      /\ seq' = [seq EXCEPT !.node = n, !.card = @ + Cardinality(cards)]
      /\ n \in NodeId /\ cards \subseteq TypeKeys
  BY DEF CreateNode
<1>2. \A k \in cards : k[1] = table
  BY DEF NewCards
<1>3. seq \in SeqType
  BY DEF TypeOK, SeqType
<1>4. seq'.node = n
  BY <1>1, <1>3 DEF SeqType
<1>5. db[Node(n)] = NULL
  <2>1. ~(n <= seq.node)
    BY DEF SeqGrows, NextNode
  <2> QED BY <1>1, <2>1 DEF CardsInv, NodesNumbered
<1> HIDE DEF n, cards
<1>6. TypesAt(db, n) = {}
  <2>1. PICK W : Cards(W)
    BY DEF CardsInv
  <2> QED BY <1>1, <1>5, <2>1 DEF Cards
<1>7. \A k \in TypeKeys \ cards : d[k] = db[k]
  BY <1>1, KeyTables, TablesDisjoint DEF WithCards, Update, Key
<1> HIDE DEF d
<1>8. TypesAt(d, n) \subseteq cards
  BY <1>6, <1>7 DEF TypesAt
<1>9. OneType(TypesAt(d, n))
  BY <1>2, <1>8 DEF OneType
<1>10. \A m \in NodeId : Node(m) \in {Node(n)} \cup cards => m = n
  BY <1>1, KeyTables, TablesDisjoint DEF Node
<1>11. TypedOp({Node(n)} \cup cards, d)
  BY <1>4, <1>6, <1>8, <1>9, <1>10 DEF TypedOp, SeqGrows, NodeId
<1>12. {Node(n)} \cup cards \in SUBSET Key
  BY <1>1, KeyTables DEF Key
<1> QED BY <1>1, <1>11, <1>12 DEF Captures

LEMMA ChangeNodeTypeTyped ==
  ASSUME TypeOK, SeqGrows, CardsInv, NEW a, NEW n \in NodeId, NEW table, ChangeNodeType(a, n, table)
  PROVE  Captures(a)
<1> DEFINE cards == TypesAt(db, n)
           same  == {k \in cards : k[1] = table}
           keep  == {k \in same : \A j \in same : k[2] <= j[2]}
           out   == cards \ keep
           new   == IF keep = {} THEN NewCards(table) ELSE {}
           d1    == Update(db, out, LAMBDA k : NULL)
           d2    == Update(d1, {Node(n)}, LAMBDA k : [d1[k] EXCEPT !.stamp = clock])
           d     == WithCards(d2, new, n)
<1>1. /\ Commit(a, "CHANGE_NODE_TYPE", {Node(n)} \cup out \cup new, d)
      /\ new \subseteq TypeKeys /\ db[Node(n)] # NULL
      /\ {k[1] : k \in cards} # {table} \ {NULL}
  BY DEF ChangeNodeType, Active
\* The cards are of one type, and it is not the new one: none is kept.
<1>2. keep = {}
  <2> SUFFICES ASSUME NEW c \in keep PROVE FALSE
    OBVIOUS
  <2>1. c \in cards /\ c \in TypeKeys /\ c[1] = table
    BY DEF TypesAt
  <2>2. table # NULL
    BY <2>1, NoTypeAssumption DEF TypeKeys
  <2>3. \A k \in cards : k[1] = c[1]
    BY <2>1, CardsAreOfOneType DEF OneTypePerNode, TypesOk
  <2> HIDE DEF cards
  <2>4. {k[1] : k \in cards} = {table}
    BY <2>1, <2>3
  <2> QED BY <1>1, <2>2, <2>4
<1>3. /\ out = cards /\ cards \subseteq TypeKeys
      /\ \A k \in new : k[1] = table
  BY <1>2 DEF TypesAt, NewCards
<1> HIDE DEF keep, out, new
<1>4. \A k \in TypeKeys : (k \in out /\ k \notin new => d[k] = NULL) /\ (k \notin out /\ k \notin new => d[k] = db[k])
  BY KeyTables, TablesDisjoint DEF WithCards, Update, Key
<1> HIDE DEF d
<1>5. TypesAt(d, n) \subseteq new
  BY <1>3, <1>4 DEF TypesAt, cards
<1>6. OneType(TypesAt(d, n))
  BY <1>3, <1>5 DEF OneType
<1>7. out \subseteq TypeKeys /\ new \subseteq TypeKeys
  BY <1>1, <1>3
<1> HIDE DEF cards
<1>8. /\ {Node(n)} \cup out \cup new \in SUBSET Key
      /\ \A m \in NodeId : Node(m) \in {Node(n)} \cup out \cup new => m = n
  BY <1>7, KeyTables, TablesDisjoint DEF Node, Key
<1>9. TypedOp({Node(n)} \cup out \cup new, d)
  BY <1>1, <1>3, <1>5, <1>6, <1>8 DEF TypedOp, SeqGrows, cards
<1> QED BY <1>1, <1>8, <1>9 DEF Captures

LEMMA CardsStep ==
  ASSUME UndoInv, HistoryInv, HistoryInv', TypeOK', CardsInv, "MERGE" \notin Ops, [Next]_vars
  PROVE  CardsInv'
<1>1. ASSUME UNCHANGED vars PROVE CardsInv'
  BY <1>1 DEF vars, CardsInv, NodesNumbered, Cards, EntryCards, TypesAt
<1> SUFFICES ASSUME NEW a \in Actor, EditNode(a) \/ EditLine(a) \/ Create(a) \/ Undo(a) \/ Redo(a)
             PROVE  CardsInv'
  BY <1>1 DEF Next
<1>2. TypeOK /\ Lawful /\ Lawful' /\ SeqGrows
  BY Grows DEF UndoInv, HistoryInv
<1>3. CASE Undo(a) \/ Redo(a)
  BY <1>2, <1>3, RewrittenCards
<1>4. CASE EditNode(a) \/ EditLine(a) \/ Create(a)
  <2>1. ASSUME NEW n \in NodeId, NEW s \in NodeId PROVE ~MergeNodes(a, n, s)
    BY DEF MergeNodes, Commit
  <2>2. ASSUME EditNode(a) PROVE Captures(a)
    <3>1. PICK n \in NodeId :
            \/ \E p \in Pos : MoveNode(a, n, p)
            \/ \E cascade \in BOOLEAN : DeleteNode(a, n, cascade)
            \/ \E s \in NodeId : MergeNodes(a, n, s)
            \/ DissolveNode(a, n)
            \/ \E table \in TypeTable \cup {NULL} : ChangeNodeType(a, n, table)
            \/ SetFlag(a, n)
            \/ ClearFlag(a, n)
      BY <2>2, Zenon DEF EditNode
    <3> QED BY <1>2, <2>1, <3>1, NodeOpsTyped, ChangeNodeTypeTyped
  <2>3. ASSUME EditLine(a) \/ Create(a) PROVE Captures(a)
    BY <1>2, <2>3, LineOpsTyped, CreateLineTyped, CreateNodeTyped DEF Create
  <2>4. Captures(a) /\ Covered
    BY <1>2, <1>4, <2>2, <2>3, OperationCovers
  <2> QED BY <1>2, <2>4, CommitCards DEF Captures
<1> QED BY <1>3, <1>4

\* The cards of a node are of one type (OneTypePerNode), for any number of users
\* and any order of their undos and redos, as long as no nodes are merged: an
\* operation that changes the cards of a node marks its row, and so an undo that
\* would bring a card back beside a newer one is refused.
THEOREM TypesAreSingle ==
  ASSUME ImagesAreThere, "MERGE" \notin Ops
  PROVE  Spec => []OneTypePerNode
<1>1. UndoInv /\ CardsInv => OneTypePerNode
  BY CardsAreOfOneType DEF UndoInv
<1>2. /\ Init => CardsInv
      /\ UndoInv /\ HistoryInv /\ UndoInv' /\ HistoryInv' /\ CardsInv /\ [Next]_vars => CardsInv'
  BY CardsInit, CardsStep DEF UndoInv
<1> QED BY <1>1, <1>2, HistoryHolds, PTL DEF Spec
=============================================================================
