----------------------------- MODULE CardProofs -----------------------------
(***************************************************************************)
(* What cards, batches and undos promise each other, for any number of      *)
(* requests, rows and columns.                                              *)
(***************************************************************************)
EXTENDS CardEdit, FiniteSetTheorems, WellFoundedInduction, TLAPS

\* A function of two arguments with one value replaced.
LEMMA Nested ==
  ASSUME NEW S, NEW f \in [Tx -> [Id -> S]], NEW t \in Tx, NEW x \in Id, NEW v \in S
  PROVE  [f EXCEPT ![t][x] = v] \in [Tx -> [Id -> S]]
OBVIOUS

\* A function of requests with one value replaced.
LEMMA Single ==
  ASSUME NEW S, NEW f \in [Tx -> S], NEW t \in Tx, NEW v \in S
  PROVE  [f EXCEPT ![t] = v] \in [Tx -> S]
OBVIOUS

-----------------------------------------------------------------------------
(* The invariant.                                                          *)

\* A row that is remembered is the present one unless that has a later version.
Known(x, r) ==
  r # None => r.version <= row[x].version /\ (r.version = row[x].version => r = row[x])

\* A request that has written a row and not ended holds it.
Holds(t, x) == stage[t] \in Running /\ own[t][x] # None => lock[x] = t

\* A card: the journal's image is between the version the client sent and the
\* present one; a row it has written still has the version the client sent.
CardOk(t, x) ==
  /\ stage[t] = "open" /\ x \in todo[t] => x \in Asks(t)
  /\ kind[t] = "save" /\ stage[t] \in {"save", "commit"} =>
       /\ x \in todo[t] \/ own[t][x] # None => image[t][x] # None
       /\ sent[t][x] # None /\ image[t][x] # None => sent[t][x].version <= image[t][x].version
       /\ own[t][x] # None => /\ old[t][x] = row[x].cells
                              /\ sent[t][x] # None => row[x].version = sent[t][x].version

\* A batch: the rows it has come to are locked and as it read them.
BatchOk(t, x) ==
  /\ stage[t] = "apply" =>
       /\ own[t][x] = None
       /\ x \in Asks(t) /\ x \notin todo[t] => lock[x] = t /\ old[t][x] = row[x].cells
  /\ kind[t] = "batch" /\ own[t][x] # None => old[t][x] \in Cells
  /\ kind[t] = "batch" /\ stage[t] = "commit" /\ own[t][x] # None => old[t][x] = row[x].cells

\* An undo: the rows it compared held what its batch wrote.
UndoOk(t, x) ==
  kind[t] = "undo" /\ stage[t] \in Running =>
    /\ image[t][x] # None => \A f \in Columns(raw[t][x]) : image[t][x].cells[f] = own[of[t]][x][f]
    /\ own[t][x] # None => old[t][x] = own[of[t]][x]

RowOk(t, x) ==
  /\ Known(x, sent[t][x]) /\ Known(x, image[t][x])
  /\ stage[t] \in {"new", "open"} => own[t][x] = None /\ image[t][x] = None
  /\ stage[t] = "new" => sent[t][x] = None
  /\ sent[t][x] # None => kind[t] = "save"
  /\ Holds(t, x) /\ CardOk(t, x) /\ BatchOk(t, x) /\ UndoOk(t, x)

\* Where a request may be says what it is, and an undo's batch has ended.
Stages(t) ==
  /\ stage[t] \in {"open", "save"} => kind[t] = "save"
  /\ stage[t] = "apply" => kind[t] = "batch"
  /\ stage[t] \in {"compare", "restore"} => kind[t] = "undo"
  /\ stage[t] = "commit" => kind[t] # "none"
  /\ kind[t] = "undo" /\ stage[t] \in Running => of[t] \in Tx /\ stage[of[t]] = "done"

RequestOk(t) == Stages(t) /\ \A x \in Id : RowOk(t, x)

IInv == TypeOK /\ \A t \in Tx : RequestOk(t)

\* What a step of t leaves alone: the other requests, the rows they hold, and
\* every row it does not hold.
Frame(t) ==
  /\ stage[t] # "done"
  /\ \A s \in Tx \ {t} :
       /\ stage'[s] = stage[s] /\ kind'[s] = kind[s] /\ of'[s] = of[s]
       /\ raw'[s] = raw[s] /\ todo'[s] = todo[s]
       /\ sent'[s] = sent[s] /\ image'[s] = image[s]
       /\ own'[s] = own[s] /\ old'[s] = old[s]
       /\ \A x \in Id : lock[x] = s => lock'[x] = s
  /\ \A x \in Id : \/ row'[x] = row[x]
                   \/ lock[x] = t /\ row'[x].version = row[x].version + 1

\* A step of one request leaves the others as they should be.
LEMMA Others ==
  ASSUME CardAssumption, IInv, NEW t \in Tx, Frame(t), NEW s \in Tx \ {t}
  PROVE  RequestOk(s)'
<1>0. RequestOk(s) /\ s # t /\ s # None
  BY DEF IInv, CardAssumption
<1>1. Stages(s)'
  BY <1>0 DEF RequestOk, Stages, Frame
<1>2. kind[s] = "undo" /\ stage[s] \in Running => own'[of[s]] = own[of[s]]
  BY <1>0 DEF RequestOk, Stages, Frame
<1>3. ASSUME NEW x \in Id PROVE RowOk(s, x)'
  <2>0. RowOk(s, x) /\ row[x].version \in Nat
    BY <1>0 DEF RequestOk, IInv, TypeOK, Row
  <2>1. \A r \in Row \cup {None} : Known(x, r) => Known(x, r)'
    BY <2>0 DEF Frame, Known, Row
  <2>2. sent[s][x] \in Row \cup {None} /\ image[s][x] \in Row \cup {None}
    BY DEF IInv, TypeOK
  <2>3. Known(x, sent[s][x])' /\ Known(x, image[s][x])'
    BY <2>0, <2>1, <2>2 DEF RowOk, Known, Frame
  <2>4. Holds(s, x)'
    BY <2>0 DEF RowOk, Holds, Frame
  <2>5. lock[x] = s => row'[x] = row[x] /\ lock'[x] = s
    BY <1>0 DEF Frame
  <2>6. Asks(s)' = Asks(s)
    BY DEF Asks, Frame
  <2>7. CardOk(s, x)'
    BY <2>0, <2>5, <2>6 DEF RowOk, CardOk, Holds, Frame, Running
  <2>8. BatchOk(s, x)'
    BY <2>0, <2>5, <2>6 DEF RowOk, BatchOk, Holds, Frame, Running
  <2>9. UndoOk(s, x)'
    BY <1>2, <2>0 DEF RowOk, UndoOk, Frame, Columns
  <2>10. /\ stage'[s] \in {"new", "open"} => own'[s][x] = None /\ image'[s][x] = None
         /\ stage'[s] = "new" => sent'[s][x] = None
         /\ sent'[s][x] # None => kind'[s] = "save"
    BY <2>0 DEF RowOk, Frame
  <2> QED BY <2>3, <2>4, <2>7, <2>8, <2>9, <2>10 DEF RowOk
<1> QED BY <1>1, <1>3 DEF RequestOk

-----------------------------------------------------------------------------
(* The steps.                                                              *)

RawRow == [Field -> Value \cup {Keep}]

LEMMA Shapes ==
  /\ Nothing \in RawRow /\ Untouched \in [Id -> RawRow]
  /\ Blank \in [Id -> Row \cup {None}] /\ Blank \in [Id -> Cells \cup {None}]
BY DEF Nothing, RawRow, Untouched, Blank

LEMMA ChangedType ==
  \A cells \in Cells, change \in RawRow : Changed(cells, change) \in Cells
BY DEF Cells, RawRow, Changed

\* A request's stage is one of the names of stages.
StageName == Running \cup {"new", "open", "done", "failed"}

LEMMA RollbackKeeps ==
  ASSUME CardAssumption, IInv, NEW t \in Tx, stage[t] \in Running, Rollback(t)
  PROVE  TypeOK' /\ Frame(t) /\ RequestOk(t)'
<1>1. lock' \in [Id -> Tx \cup {None}] /\ stage' \in [Tx -> StageName]
  BY DEF Rollback, Release, Goto, IInv, TypeOK, StageName
<1>2. raw' \in [Tx -> [Id -> RawRow]] /\ own' \in [Tx -> [Id -> Cells \cup {None}]]
      /\ old' \in [Tx -> [Id -> Cells \cup {None}]]
  BY Shapes, Single DEF Rollback, IInv, TypeOK, RawRow
<1>3. /\ todo' \in [Tx -> SUBSET Id] /\ place' \in [Tx -> [Id -> Nat]] /\ expected' \in [Tx -> Nat]
      /\ sent' \in [Tx -> [Id -> Row \cup {None}]] /\ image' \in [Tx -> [Id -> Row \cup {None}]]
  BY Shapes, Single DEF Rollback, Forget, IInv, TypeOK
<1>4. TypeOK'
  BY <1>1, <1>2, <1>3 DEF Rollback, IInv, TypeOK, RawRow, StageName
<1>5. Frame(t)
  BY DEF Frame, Rollback, Forget, Release, Goto, IInv, TypeOK, Running, CardAssumption
<1>6. /\ stage'[t] = "failed" /\ own'[t] = Blank /\ sent'[t] = Blank /\ image'[t] = Blank
  BY DEF Rollback, Forget, Goto, IInv, TypeOK
<1>7. RequestOk(t)'
  BY <1>6 DEF RequestOk, Stages, RowOk, Known, Holds, CardOk, BatchOk, UndoOk, Blank, Running
<1> QED BY <1>4, <1>5, <1>7

LEMMA OpenCardKeeps ==
  ASSUME CardAssumption, IInv, NEW t \in Tx, NEW rows \in (SUBSET Id) \ {{}}, NEW order \in Orders(rows),
         NEW change \in [rows -> Change], NEW known \in SUBSET rows,
         OpenCard(t, rows, order, change, known)
  PROVE  TypeOK' /\ Frame(t) /\ RequestOk(t)'
<1> DEFINE r == [x \in Id |-> IF x \in rows THEN change[x] ELSE Nothing]
           p == [x \in Id |-> IF x \in rows THEN order[x] ELSE 0]
           v == [x \in Id |-> IF x \in known THEN row[x] ELSE None]
<1>1. r \in [Id -> RawRow] /\ \A x \in rows : r[x] # Nothing
  BY Shapes DEF CardAssumption, RawRow, Nothing
<1>2. p \in [Id -> Nat]
  BY DEF Orders
<1>3. v \in [Id -> Row \cup {None}] /\ \A x \in Id : v[x] = None \/ v[x] = row[x]
  BY DEF IInv, TypeOK
<1>4. /\ stage' = [stage EXCEPT ![t] = "open"] /\ kind' = [kind EXCEPT ![t] = "save"]
      /\ raw' = [raw EXCEPT ![t] = r] /\ todo' = [todo EXCEPT ![t] = rows]
      /\ place' = [place EXCEPT ![t] = p] /\ sent' = [sent EXCEPT ![t] = v]
      /\ UNCHANGED <<row, lock, expected, of, image, own, old>> /\ stage[t] = "new"
  BY DEF OpenCard, Goto
<1> HIDE DEF r, p, v
<1>5. TypeOK'
  <2>1. raw' \in [Tx -> [Id -> RawRow]] /\ place' \in [Tx -> [Id -> Nat]]
        /\ sent' \in [Tx -> [Id -> Row \cup {None}]]
    BY <1>1, <1>2, <1>3, <1>4, Single DEF IInv, TypeOK, RawRow
  <2>2. stage' \in [Tx -> StageName] /\ todo' \in [Tx -> SUBSET Id]
    BY <1>4 DEF IInv, TypeOK, StageName
  <2> QED BY <1>4, <2>1, <2>2 DEF IInv, TypeOK, RawRow, StageName
<1>6. Frame(t)
  BY <1>4 DEF Frame, IInv, TypeOK
<1>7. /\ stage'[t] = "open" /\ kind'[t] = "save" /\ raw'[t] = r /\ todo'[t] = rows /\ sent'[t] = v
      /\ own'[t] = own[t] /\ image'[t] = image[t]
  BY <1>4 DEF IInv, TypeOK
<1>8. ASSUME NEW x \in Id PROVE RowOk(t, x)'
  <2>1. own[t][x] = None /\ image[t][x] = None
    BY <1>4 DEF IInv, RequestOk, RowOk
  <2>2. row[x].version \in Nat /\ row' = row
    BY <1>4 DEF IInv, TypeOK, Row
  <2>3. Known(x, sent[t][x])' /\ Known(x, image[t][x])'
    BY <1>3, <1>7, <2>1, <2>2 DEF Known
  <2>4. (x \in todo[t] => x \in Asks(t))'
    BY <1>1, <1>7 DEF Asks
  <2> QED BY <1>7, <2>1, <2>3, <2>4 DEF RowOk, Holds, CardOk, BatchOk, UndoOk, Running
<1>9. Stages(t)'
  BY <1>7 DEF Stages, Running
<1> QED BY <1>5, <1>6, <1>8, <1>9 DEF RequestOk

LEMMA CaptureKeeps ==
  ASSUME CardAssumption, IInv, NEW t \in Tx, Capture(t)
  PROVE  TypeOK' /\ Frame(t) /\ RequestOk(t)'
<1> DEFINE v == [x \in Id |-> IF x \in Asks(t) THEN row[x] ELSE None]
<1>1. v \in [Id -> Row \cup {None}] /\ \A x \in Id : v[x] = IF x \in Asks(t) THEN row[x] ELSE None
  BY DEF IInv, TypeOK
<1>2. /\ stage' = [stage EXCEPT ![t] = "save"] /\ image' = [image EXCEPT ![t] = v]
      /\ UNCHANGED <<row, lock, todo, own, old, kind, raw, place, sent, expected, of>>
      /\ stage[t] = "open" /\ kind[t] = "save"
  BY DEF Capture, Goto, asked
<1> HIDE DEF v
<1>3. TypeOK'
  <2>1. image' \in [Tx -> [Id -> Row \cup {None}]]
    BY <1>1, <1>2, Single DEF IInv, TypeOK
  <2>2. stage' \in [Tx -> StageName]
    BY <1>2 DEF IInv, TypeOK, StageName, Running
  <2> QED BY <1>2, <2>1, <2>2 DEF IInv, TypeOK, StageName
<1>4. Frame(t)
  BY <1>2 DEF Frame, IInv, TypeOK
<1>5. stage'[t] = "save" /\ image'[t] = v
  BY <1>2 DEF IInv, TypeOK
<1>6. ASSUME NEW x \in Id PROVE RowOk(t, x)'
  <2>1. /\ own[t][x] = None /\ Known(x, sent[t][x])
        /\ x \in todo[t] => x \in Asks(t)
    BY <1>2 DEF IInv, RequestOk, RowOk, CardOk
  <2>2. row[x] \in Row /\ row[x] # None /\ row[x].version \in Nat
    BY DEF IInv, TypeOK, CardAssumption, Row
  <2> QED BY <1>1, <1>2, <1>5, <2>1, <2>2
          DEF RowOk, Known, Holds, CardOk, BatchOk, UndoOk, Asks, Running
<1>7. Stages(t)'
  BY <1>2, <1>5 DEF Stages, Running
<1> QED BY <1>3, <1>4, <1>6, <1>7 DEF RequestOk

LEMMA SaveRowKeeps ==
  ASSUME CardAssumption, IInv, NEW t \in Tx, NEW x \in Id, SaveRow(t, x)
  PROVE  TypeOK' /\ Frame(t) /\ RequestOk(t)'
<1>1. CASE Rollback(t)
  <2>1. stage[t] \in Running
    BY DEF SaveRow, Running
  <2> QED BY <1>1, <2>1, RollbackKeeps
<1>2. CASE ~Rollback(t)
  <2> DEFINE c == IF Differs(x, raw[t][x]) THEN Changed(row[x].cells, raw[t][x]) ELSE None
             g == IF todo[t] = {x} THEN "commit" ELSE "save"
  <2>1. /\ lock' = [lock EXCEPT ![x] = t] /\ todo' = [todo EXCEPT ![t] = todo[t] \ {x}]
        /\ own' = [own EXCEPT ![t][x] = c] /\ old' = [old EXCEPT ![t][x] = row[x].cells]
        /\ stage' = [stage EXCEPT ![t] = g]
        /\ UNCHANGED <<row, image, kind, raw, place, sent, expected, of>>
        /\ stage[t] = "save" /\ x \in todo[t] /\ lock[x] \in {None, t} /\ ~Stale(t, x)
    BY <1>2 DEF SaveRow, Take, Goto, asked, NextRow, Free
  <2>2. c \in Cells \cup {None} /\ row[x].cells \in Cells /\ g \in {"commit", "save"}
    <3>1. row[x].cells \in Cells /\ raw[t][x] \in RawRow
      BY DEF IInv, TypeOK, Row, RawRow
    <3> QED BY <3>1, ChangedType
  <2> HIDE DEF c, g
  <2>3. TypeOK'
    <3>1. own' \in [Tx -> [Id -> Cells \cup {None}]] /\ old' \in [Tx -> [Id -> Cells \cup {None}]]
      BY <2>1, <2>2, Nested DEF IInv, TypeOK
    <3>2. stage' \in [Tx -> StageName] /\ lock' \in [Id -> Tx \cup {None}] /\ todo' \in [Tx -> SUBSET Id]
      BY <2>1, <2>2 DEF IInv, TypeOK, StageName, Running
    <3> QED BY <2>1, <3>1, <3>2 DEF IInv, TypeOK, StageName
  <2>4. Frame(t)
    BY <2>1 DEF Frame, IInv, TypeOK, CardAssumption
  <2>5. /\ stage'[t] = g /\ todo'[t] = todo[t] \ {x} /\ lock'[x] = t
        /\ own'[t][x] = c /\ old'[t][x] = row[x].cells
        /\ \A y \in Id \ {x} : own'[t][y] = own[t][y] /\ old'[t][y] = old[t][y] /\ lock'[y] = lock[y]
    BY <2>1 DEF IInv, TypeOK
  <2>6. kind[t] = "save" /\ \A y \in Id : RowOk(t, y)
    BY <2>1 DEF IInv, RequestOk, Stages
  <2>7. ASSUME NEW y \in Id PROVE RowOk(t, y)'
    <3>1. Known(y, sent[t][y])' /\ Known(y, image[t][y])'
      BY <2>1, <2>6 DEF RowOk, Known
    <3>2. CASE y = x
      BY <2>1, <2>2, <2>5, <2>6, <3>1, <3>2
         DEF RowOk, Holds, CardOk, BatchOk, UndoOk, Running, Stale
    <3>3. CASE y # x
      BY <2>1, <2>2, <2>5, <2>6, <3>1, <3>3
         DEF RowOk, Holds, CardOk, BatchOk, UndoOk, Running
    <3> QED BY <3>2, <3>3
  <2>8. Stages(t)'
    BY <2>1, <2>2, <2>5, <2>6 DEF Stages, Running
  <2> QED BY <2>3, <2>4, <2>7, <2>8 DEF RequestOk
<1> QED BY <1>1, <1>2

LEMMA PreviewKeeps ==
  ASSUME CardAssumption, IInv, NEW t \in Tx, NEW first \in SUBSET Id, NEW second \in SUBSET Id,
         NEW one \in Change, NEW other \in Change, Preview(t, first, second, one, other)
  PROVE  TypeOK' /\ Frame(t) /\ RequestOk(t)'
<1> DEFINE rows == first \cup second
           change == [x \in rows |-> IF x \in first THEN one ELSE other]
           r == [x \in Id |-> IF x \in rows THEN change[x] ELSE Nothing]
           p == [x \in Id |-> Place(IF x \in second THEN 2 ELSE 1, x)]
           n == Cardinality({x \in rows : Differs(x, change[x])})
<1>1. r \in [Id -> RawRow] /\ \A x \in Id : x \notin rows => r[x] = Nothing
  BY Shapes DEF CardAssumption, RawRow
<1>2. p \in [Id -> Nat]
  BY DEF Place, ById, Id, CardAssumption
<1>3. n \in Nat
  <2>1. IsFiniteSet(Id)
    BY FS_Interval DEF Id, CardAssumption
  <2>2. IsFiniteSet({x \in rows : Differs(x, change[x])})
    BY <2>1, FS_Subset
  <2> QED BY <2>2, FS_CardinalityType
<1>4. /\ stage' = [stage EXCEPT ![t] = "apply"] /\ kind' = [kind EXCEPT ![t] = "batch"]
      /\ raw' = [raw EXCEPT ![t] = r] /\ todo' = [todo EXCEPT ![t] = rows]
      /\ place' = [place EXCEPT ![t] = p] /\ expected' = [expected EXCEPT ![t] = n]
      /\ UNCHANGED <<row, lock, sent, of, image, own, old>> /\ stage[t] = "new"
  BY DEF Preview, Goto
<1>0. rows \in SUBSET Id
  OBVIOUS
<1> HIDE DEF r, p, n, rows
<1>5. TypeOK'
  <2>1. raw' \in [Tx -> [Id -> RawRow]] /\ place' \in [Tx -> [Id -> Nat]] /\ expected' \in [Tx -> Nat]
    BY <1>1, <1>2, <1>3, <1>4, Single DEF IInv, TypeOK, RawRow
  <2>2. stage' \in [Tx -> StageName] /\ todo' \in [Tx -> SUBSET Id]
    BY <1>0, <1>4 DEF IInv, TypeOK, StageName, Running
  <2> QED BY <1>4, <2>1, <2>2 DEF IInv, TypeOK, RawRow, StageName
<1>6. Frame(t)
  BY <1>4 DEF Frame, IInv, TypeOK
<1>7. stage'[t] = "apply" /\ kind'[t] = "batch" /\ raw'[t] = r /\ todo'[t] = rows
  BY <1>4 DEF IInv, TypeOK
<1>8. ASSUME NEW x \in Id PROVE RowOk(t, x)'
  <2>1. RowOk(t, x) /\ own[t][x] = None /\ image[t][x] = None
    BY <1>4 DEF IInv, RequestOk, RowOk
  <2> QED BY <1>1, <1>4, <1>7, <2>1
          DEF RowOk, Known, Holds, CardOk, BatchOk, UndoOk, Asks, Running
<1>9. Stages(t)'
  BY <1>7 DEF Stages, Running
<1> QED BY <1>5, <1>6, <1>8, <1>9 DEF RequestOk

LEMMA LockRowKeeps ==
  ASSUME CardAssumption, IInv, NEW t \in Tx, NEW x \in Id, LockRow(t, x)
  PROVE  TypeOK' /\ Frame(t) /\ RequestOk(t)'
<1>1. /\ lock' = [lock EXCEPT ![x] = t] /\ todo' = [todo EXCEPT ![t] = todo[t] \ {x}]
      /\ old' = [old EXCEPT ![t][x] = row[x].cells]
      /\ UNCHANGED <<row, stage, image, own, kind, raw, place, sent, expected, of>>
      /\ stage[t] = "apply" /\ lock[x] \in {None, t}
  BY DEF LockRow, Take, asked, Free
<1>2. row[x].cells \in Cells
  BY DEF IInv, TypeOK, Row
<1>3. TypeOK'
  <2>1. old' \in [Tx -> [Id -> Cells \cup {None}]]
    BY <1>1, <1>2, Nested DEF IInv, TypeOK
  <2>2. lock' \in [Id -> Tx \cup {None}] /\ todo' \in [Tx -> SUBSET Id]
    BY <1>1 DEF IInv, TypeOK
  <2> QED BY <1>1, <2>1, <2>2 DEF IInv, TypeOK
<1>4. Frame(t)
  BY <1>1 DEF Frame, IInv, TypeOK, CardAssumption
<1>5. /\ todo'[t] = todo[t] \ {x} /\ lock'[x] = t /\ old'[t][x] = row[x].cells
      /\ \A y \in Id \ {x} : old'[t][y] = old[t][y] /\ lock'[y] = lock[y]
  BY <1>1 DEF IInv, TypeOK
<1>6. kind[t] = "batch" /\ \A y \in Id : RowOk(t, y)
  BY <1>1 DEF IInv, RequestOk, Stages
<1>7. ASSUME NEW y \in Id PROVE RowOk(t, y)'
  <2>1. Known(y, sent[t][y])' /\ Known(y, image[t][y])' /\ own[t][y] = None
    BY <1>1, <1>6 DEF RowOk, Known, BatchOk
  <2> QED BY <1>1, <1>5, <1>6, <2>1
          DEF RowOk, Holds, CardOk, BatchOk, UndoOk, Running, Asks
<1>8. Stages(t)'
  BY <1>1, <1>6 DEF Stages, Running
<1> QED BY <1>3, <1>4, <1>7, <1>8 DEF RequestOk

LEMMA ApplyKeeps ==
  ASSUME CardAssumption, IInv, NEW t \in Tx, Apply(t)
  PROVE  TypeOK' /\ Frame(t) /\ RequestOk(t)'
<1>1. CASE Rollback(t)
  <2>1. stage[t] \in Running
    BY DEF Apply, Running
  <2> QED BY <1>1, <2>1, RollbackKeeps
<1>2. CASE ~Rollback(t)
  <2> DEFINE rows == {x \in Asks(t) : Changed(old[t][x], raw[t][x]) # old[t][x]}
             v == [x \in Id |-> IF x \in rows THEN Changed(old[t][x], raw[t][x]) ELSE None]
  <2>1. /\ own' = [own EXCEPT ![t] = v] /\ stage' = [stage EXCEPT ![t] = "commit"]
        /\ UNCHANGED <<row, lock, todo, image, old, kind, raw, place, sent, expected, of>>
        /\ stage[t] = "apply" /\ todo[t] = {}
    BY <1>2 DEF Apply, Goto, asked
  <2>2. \A x \in Asks(t) : lock[x] = t /\ old[t][x] = row[x].cells /\ old[t][x] \in Cells
    BY <2>1 DEF IInv, RequestOk, RowOk, BatchOk, Asks, TypeOK, Row
  <2>3. /\ v \in [Id -> Cells \cup {None}]
        /\ \A x \in Id : v[x] # None => x \in Asks(t)
    <3>1. \A x \in Id : raw[t][x] \in RawRow
      BY DEF IInv, TypeOK, RawRow
    <3>2. \A x \in rows : x \in Id /\ x \in Asks(t) /\ Changed(old[t][x], raw[t][x]) \in Cells
      BY <2>2, <3>1, ChangedType DEF Asks
    <3> HIDE DEF rows
    <3> QED BY <3>2
  <2> HIDE DEF v, rows
  <2>4. TypeOK'
    <3>1. own' \in [Tx -> [Id -> Cells \cup {None}]]
      BY <2>1, <2>3, Single DEF IInv, TypeOK
    <3>2. stage' \in [Tx -> StageName]
      BY <2>1 DEF IInv, TypeOK, StageName, Running
    <3> QED BY <2>1, <3>1, <3>2 DEF IInv, TypeOK, StageName
  <2>5. Frame(t)
    BY <2>1 DEF Frame, IInv, TypeOK
  <2>6. stage'[t] = "commit" /\ own'[t] = v
    BY <2>1 DEF IInv, TypeOK
  <2>7. kind[t] = "batch" /\ \A x \in Id : RowOk(t, x)
    BY <2>1 DEF IInv, RequestOk, Stages
  <2>8. ASSUME NEW x \in Id PROVE RowOk(t, x)'
    <3>1. Known(x, sent[t][x])' /\ Known(x, image[t][x])'
      BY <2>1, <2>7 DEF RowOk, Known
    <3> QED BY <2>1, <2>2, <2>3, <2>6, <2>7, <3>1
            DEF RowOk, Holds, CardOk, BatchOk, UndoOk, Running
  <2>9. Stages(t)'
    BY <2>1, <2>6, <2>7 DEF Stages, Running
  <2> QED BY <2>4, <2>5, <2>8, <2>9 DEF RequestOk
<1> QED BY <1>1, <1>2

LEMMA BeginUndoKeeps ==
  ASSUME CardAssumption, IInv, NEW t \in Tx, NEW b \in Tx, BeginUndo(t, b)
  PROVE  TypeOK' /\ Frame(t) /\ RequestOk(t)'
<1> DEFINE r == [x \in Id |-> IF x \in Wrote(b) THEN Reverted(b, x) ELSE Nothing]
           p == [x \in Id |-> ById(x)]
<1>1. r \in [Id -> RawRow]
  <2>1. \A x \in Wrote(b) : old[b][x] \in Cells
    BY DEF Wrote, BeginUndo, IInv, RequestOk, RowOk, BatchOk
  <2>2. \A x \in Wrote(b) : Reverted(b, x) \in RawRow
    BY <2>1 DEF Reverted, RawRow, Cells
  <2> QED BY <2>2, Shapes
<1>2. p \in [Id -> Nat]
  BY DEF ById, Id, CardAssumption
<1>3. /\ stage' = [stage EXCEPT ![t] = "compare"] /\ kind' = [kind EXCEPT ![t] = "undo"]
      /\ of' = [of EXCEPT ![t] = b]
      /\ raw' = [raw EXCEPT ![t] = r] /\ todo' = [todo EXCEPT ![t] = Wrote(b)]
      /\ place' = [place EXCEPT ![t] = p]
      /\ UNCHANGED <<row, lock, sent, expected, image, own, old>>
      /\ stage[t] = "new" /\ stage[b] = "done"
  BY DEF BeginUndo, Goto
<1> HIDE DEF r, p
<1>4. TypeOK'
  <2>1. raw' \in [Tx -> [Id -> RawRow]] /\ place' \in [Tx -> [Id -> Nat]]
    BY <1>1, <1>2, <1>3, Single DEF IInv, TypeOK, RawRow
  <2>2. stage' \in [Tx -> StageName] /\ todo' \in [Tx -> SUBSET Id]
    BY <1>3 DEF IInv, TypeOK, StageName, Running, Wrote
  <2> QED BY <1>3, <2>1, <2>2 DEF IInv, TypeOK, RawRow, StageName
<1>5. Frame(t)
  BY <1>3 DEF Frame, IInv, TypeOK
<1>6. stage'[t] = "compare" /\ kind'[t] = "undo" /\ of'[t] = b /\ stage'[b] = "done"
  BY <1>3 DEF IInv, TypeOK
<1>7. ASSUME NEW x \in Id PROVE RowOk(t, x)'
  <2>1. RowOk(t, x) /\ own[t][x] = None /\ image[t][x] = None
    BY <1>3 DEF IInv, RequestOk, RowOk
  <2> QED BY <1>3, <1>6, <2>1 DEF RowOk, Known, Holds, CardOk, BatchOk, UndoOk, Running
<1>8. Stages(t)'
  BY <1>6 DEF Stages, Running
<1> QED BY <1>4, <1>5, <1>7, <1>8 DEF RequestOk

LEMMA CompareKeeps ==
  ASSUME CardAssumption, IInv, NEW t \in Tx, NEW x \in Id, Compare(t, x)
  PROVE  TypeOK' /\ Frame(t) /\ RequestOk(t)'
<1>1. /\ UNCHANGED <<row, lock, own, old, kind, raw, place, sent, expected, of>>
      /\ stage[t] = "compare"
      /\ \/ todo' = [todo EXCEPT ![t] = todo[t] \ {x}] /\ UNCHANGED <<stage, image>>
         \/ /\ ~Conflict(t, x) /\ image' = [image EXCEPT ![t][x] = row[x]]
            /\ stage' = [stage EXCEPT ![t] = "restore"] /\ UNCHANGED todo
  BY DEF Compare, Goto, asked
<1>2. kind[t] = "undo" /\ row[x] \in Row /\ \A y \in Id : RowOk(t, y)
  BY <1>1 DEF IInv, RequestOk, Stages, TypeOK
<1>3. TypeOK'
  <2>1. image \in [Tx -> [Id -> Row \cup {None}]] /\ stage \in [Tx -> StageName] /\ todo \in [Tx -> SUBSET Id]
    BY DEF IInv, TypeOK, StageName
  <2>2. image' \in [Tx -> [Id -> Row \cup {None}]]
    <3>1. [image EXCEPT ![t][x] = row[x]] \in [Tx -> [Id -> Row \cup {None}]]
      BY <1>2, <2>1, Nested
    <3> QED BY <1>1, <2>1, <3>1
  <2>3. stage' \in [Tx -> StageName]
    BY <1>1, <2>1 DEF StageName, Running
  <2>4. todo' \in [Tx -> SUBSET Id]
    BY <1>1, <2>1
  <2> QED BY <1>1, <2>2, <2>3, <2>4 DEF IInv, TypeOK, StageName
<1>4. Frame(t)
  BY <1>1 DEF Frame, IInv, TypeOK
<1>5. /\ stage'[t] \in {"compare", "restore"}
      /\ \A y \in Id \ {x} : image'[t][y] = image[t][y]
      /\ image'[t][x] = image[t][x] \/ (image'[t][x] = row[x] /\ ~Conflict(t, x))
  BY <1>1 DEF IInv, TypeOK
<1>6. ASSUME NEW y \in Id PROVE RowOk(t, y)'
  <2>1. CASE image'[t][y] = image[t][y]
    BY <1>1, <1>2, <1>5, <2>1
       DEF RowOk, Known, Holds, CardOk, BatchOk, UndoOk, Running, Columns
  <2>2. CASE y = x /\ image'[t][x] = row[x] /\ ~Conflict(t, x)
    <3>1. row[x].version \in Nat
      BY <1>2 DEF Row
    <3> QED BY <1>1, <1>2, <1>5, <2>2, <3>1
            DEF RowOk, Known, Holds, CardOk, BatchOk, UndoOk, Running, Columns, Conflict
  <2> QED BY <1>5, <2>1, <2>2
<1>7. Stages(t)'
  BY <1>1, <1>2, <1>5 DEF IInv, RequestOk, Stages, Running, TypeOK
<1> QED BY <1>3, <1>4, <1>6, <1>7 DEF RequestOk

LEMMA RestoreKeeps ==
  ASSUME CardAssumption, IInv, NEW t \in Tx, NEW x \in Id, Restore(t, x)
  PROVE  TypeOK' /\ Frame(t) /\ RequestOk(t)'
<1> DEFINE c == Changed(row[x].cells, raw[t][x])
<1>1. /\ lock' = [lock EXCEPT ![x] = t] /\ todo' = [todo EXCEPT ![t] = todo[t] \ {x}]
      /\ own' = [own EXCEPT ![t][x] = c] /\ old' = [old EXCEPT ![t][x] = own[of[t]][x]]
      /\ stage' = [stage EXCEPT ![t] = "compare"]
      /\ UNCHANGED <<row, image, kind, raw, place, sent, expected, of>>
      /\ stage[t] = "restore" /\ lock[x] \in {None, t}
  BY DEF Restore, Take, Goto, asked, Free
<1>2. /\ kind[t] = "undo" /\ of[t] \in Tx /\ stage[of[t]] = "done" /\ of[t] # t
      /\ \A y \in Id : RowOk(t, y)
  BY <1>1 DEF IInv, RequestOk, Stages, Running
<1>3. c \in Cells
  <2>1. row[x].cells \in Cells /\ raw[t][x] \in RawRow
    BY DEF IInv, TypeOK, Row, RawRow
  <2> QED BY <2>1, ChangedType
<1> HIDE DEF c
<1>4. TypeOK'
  <2>1. own[of[t]][x] \in Cells \cup {None}
    BY <1>2 DEF IInv, TypeOK
  <2>2. own' \in [Tx -> [Id -> Cells \cup {None}]] /\ old' \in [Tx -> [Id -> Cells \cup {None}]]
    BY <1>1, <1>3, <2>1, Nested DEF IInv, TypeOK
  <2>3. stage' \in [Tx -> StageName] /\ lock' \in [Id -> Tx \cup {None}] /\ todo' \in [Tx -> SUBSET Id]
    BY <1>1 DEF IInv, TypeOK, StageName, Running
  <2> QED BY <1>1, <2>2, <2>3 DEF IInv, TypeOK, StageName
<1>5. Frame(t)
  BY <1>1 DEF Frame, IInv, TypeOK, CardAssumption
<1>6. /\ stage'[t] = "compare" /\ lock'[x] = t
      /\ own'[t][x] = c /\ old'[t][x] = own[of[t]][x] /\ own'[of[t]] = own[of[t]] /\ stage'[of[t]] = "done"
      /\ \A y \in Id \ {x} : own'[t][y] = own[t][y] /\ old'[t][y] = old[t][y] /\ lock'[y] = lock[y]
  BY <1>1, <1>2 DEF IInv, TypeOK
<1>7. ASSUME NEW y \in Id PROVE RowOk(t, y)'
  <2>1. Known(y, sent[t][y])' /\ Known(y, image[t][y])'
    BY <1>1, <1>2 DEF RowOk, Known
  <2>2. CASE y = x
    BY <1>1, <1>2, <1>3, <1>6, <2>1, <2>2
       DEF RowOk, Holds, CardOk, BatchOk, UndoOk, Running, Columns
  <2>3. CASE y # x
    BY <1>1, <1>2, <1>3, <1>6, <2>1, <2>3
       DEF RowOk, Holds, CardOk, BatchOk, UndoOk, Running, Columns
  <2> QED BY <2>2, <2>3
<1>8. Stages(t)'
  BY <1>1, <1>2, <1>6 DEF Stages, Running
<1> QED BY <1>4, <1>5, <1>7, <1>8 DEF RequestOk

LEMMA EndUndoKeeps ==
  ASSUME CardAssumption, IInv, NEW t \in Tx, EndUndo(t)
  PROVE  TypeOK' /\ Frame(t) /\ RequestOk(t)'
<1>1. /\ stage' = [stage EXCEPT ![t] = "commit"] /\ stage[t] = "compare"
      /\ UNCHANGED <<row, lock, todo, image, own, old, kind, raw, place, sent, expected, of>>
  BY DEF EndUndo, Goto, asked
<1>2. kind[t] = "undo" /\ stage'[t] = "commit" /\ \A y \in Id : RowOk(t, y)
  BY <1>1 DEF IInv, RequestOk, Stages, TypeOK
<1>3. TypeOK'
  BY <1>1 DEF IInv, TypeOK, Running
<1>4. Frame(t)
  BY <1>1 DEF Frame, IInv, TypeOK
<1>5. ASSUME NEW y \in Id PROVE RowOk(t, y)'
  BY <1>1, <1>2 DEF RowOk, Known, Holds, CardOk, BatchOk, UndoOk, Running, Columns
<1>6. Stages(t)'
  BY <1>1, <1>2 DEF IInv, RequestOk, Stages, Running, TypeOK
<1> QED BY <1>3, <1>4, <1>5, <1>6 DEF RequestOk

LEMMA CommitKeeps ==
  ASSUME CardAssumption, IInv, NEW t \in Tx, Commit(t)
  PROVE  TypeOK' /\ Frame(t) /\ RequestOk(t)'
<1>1. /\ stage' = [stage EXCEPT ![t] = "done"] /\ stage[t] = "commit"
      /\ row' = [x \in Id |-> IF x \in Wrote(t) THEN [version |-> row[x].version + 1, cells |-> own[t][x]]
                                                ELSE row[x]]
      /\ lock' = [x \in Id |-> IF lock[x] = t THEN None ELSE lock[x]]
      /\ todo' = [todo EXCEPT ![t] = {}] /\ place' = [place EXCEPT ![t] = [x \in Id |-> 0]]
      /\ sent' = [sent EXCEPT ![t] = Blank] /\ expected' = [expected EXCEPT ![t] = 0]
      /\ image' = [image EXCEPT ![t] = Blank]
      /\ raw' = [raw EXCEPT ![t] = IF kind[t] = "batch" THEN raw[t] ELSE Untouched]
      /\ own' = [own EXCEPT ![t] = IF kind[t] = "batch" THEN own[t] ELSE Blank]
      /\ old' = [old EXCEPT ![t] = IF kind[t] = "batch" THEN old[t] ELSE Blank]
      /\ UNCHANGED <<kind, of>>
  BY DEF Commit, Goto, Release, Forget
<1>2. \A x \in Wrote(t) : x \in Id /\ lock[x] = t /\ own[t][x] \in Cells
  BY <1>1 DEF IInv, RequestOk, RowOk, Holds, Wrote, TypeOK, Running
<1>3. TypeOK'
  <2>1. row' \in [Id -> Row]
    BY <1>1, <1>2 DEF IInv, TypeOK, Row
  <2>2. lock' \in [Id -> Tx \cup {None}] /\ stage' \in [Tx -> StageName] /\ todo' \in [Tx -> SUBSET Id]
        /\ expected' \in [Tx -> Nat]
    BY <1>1 DEF IInv, TypeOK, StageName
  <2>3. /\ place' \in [Tx -> [Id -> Nat]]
        /\ sent' \in [Tx -> [Id -> Row \cup {None}]] /\ image' \in [Tx -> [Id -> Row \cup {None}]]
    BY <1>1, Shapes, Single DEF IInv, TypeOK
  <2>4. /\ raw' \in [Tx -> [Id -> RawRow]]
        /\ own' \in [Tx -> [Id -> Cells \cup {None}]] /\ old' \in [Tx -> [Id -> Cells \cup {None}]]
    BY <1>1, Shapes DEF IInv, TypeOK, RawRow
  <2> QED BY <1>1, <2>1, <2>2, <2>3, <2>4 DEF IInv, TypeOK, RawRow, StageName
<1>4. Frame(t)
  <2>1. \A x \in Id : row'[x] = row[x] \/ (lock[x] = t /\ row'[x].version = row[x].version + 1)
    BY <1>1, <1>2
  <2>2. \A s \in Tx \ {t}, x \in Id : lock[x] = s => lock'[x] = s
    BY <1>1
  <2> QED BY <1>1, <2>1, <2>2 DEF Frame, IInv, TypeOK
<1>5. /\ stage'[t] = "done" /\ sent'[t] = Blank /\ image'[t] = Blank
      /\ kind[t] = "batch" => own'[t] = own[t] /\ old'[t] = old[t]
      /\ kind[t] # "batch" => own'[t] = Blank
  BY <1>1 DEF IInv, TypeOK
<1>6. ASSUME NEW x \in Id PROVE RowOk(t, x)'
  <2>1. RowOk(t, x)
    BY DEF IInv, RequestOk
  <2> QED BY <1>1, <1>5, <2>1 DEF RowOk, Known, Holds, CardOk, BatchOk, UndoOk, Running, Blank
<1>7. Stages(t)'
  BY <1>5 DEF Stages, Running
<1> QED BY <1>3, <1>4, <1>6, <1>7 DEF RequestOk

-----------------------------------------------------------------------------
(* The theorems.                                                           *)

\* The invariant holds at first and after every step.
LEMMA InvariantInit == ASSUME CardAssumption, Init PROVE IInv
<1>1. TypeOK
  <2>1. [f \in Field |-> First] \in Cells /\ 0 \in Nat
    BY DEF CardAssumption, Cells
  <2>2. row \in [Id -> Row]
    BY <2>1 DEF Init, Row
  <2> QED BY <2>2, Shapes DEF Init, TypeOK, Blank, RawRow, Running
<1>2. ASSUME NEW t \in Tx PROVE RequestOk(t)
  BY DEF Init, RequestOk, Stages, RowOk, Known, Holds, CardOk, BatchOk, UndoOk, Running, Blank
<1> QED BY <1>1, <1>2 DEF IInv

LEMMA InvariantStep ==
  ASSUME CardAssumption, IInv, [Next]_vars PROVE IInv'
<1>1. ASSUME NEW t \in Tx, Begin(t) \/ Advance(t) PROVE IInv'
  <2>1. TypeOK' /\ Frame(t) /\ RequestOk(t)'
    <3>1. CASE Begin(t)
      BY <3>1, OpenCardKeeps, PreviewKeeps, BeginUndoKeeps DEF Begin
    <3>2. CASE Fail(t)
      BY <3>2, RollbackKeeps DEF Fail
    <3>3. CASE Capture(t) \/ Apply(t) \/ EndUndo(t) \/ Commit(t)
      BY <3>3, CaptureKeeps, ApplyKeeps, EndUndoKeeps, CommitKeeps
    <3>4. CASE \E x \in Id : SaveRow(t, x) \/ LockRow(t, x) \/ Compare(t, x) \/ Restore(t, x)
      BY <3>4, SaveRowKeeps, LockRowKeeps, CompareKeeps, RestoreKeeps
    <3> QED BY <1>1, <3>1, <3>2, <3>3, <3>4 DEF Advance
  <2>2. \A s \in Tx \ {t} : RequestOk(s)'
    BY <2>1, Others
  <2> QED BY <2>1, <2>2 DEF IInv
<1>2. CASE UNCHANGED vars
  BY <1>2 DEF vars, asked, IInv, TypeOK, RequestOk, Stages, RowOk, Known, Holds, CardOk, BatchOk,
              UndoOk, Asks, Columns
<1> QED BY <1>1, <1>2 DEF Next

LEMMA InvariantMeans == ASSUME CardAssumption, IInv PROVE SavesSeen /\ JournalImages /\ AuditTrue
<1>1. ASSUME NEW t \in Tx, NEW x \in Id, stage[t] = "commit", x \in Wrote(t)
      PROVE  /\ RowOk(t, x) /\ Stages(t) /\ own[t][x] # None
             /\ row[x] \in Row /\ row[x].version \in Nat /\ row[x] # None
             /\ kind[t] \in {"save", "batch", "undo"}
             /\ sent[t][x] \in Row \cup {None} /\ image[t][x] \in Row \cup {None}
  BY <1>1 DEF IInv, RequestOk, Stages, TypeOK, Wrote, Row, CardAssumption
<1>2. ASSUME NEW t \in Tx, NEW x \in Id, Saving(t, x)
      PROVE  row[x] = sent[t][x] /\ row[x] = image[t][x]
  <2>1. kind[t] = "save"
    BY <1>1, <1>2 DEF Saving, RowOk
  <2> QED BY <1>1, <1>2, <2>1 DEF Saving, RowOk, CardOk, Known, Row
<1>3. AuditTrue
  BY <1>1 DEF AuditTrue, RowOk, CardOk, BatchOk, UndoOk, Columns, Running
<1> QED BY <1>2, <1>3 DEF SavesSeen, JournalImages

\* For any requests at once: rows, images, versions and stages have their shapes.
THEOREM CardTypes == ASSUME CardAssumption PROVE Spec => []TypeOK
<1>1. Init => IInv
  BY InvariantInit, CardAssumption
<1>2. IInv /\ [Next]_vars => IInv'
  BY InvariantStep, CardAssumption
<1>3. IInv => TypeOK
  BY DEF IInv
<1> QED BY <1>1, <1>2, <1>3, PTL DEF Spec

\* For any requests at once: a card that sent the version of a row overwrites the
\* row its user saw.
THEOREM SavesOverwriteSeen == ASSUME CardAssumption PROVE Spec => []SavesSeen
<1>1. Init => IInv
  BY InvariantInit, CardAssumption
<1>2. IInv /\ [Next]_vars => IInv'
  BY InvariantStep, CardAssumption
<1>3. IInv => SavesSeen
  BY InvariantMeans, CardAssumption
<1> QED BY <1>1, <1>2, <1>3, PTL DEF Spec

\* For any requests at once: the journal's image of such a row is the row that
\* is overwritten.
THEOREM ImagesAreOverwritten == ASSUME CardAssumption PROVE Spec => []JournalImages
<1>1. Init => IInv
  BY InvariantInit, CardAssumption
<1>2. IInv /\ [Next]_vars => IInv'
  BY InvariantStep, CardAssumption
<1>3. IInv => JournalImages
  BY InvariantMeans, CardAssumption
<1> QED BY <1>1, <1>2, <1>3, PTL DEF Spec

\* For any requests at once: audit_log is told the truth, but by an undo whose
\* row changed between its comparison and its UPDATE.
THEOREM AuditIsTrue == ASSUME CardAssumption PROVE Spec => []AuditTrue
<1>1. Init => IInv
  BY InvariantInit, CardAssumption
<1>2. IInv /\ [Next]_vars => IInv'
  BY InvariantStep, CardAssumption
<1>3. IInv => AuditTrue
  BY InvariantMeans, CardAssumption
<1> QED BY <1>1, <1>2, <1>3, PTL DEF Spec

-----------------------------------------------------------------------------
(* The circles.                                                            *)

\* A request that does not run holds no row; a batch and an undo come to their
\* rows in the order of their places: by id, but for the second plan of a batch.
InOrder(t) ==
  /\ stage[t] \notin Running => \A x \in Id : lock[x] # t
  /\ kind[t] # "save" /\ stage[t] \in Running =>
       \A x \in Id :
         /\ place[t][x] = x \/ (kind[t] = "batch" /\ place[t][x] = NRows + x)
         /\ lock[x] = t => \A y \in todo[t] : place[t][x] < place[t][y]

LockInv == \A t \in Tx : InOrder(t)

\* A step takes rows for its own request only.
OwnLocks(t) ==
  \A s \in Tx \ {t} :
    /\ stage'[s] = stage[s] /\ kind'[s] = kind[s] /\ todo'[s] = todo[s] /\ place'[s] = place[s]
    /\ \A x \in Id : lock'[x] = s => lock[x] = s

LEMMA OthersInOrder ==
  ASSUME LockInv, NEW t \in Tx, OwnLocks(t), NEW s \in Tx \ {t}
  PROVE  InOrder(s)'
BY DEF LockInv, OwnLocks, InOrder

LEMMA BeginInOrder ==
  ASSUME CardAssumption, IInv, LockInv, NEW t \in Tx, Begin(t)
  PROVE  OwnLocks(t) /\ InOrder(t)'
<1>1. stage[t] = "new" /\ UNCHANGED lock
  BY DEF Begin, OpenCard, Preview, BeginUndo
<1>2. \A x \in Id : lock'[x] # t
  BY <1>1 DEF LockInv, InOrder, Running
<1>3. CASE \E rows \in (SUBSET Id) \ {{}} : \E order \in Orders(rows), change \in [rows -> Change],
             known \in SUBSET rows : OpenCard(t, rows, order, change, known)
  <2>1. /\ stage' = [stage EXCEPT ![t] = "open"] /\ kind' = [kind EXCEPT ![t] = "save"]
        /\ \E r, p : todo' = [todo EXCEPT ![t] = r] /\ place' = [place EXCEPT ![t] = p]
    BY <1>3 DEF OpenCard, Goto
  <2> QED BY <1>1, <1>2, <2>1 DEF IInv, TypeOK, OwnLocks, InOrder
<1>4. CASE \E b \in Tx : BeginUndo(t, b)
  <2>1. \E r :
          /\ stage' = [stage EXCEPT ![t] = "compare"] /\ kind' = [kind EXCEPT ![t] = "undo"]
          /\ todo' = [todo EXCEPT ![t] = r] /\ place' = [place EXCEPT ![t] = [x \in Id |-> x]]
    BY <1>4 DEF BeginUndo, Goto, ById
  <2> QED BY <1>1, <1>2, <2>1 DEF IInv, TypeOK, OwnLocks, InOrder
<1>5. CASE \E first \in (SUBSET Id) \ {{}}, one, other \in Change :
             \E second \in SUBSET (Id \ first) : Preview(t, first, second, one, other)
  <2>1. \E r, p :
          /\ stage' = [stage EXCEPT ![t] = "apply"] /\ kind' = [kind EXCEPT ![t] = "batch"]
          /\ todo' = [todo EXCEPT ![t] = r] /\ place' = [place EXCEPT ![t] = p]
          /\ \A x \in Id : p[x] \in {x, NRows + x}
    <3>0. PICK first \in (SUBSET Id) \ {{}}, one \in Change, other \in Change :
            \E second \in SUBSET (Id \ first) : Preview(t, first, second, one, other)
      BY <1>5, Zenon
    <3>1. PICK second \in SUBSET (Id \ first) : Preview(t, first, second, one, other)
      BY <3>0, Zenon
    <3> DEFINE p == [x \in Id |-> Place(IF x \in second THEN 2 ELSE 1, x)]
    <3>2. \A x \in Id : p[x] \in {x, NRows + x}
      BY DEF Place, ById
    <3>3. /\ stage' = [stage EXCEPT ![t] = "apply"] /\ kind' = [kind EXCEPT ![t] = "batch"]
          /\ todo' = [todo EXCEPT ![t] = first \cup second] /\ place' = [place EXCEPT ![t] = p]
      BY <3>1, Zenon DEF Preview, Goto
    <3> HIDE DEF p
    <3> QED BY <3>2, <3>3
  <2> QED BY <1>1, <1>2, <2>1 DEF IInv, TypeOK, OwnLocks, InOrder
<1> QED BY <1>3, <1>4, <1>5 DEF Begin

LEMMA EndInOrder ==
  ASSUME IInv, LockInv, NEW t \in Tx, Rollback(t) \/ Commit(t)
  PROVE  OwnLocks(t) /\ InOrder(t)'
<1>1. /\ lock' = [x \in Id |-> IF lock[x] = t THEN None ELSE lock[x]]
      /\ \E g \in {"done", "failed"} : stage' = [stage EXCEPT ![t] = g]
      /\ todo' = [todo EXCEPT ![t] = {}] /\ place' = [place EXCEPT ![t] = [x \in Id |-> 0]]
      /\ kind' = kind
  BY DEF Rollback, Commit, Release, Forget, Goto
<1>2. \A x \in Id : lock'[x] = None \/ (lock[x] # t /\ lock'[x] = lock[x])
  BY <1>1
<1>3. None \notin Tx
  BY CardAssumption
<1> QED BY <1>1, <1>2, <1>3 DEF IInv, TypeOK, OwnLocks, InOrder, Running

LEMMA AdvanceInOrder ==
  ASSUME CardAssumption, IInv, LockInv, NEW t \in Tx, Advance(t)
  PROVE  OwnLocks(t) /\ InOrder(t)'
<1>1. /\ lock \in [Id -> Tx \cup {None}] /\ stage \in [Tx -> StageName]
      /\ todo \in [Tx -> SUBSET Id] /\ kind \in [Tx -> {"none", "save", "batch", "undo"}]
      /\ Stages(t) /\ InOrder(t) /\ Id \subseteq Int
  BY DEF IInv, TypeOK, RequestOk, LockInv, Id, StageName
\* The steps that end the request.
<1>2. CASE Rollback(t) \/ Commit(t)
  BY <1>2, EndInOrder
\* Those that take no row.
<1>3. ASSUME UNCHANGED <<lock, place, kind>>, NEW g \in Running, NEW r \in SUBSET todo[t],
             stage[t] \in Running \/ stage[t] = "open",
             stage' = [stage EXCEPT ![t] = g], todo' = [todo EXCEPT ![t] = r]
      PROVE  OwnLocks(t) /\ InOrder(t)'
  <2>1. stage'[t] = g /\ todo'[t] = r
    BY <1>1, <1>3
  <2>2. stage[t] = "open" => kind[t] = "save"
    BY <1>1 DEF Stages
  <2> QED BY <1>1, <1>3, <2>1, <2>2 DEF OwnLocks, InOrder
\* Those that take the next one.
<1>4. ASSUME NEW x \in Id, NextRow(t, x), lock' = [lock EXCEPT ![x] = t],
             todo' = [todo EXCEPT ![t] = todo[t] \ {x}], UNCHANGED <<place, kind>>,
             NEW g \in Running, stage[t] \in Running, stage' = [stage EXCEPT ![t] = g]
      PROVE  OwnLocks(t) /\ InOrder(t)'
  <2>1. OwnLocks(t)
    BY <1>1, <1>4 DEF OwnLocks
  <2>2. stage'[t] = g /\ todo'[t] = todo[t] \ {x}
    BY <1>1, <1>4
  <2>3. ASSUME kind[t] # "save", NEW y \in Id, lock'[y] = t, NEW z \in todo[t] \ {x}
        PROVE  place[t][y] < place[t][z]
    <3>1. CASE y = x
      <4>1. z \in Id /\ place[t][x] <= place[t][z]
        BY <1>1, <1>4, <2>3 DEF NextRow
      <4>2. place[t][x] \in {x, NRows + x} /\ place[t][z] \in {z, NRows + z}
        BY <1>1, <1>4, <2>3, <4>1 DEF InOrder
      <4>3. x \in 1 .. NRows /\ z \in 1 .. NRows /\ x # z /\ NRows \in Nat
        BY <2>3, <4>1 DEF Id, CardAssumption
      <4> QED BY <3>1, <4>1, <4>2, <4>3
    <3>2. CASE y # x
      BY <1>1, <1>4, <2>3, <3>2 DEF InOrder
    <3> QED BY <3>1, <3>2
  <2> QED BY <1>1, <1>4, <2>1, <2>2, <2>3 DEF InOrder
<1>5. CASE Capture(t) \/ Apply(t) \/ EndUndo(t) \/ \E x \in Id : Compare(t, x)
  <2>1. \/ Rollback(t)
        \/ /\ UNCHANGED <<lock, place, kind>> /\ stage[t] \in Running \cup {"open"}
           /\ \E g \in Running, r \in SUBSET todo[t] :
                stage' = [stage EXCEPT ![t] = g] /\ todo' = [todo EXCEPT ![t] = r]
    <3>1. todo = [todo EXCEPT ![t] = todo[t]] /\ stage = [stage EXCEPT ![t] = stage[t]]
      BY <1>1
    <3>2. CASE Capture(t)
      BY <1>1, <3>1, <3>2 DEF Capture, asked, Goto, Running
    <3>3. CASE Apply(t)
      BY <1>1, <3>1, <3>3 DEF Apply, asked, Goto, Running
    <3>4. CASE EndUndo(t)
      BY <1>1, <3>1, <3>4 DEF EndUndo, asked, Goto, Running
    <3>5. CASE \E x \in Id : Compare(t, x)
      BY <1>1, <3>1, <3>5 DEF Compare, asked, Goto, Running
    <3> QED BY <1>5, <3>2, <3>3, <3>4, <3>5
  <2> QED BY <1>2, <1>3, <2>1
<1>6. CASE \E x \in Id : SaveRow(t, x) \/ LockRow(t, x) \/ Restore(t, x)
  <2>1. \/ Rollback(t)
        \/ \E x \in Id, g \in Running :
             /\ NextRow(t, x) /\ lock' = [lock EXCEPT ![x] = t]
             /\ todo' = [todo EXCEPT ![t] = todo[t] \ {x}] /\ UNCHANGED <<place, kind>>
             /\ stage[t] \in Running /\ stage' = [stage EXCEPT ![t] = g]
    <3>1. stage = [stage EXCEPT ![t] = stage[t]]
      BY <1>1
    <3>2. ASSUME NEW x \in Id, SaveRow(t, x), ~Rollback(t)
          PROVE  \E g \in Running :
                   /\ NextRow(t, x) /\ lock' = [lock EXCEPT ![x] = t]
                   /\ todo' = [todo EXCEPT ![t] = todo[t] \ {x}] /\ UNCHANGED <<place, kind>>
                   /\ stage[t] \in Running /\ stage' = [stage EXCEPT ![t] = g]
      BY <3>2 DEF SaveRow, Take, asked, Goto, Running
    <3>3. ASSUME NEW x \in Id, LockRow(t, x)
          PROVE  \E g \in Running :
                   /\ NextRow(t, x) /\ lock' = [lock EXCEPT ![x] = t]
                   /\ todo' = [todo EXCEPT ![t] = todo[t] \ {x}] /\ UNCHANGED <<place, kind>>
                   /\ stage[t] \in Running /\ stage' = [stage EXCEPT ![t] = g]
      BY <3>1, <3>3 DEF LockRow, Take, asked, Running
    <3>4. ASSUME NEW x \in Id, Restore(t, x)
          PROVE  \E g \in Running :
                   /\ NextRow(t, x) /\ lock' = [lock EXCEPT ![x] = t]
                   /\ todo' = [todo EXCEPT ![t] = todo[t] \ {x}] /\ UNCHANGED <<place, kind>>
                   /\ stage[t] \in Running /\ stage' = [stage EXCEPT ![t] = g]
      BY <3>4 DEF Restore, Take, asked, Goto, Running
    <3> QED BY <1>6, <3>2, <3>3, <3>4
  <2> QED BY <1>2, <1>4, <2>1
<1>7. CASE Fail(t)
  BY <1>2, <1>7 DEF Fail
<1> QED BY <1>2, <1>5, <1>6, <1>7 DEF Advance

\* Of some rows one has the greatest id.
LEMMA LastRow ==
  ASSUME CardAssumption, NEW M \in SUBSET Id, M # {}
  PROVE  \E x \in M : \A y \in M : y <= x
<1> DEFINE T == {NRows - x : x \in M}
<1>1. NRows \in Nat /\ M \subseteq 1 .. NRows
  BY DEF CardAssumption, Id
<1>2. \A x \in M : NRows - x \in Nat
  BY <1>1
<1>3. T \in SUBSET Nat /\ T # {}
  BY <1>2
<1>4. \E u \in T : \A v \in T : ~(<<v, u>> \in OpToRel(<, Nat))
  BY <1>3, NatLessThanWellFounded, WFMin
<1>5. PICK x \in M : \A v \in T : ~(<<v, NRows - x>> \in OpToRel(<, Nat))
  BY <1>4
<1>6. ASSUME NEW y \in M PROVE y <= x
  <2>1. NRows - y \in Nat /\ NRows - x \in Nat /\ NRows - y \in T
    BY <1>2
  <2>2. ~(NRows - y < NRows - x)
    BY <1>5, <2>1 DEF OpToRel
  <2>3. x \in Int /\ y \in Int
    BY <1>1
  <2> QED BY <1>1, <2>2, <2>3
<1> QED BY <1>6

\* The holder of the last row of a circle waits for one before it.
LEMMA CirclesMean == ASSUME CardAssumption, IInv, LockInv PROVE CirclesNeedPlans
<1> SUFFICES ASSUME NEW s \in (SUBSET Tx) \ {{}}, Circle(s)
             PROVE  \E t \in s, x, y \in Id :
                      /\ lock[x] = t /\ NextRow(t, y) /\ x > y
                      /\ kind[t] = "save" \/ (kind[t] = "batch" /\ Plan(t, x) < Plan(t, y))
  BY DEF CirclesNeedPlans
<1> DEFINE M == {x \in Id : \E t, u \in s : Waits(t, x, u)}
<1>1. \A t \in s : \E x \in M : \E u \in s : Waits(t, x, u)
  BY DEF Circle
<1>2. PICK x \in M : \A y \in M : y <= x
  <2>1. M \in SUBSET Id
    OBVIOUS
  <2>2. PICK t \in s : TRUE
    OBVIOUS
  <2>3. \E x \in Id : \E u \in s : Waits(t, x, u)
    BY <1>1, <2>2 DEF Waits
  <2>4. M # {}
    BY <2>2, <2>3
  <2> HIDE DEF M
  <2> QED BY <2>1, <2>4, LastRow, CardAssumption
<1>3. PICK u \in s : lock[x] = u
  BY DEF Waits
<1>4. PICK y \in M, w \in s : Waits(u, y, w)
  BY <1>1
<1>5. y < x
  <2>1. lock[y] # lock[x]
    BY <1>3, <1>4 DEF Waits
  <2>2. y <= x /\ y # x /\ x \in Int /\ y \in Int
    BY <1>2, <2>1 DEF Id
  <2> QED BY <2>2
<1>6. NextRow(u, y) /\ y \in todo[u] /\ stage[u] \in Running
  BY <1>4 DEF Waits, NextRow, Running
<1>7. kind[u] = "save" \/ (kind[u] = "batch" /\ Plan(u, x) < Plan(u, y))
  <2> SUFFICES ASSUME kind[u] # "save" PROVE kind[u] = "batch" /\ Plan(u, x) < Plan(u, y)
    OBVIOUS
  <2>1. place[u][x] < place[u][y]
    BY <1>3, <1>6 DEF LockInv, InOrder
  <2>2. /\ place[u][x] = x \/ (kind[u] = "batch" /\ place[u][x] = NRows + x)
        /\ place[u][y] = y \/ (kind[u] = "batch" /\ place[u][y] = NRows + y)
    BY <1>6 DEF LockInv, InOrder
  <2>3. x \in 1 .. NRows /\ y \in 1 .. NRows /\ NRows \in Nat
    BY DEF Id, CardAssumption
  <2>4. kind[u] = "batch" /\ place[u][x] = x /\ place[u][y] = NRows + y
    BY <1>5, <2>1, <2>2, <2>3
  <2>5. place[u][x] <= NRows /\ ~(place[u][y] <= NRows)
    BY <2>3, <2>4
  <2> QED BY <2>4, <2>5 DEF Plan
<1> QED BY <1>3, <1>5, <1>6, <1>7

\* For any requests at once: they wait for each other in a circle only if a card,
\* or a batch that went from its first plan to its second, has come to its rows
\* against the order of their ids (CirclesNeedPlans: card_batch.py, apply and undo).
THEOREM CirclesNeedOrders == ASSUME CardAssumption PROVE Spec => []CirclesNeedPlans
<1>1. Init => IInv /\ LockInv
  BY InvariantInit, CardAssumption DEF Init, LockInv, InOrder, Blank, Running
<1>2. IInv /\ LockInv /\ [Next]_vars => IInv' /\ LockInv'
  <2> SUFFICES ASSUME IInv, LockInv, [Next]_vars PROVE LockInv'
    BY InvariantStep, CardAssumption
  <2>1. ASSUME UNCHANGED vars PROVE LockInv'
    BY <2>1 DEF vars, asked, LockInv, InOrder
  <2>2. ASSUME NEW t \in Tx, Begin(t) \/ Advance(t) PROVE LockInv'
    <3>1. OwnLocks(t) /\ InOrder(t)'
      BY <2>2, BeginInOrder, AdvanceInOrder, CardAssumption
    <3> QED BY <3>1, OthersInOrder DEF LockInv
  <2> QED BY <2>1, <2>2 DEF Next
<1>3. IInv /\ LockInv => CirclesNeedPlans
  BY CirclesMean, CardAssumption
<1> QED BY <1>1, <1>2, <1>3, PTL DEF Spec
=============================================================================
