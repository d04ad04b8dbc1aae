------------------------------ MODULE UndoStack ------------------------------
(***************************************************************************)
(* What undo and redo promise a user, whatever the operations are: a line   *)
(* of operations with a cursor in it.  done is the part before the cursor,  *)
(* redo the part after it.  A new operation cuts off the part after the     *)
(* cursor; undo and redo move the cursor over one operation.                *)
(***************************************************************************)
EXTENDS Naturals

CONSTANTS
  Actor,  \* the users
  OpId    \* numbers the operations may get

VARIABLES done, redo

vars == <<done, redo>>

Init ==
  /\ done = [a \in Actor |-> {}]
  /\ redo = [a \in Actor |-> {}]

Do(a, i) ==
  /\ \A j \in done[a] \cup redo[a] : j < i
  /\ done' = [done EXCEPT ![a] = @ \cup {i}]
  /\ redo' = [redo EXCEPT ![a] = {}]

Undo(a, i) ==
  /\ i \in done[a] /\ \A j \in done[a] : j <= i
  /\ done' = [done EXCEPT ![a] = @ \ {i}]
  /\ redo' = [redo EXCEPT ![a] = @ \cup {i}]

Redo(a, i) ==
  /\ i \in redo[a] /\ \A j \in redo[a] : i <= j
  /\ done' = [done EXCEPT ![a] = @ \cup {i}]
  /\ redo' = [redo EXCEPT ![a] = @ \ {i}]

Next == \E a \in Actor, i \in OpId : Do(a, i) \/ Undo(a, i) \/ Redo(a, i)

Spec == Init /\ [][Next]_vars
=============================================================================
