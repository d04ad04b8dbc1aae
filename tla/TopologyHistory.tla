--------------------------- MODULE TopologyHistory ---------------------------
(***************************************************************************)
(* Undoing down to an operation of the list "history"                       *)
(* (database/topology_history.py, undo_to): one undo after the other, each  *)
(* a transaction of its own, while the same user in another tab and the     *)
(* other users go on.                                                       *)
(***************************************************************************)
EXTENDS TopologyProps

CONSTANT HistoryLimit  \* HISTORY_LIMIT, the undos of one request

ASSUME HistoryAssumption == HistoryLimit \in Nat \ {0}

VARIABLE rollback \* rollback[a]: what the request of user a has done so far

historyVars == <<vars, rollback>>

None == [target |-> 0, undone |-> {}, left |-> HistoryLimit]

HistoryInit == Init /\ rollback = [a \in Actor |-> None]

Rolling(a) == rollback[a].target # 0

\* Mutant: the loop goes on past the target.
PastTarget(q) == q.left = 0 \/ \E i \in q.undone : i < q.target

\* The loop ends.
Ended(q) == q.left = 0 \/ \E i \in q.undone : i <= q.target

\* One turn of the loop undoes operation i.
Turn(a, q, i) ==
  LET next == [q EXCEPT !.undone = @ \cup {i}, !.left = @ - 1] IN
  /\ Undo(a) /\ i \in Undoable(a)
  /\ rollback' = [rollback EXCEPT ![a] = IF Ended(next) THEN None ELSE next]

\* The first turn.  The user has picked an operation of the list, which may be an
\* old one: the operation may have been undone since.  One request at a time is
\* followed: to it, those of the other users are so many undos.
BeginRollback(a, t, i) ==
  (\A b \in Actor : ~Rolling(b)) /\ t \in Mine(a) /\ Turn(a, [None EXCEPT !.target = t], i)

RollBack(a, i) == Rolling(a) /\ Turn(a, rollback[a], i)

\* There is nothing to undo, a conflict, or the undo fails: the answer says so.
StopRollback(a) ==
  /\ Rolling(a)
  /\ rollback' = [rollback EXCEPT ![a] = None]
  /\ UNCHANGED vars

HistoryNext ==
  \/ Next /\ UNCHANGED rollback
  \/ \E a \in Actor :
       \/ \E i \in Undoable(a) : RollBack(a, i) \/ \E t \in Mine(a) : BeginRollback(a, t, i)
       \/ StopRollback(a)

HistorySpec == HistoryInit /\ [][HistoryNext]_historyVars

-----------------------------------------------------------------------------

\* complete, in the answer that ends a request: the target has been reached.
Complete(a) ==
  \E i \in rollback[a].undone \cup (DoneOf(a) \ DoneOf(a)') : i <= rollback[a].target

\* "undo the operations from the last one down to operation_id" (undo_to): a
\* request that ends with the answer complete leaves none of the user's operations
\* from the target on, whatever another tab has done meanwhile; and a request that
\* has undone its target undoes nothing older.
RollbackExact ==
  [][\A a \in Actor :
       Rolling(a) /\ rollback'[a] # rollback[a] =>
         /\ ~Rolling(a)' /\ Complete(a) => \A i \in DoneOf(a)' : i < rollback[a].target
         /\ \A i \in DoneOf(a) \ DoneOf(a)' :
              i < rollback[a].target => rollback[a].target \notin rollback[a].undone]_historyVars
=============================================================================
