-------------------------------- MODULE Jobs --------------------------------
(***************************************************************************)
(* Calculations and files on one worker.                                    *)
(***************************************************************************)
EXTENDS CalcJobs, FileJobs

vars == <<queueVars, calcVars, fileVars>>

Init == QueueInit /\ CalcInit /\ FileInit

\* What the worker does: it takes the tasks that wait, and goes on with one.
Work ==
  \/ CalcStep /\ UNCHANGED fileVars
  \/ \E t \in FileTask : FileStep(t) /\ UNCHANGED calcVars

\* A crash ends the run under way, its engine and its open transaction.
Restart ==
  /\ Crash
  /\ run' = NoRun
  /\ UNCHANGED <<calculation, rows, nextId, foreign, deleting, runs, protocol, fileVars>>

Next ==
  \/ Work
  \/ Restart
  \/ \E t \in Task : (Send(t) \/ Redeliver(t)) /\ UNCHANGED <<calcVars, fileVars>>
  \/ CalcAside /\ UNCHANGED fileVars
  \/ \E t \in FileTask : FileAside(t) /\ UNCHANGED calcVars

\* The worker goes on as long as it has something to do: the engine has a time
\* limit, and a worker that has crashed is started again.
Spec == Init /\ [][Next]_vars /\ WF_vars(Work)

-----------------------------------------------------------------------------

\* Every task that is sent becomes ready, however long others run before it and
\* however often it is delivered, unless a crash loses it.
TasksBecomeReady ==
  \A t \in Task : delivered[t] > 0 ~> state[t] \in {"SUCCESS", "FAILURE"} \/ t \in lost
=============================================================================
