----------------------------- MODULE TaskQueue ------------------------------
(***************************************************************************)
(* The background tasks of worker.py as Celery handles them: the API sends  *)
(* a task, one worker process (concurrency 1) executes one task at a time,  *)
(* and the result backend in Redis keeps a state that the API reads.        *)
(*                                                                          *)
(* A task is acknowledged when its execution begins, so a crash loses it.   *)
(* One that waits behind a long execution is delivered again when the       *)
(* broker's visibility timeout passes, and is executed once per delivery.   *)
(***************************************************************************)
EXTENDS Integers, Sequences, FiniteSets

CONSTANTS
  CalcTask,     \* tasks run_sety_calculation
  FileTask,     \* tasks build_file_job
  MaxDelivered, \* MaxDelivered[t]: bound of the deliveries of a task
  MaxLost,      \* bound: the tasks that crashes lose
  None          \* no task, no row, no answer

Task == CalcTask \cup FileTask

ASSUME TaskAssumption ==
  /\ CalcTask \cap FileTask = {} /\ None \notin Task \cup Nat \cup {"success", "error"}
  /\ MaxDelivered \in [Task -> Nat \ {0}] /\ MaxLost \in Nat

VARIABLES
  delivered, \* delivered[t]: how often the broker has had the task to deliver
  waiting,   \* waiting[t]: how many of these deliveries wait for the worker
  running,   \* the task that the worker executes
  step,      \* where it is
  state,     \* state[t]: the state of the task in the result backend
  lost       \* the tasks that a crash of the worker has lost

queueVars == <<delivered, waiting, running, step, state, lost>>

QueueInit ==
  /\ delivered = [t \in Task |-> 0]
  /\ waiting = [t \in Task |-> 0]
  /\ running = None
  /\ step = "idle"
  /\ state = [t \in Task |-> "PENDING"]
  /\ lost = {}

Goto(s) == step' = s /\ UNCHANGED <<delivered, waiting, running, state, lost>>

Arrives(t) ==
  /\ delivered' = [delivered EXCEPT ![t] = @ + 1]
  /\ waiting' = [waiting EXCEPT ![t] = @ + 1]
  /\ UNCHANGED <<running, step, state, lost>>

\* delay, apply_async: the API sends a task.
Send(t) == delivered[t] = 0 /\ Arrives(t)

\* The visibility timeout: a task that waits behind another is delivered again.
Redeliver(t) ==
  /\ running # None /\ waiting[t] > 0 /\ delivered[t] < MaxDelivered[t]
  /\ Arrives(t)

\* Mutant: the result is not kept.
RecordedNever(t, s) == state

\* The backend keeps a task's last state, and SUCCESS once it has it.
Recorded(t, s) == IF state[t] = "SUCCESS" THEN state ELSE [state EXCEPT ![t] = s]

\* An execution begins with update_state("PROGRESS").
Take(t, first) ==
  /\ running = None /\ waiting[t] > 0
  /\ waiting' = [waiting EXCEPT ![t] = @ - 1]
  /\ running' = t
  /\ step' = first
  /\ state' = Recorded(t, "PROGRESS")
  /\ UNCHANGED <<delivered, lost>>

\* It ends: the task has returned ("SUCCESS") or raised ("FAILURE").
End(s) ==
  /\ running' = None
  /\ step' = "idle"
  /\ state' = Recorded(running, s)
  /\ UNCHANGED <<delivered, waiting, lost>>

\* The worker crashes and is started again.
Crash ==
  /\ running # None /\ Cardinality(lost) < MaxLost
  /\ lost' = lost \cup {running}
  /\ running' = None
  /\ step' = "idle"
  /\ UNCHANGED <<delivered, waiting, state>>

\* The execution under way, counted among those of its task.
Execution(t) == delivered[t] - waiting[t]
=============================================================================
