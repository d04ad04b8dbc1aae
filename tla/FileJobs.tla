------------------------------ MODULE FileJobs ------------------------------
(***************************************************************************)
(* Files built in the background (worker.py: build_file_job): the file and  *)
(* its description are two keys in Redis (database/file_jobs.py), which     *)
(* expire together and which a download (routers/file_jobs.py) reads one    *)
(* after the other.                                                         *)
(***************************************************************************)
EXTENDS TaskQueue

VARIABLES
  data,   \* data[t]: the execution whose file is stored, 0 when it has expired
  meta,   \* meta[t]: the execution whose description is stored
  told,   \* told[t]: the status in the result of the task
  reading \* reading[t]: the description a download has read

fileVars == <<data, meta, told, reading>>

FileInit ==
  /\ data = [t \in FileTask |-> None]
  /\ meta = [t \in FileTask |-> None]
  /\ told = [t \in FileTask |-> None]
  /\ reading = [t \in FileTask |-> None]

\* build_file_job returns a dictionary with a status.
Return(t, status) ==
  /\ End("SUCCESS")
  /\ told' = [told EXCEPT ![t] = IF state[t] = "SUCCESS" THEN @ ELSE status]

StartFile(t) == Take(t, "build") /\ UNCHANGED fileVars

\* Mutant: the result is returned before the file is stored.
BuildReturns(t) ==
  /\ running = t /\ step = "build"
  /\ Return(t, "success")
  /\ UNCHANGED <<data, meta, reading>>

\* The file is built; an error of the builder is a result too.
Build(t) ==
  /\ running = t /\ step = "build"
  /\ \/ Goto("store") /\ UNCHANGED fileVars
     \/ Return(t, "error") /\ UNCHANGED <<data, meta, reading>>

\* Mutant: the two keys are set one after the other.
StoreTorn(t) ==
  /\ running = t /\ step = "store"
  /\ IF meta[t] # Execution(t)
     THEN /\ meta' = [meta EXCEPT ![t] = Execution(t)]
          /\ UNCHANGED <<queueVars, data, told, reading>>
     ELSE /\ data' = [data EXCEPT ![t] = Execution(t)]
          /\ Return(t, "success")
          /\ UNCHANGED <<meta, reading>>

\* store_result sets both keys in one transaction with one lifetime; its error
\* is the task's.
Store(t) ==
  /\ running = t /\ step = "store"
  /\ \/ /\ data' = [data EXCEPT ![t] = Execution(t)]
        /\ meta' = [meta EXCEPT ![t] = Execution(t)]
        /\ Return(t, "success")
        /\ UNCHANGED reading
     \/ End("FAILURE") /\ UNCHANGED fileVars

\* The lifetime of the keys ends.
Expire(t) ==
  /\ data[t] \notin {None, 0}
  /\ data' = [data EXCEPT ![t] = 0]
  /\ meta' = [meta EXCEPT ![t] = None]
  /\ UNCHANGED <<queueVars, told, reading>>

\* load_result: the description.
ReadMeta(t) ==
  /\ reading[t] = None /\ meta[t] # None
  /\ reading' = [reading EXCEPT ![t] = meta[t]]
  /\ UNCHANGED <<queueVars, data, meta, told>>

\* The file: the download is answered with both, or with 404.
ReadData(t) ==
  /\ reading[t] # None
  /\ reading' = [reading EXCEPT ![t] = None]
  /\ UNCHANGED <<queueVars, data, meta, told>>

FileStep(t) == StartFile(t) \/ Build(t) \/ Store(t)
FileAside(t) == Expire(t) \/ ReadMeta(t) \/ ReadData(t)

-----------------------------------------------------------------------------

\* A download never answers with an older file than the description it has read,
\* though the task may have been executed again between the two reads.
NoOlderFile == \A t \in FileTask : reading[t] # None /\ data[t] \notin {None, 0} => reading[t] <= data[t]

\* A task that says it succeeded has stored its file: a reader who finds none
\* may be told that it has expired, whatever later executions of the task did.
SuccessHasFile == \A t \in FileTask : state[t] = "SUCCESS" /\ told[t] = "success" => data[t] # None
=============================================================================
