----------------------------- MODULE JobsProofs -----------------------------
(***************************************************************************)
(* What calculations and files in the background keep to, for any number of *)
(* tasks, lists, deliveries, crashes and calculations of the desktop.       *)
(***************************************************************************)
EXTENDS Jobs, SequenceTheorems, WellFoundedInduction, TLAPS

USE TaskAssumption DEF TaskAssumption

-----------------------------------------------------------------------------
(* The queue.                                                              *)

States == {"PENDING", "PROGRESS", "SUCCESS", "FAILURE"}

\* An execution under way is one of those that began.
QueueInv ==
  /\ delivered \in [Task -> Nat] /\ waiting \in [Task -> Nat]
  /\ \A t \in Task : waiting[t] <= delivered[t] /\ delivered[t] <= MaxDelivered[t]
  /\ running \in Task \cup {None}
  /\ running # None => waiting[running] < delivered[running]
  /\ state \in [Task -> States]
  /\ lost \subseteq Task

\* What any step does to the queue.
QueueNext ==
  \/ UNCHANGED <<delivered, waiting, running, state, lost>>
  \/ \E t \in Task : (Send(t) \/ Redeliver(t))
  \/ \E t \in Task : \E s \in {"read", "build"} : Take(t, s)
  \/ \E s \in {"SUCCESS", "FAILURE"} : running # None /\ End(s)
  \/ Crash

LEMMA Effects ==
  ASSUME [Next]_vars
  PROVE  QueueNext
<1>1. CASE CalcStep
  <2>1. CASE \E t \in CalcTask : StartCalc(t)
    BY <2>1 DEF StartCalc, QueueNext, Task
  <2>2. CASE ReadBefore \/ EngineInsert \/ EngineCommit \/ EngineUnconnected \/ EngineSucceeds \/ EngineFails
    BY <2>2 DEF ReadBefore, EngineInsert, EngineCommit, EngineUnconnected, EngineSucceeds, EngineFails,
                Goto, QueueNext
  <2>3. CASE SaveProtocol
    <3>1. running # None
      BY <2>3 DEF SaveProtocol, Task
    <3>2. Goto("read") \/ End("SUCCESS")
      BY <2>3, Zenon DEF SaveProtocol, Proceed
    <3> QED BY <3>1, <3>2 DEF Goto, QueueNext
  <2>4. CASE Refuse
    BY <2>4 DEF Refuse, QueueNext, Task
  <2> QED BY <1>1, <2>1, <2>2, <2>3, <2>4 DEF CalcStep
<1>2. CASE \E t \in FileTask : FileStep(t)
  <2> SUFFICES ASSUME NEW t \in FileTask, FileStep(t) PROVE QueueNext
    BY <1>2
  <2>1. CASE StartFile(t)
    BY <2>1 DEF StartFile, QueueNext, Task
  <2>2. CASE Build(t)
    BY <2>2 DEF Build, Return, Goto, QueueNext, Task
  <2>3. CASE Store(t)
    BY <2>3 DEF Store, Return, QueueNext, Task
  <2> QED BY <2>1, <2>2, <2>3 DEF FileStep
<1>3. CASE Restart
  BY <1>3 DEF Restart, QueueNext
<1>4. CASE \E t \in Task : Send(t) \/ Redeliver(t)
  BY <1>4 DEF QueueNext
<1>5. CASE CalcAside
  BY <1>5 DEF CalcAside, EndDelete, ForeignCommit, BeginDelete, ForeignInsert, queueVars, QueueNext
<1>6. CASE \E t \in FileTask : FileAside(t)
  BY <1>6 DEF FileAside, Expire, ReadMeta, ReadData, queueVars, QueueNext
<1>7. CASE UNCHANGED vars
  BY <1>7 DEF vars, queueVars, QueueNext
<1> QED BY <1>1, <1>2, <1>3, <1>4, <1>5, <1>6, <1>7 DEF Next, Work

LEMMA QueueStep ==
  ASSUME QueueInv, QueueNext
  PROVE  /\ QueueInv'
         /\ \A t \in Task : waiting[t] <= delivered[t] /\ Execution(t)' >= Execution(t)
<1> USE DEF QueueInv, Execution
<1>1. CASE UNCHANGED <<delivered, waiting, running, state, lost>>
  BY <1>1
<1>2. CASE \E t \in Task : (Send(t) \/ Redeliver(t))
  <2> PICK t \in Task : Send(t) \/ Redeliver(t)
    BY <1>2
  <2>1. /\ delivered' = [delivered EXCEPT ![t] = @ + 1] /\ waiting' = [waiting EXCEPT ![t] = @ + 1]
        /\ UNCHANGED <<running, state, lost>>
    BY DEF Send, Redeliver, Arrives
  <2>2. delivered[t] < MaxDelivered[t]
    BY DEF Send, Redeliver, Arrives
  <2> QED BY <2>1, <2>2
<1>3. CASE \E t \in Task : \E s \in {"read", "build"} : Take(t, s)
  <2> PICK t \in Task : \E s \in {"read", "build"} : Take(t, s)
    BY <1>3
  <2>1. /\ running = None /\ running' = t /\ waiting[t] > 0
        /\ waiting' = [waiting EXCEPT ![t] = @ - 1] /\ state' = Recorded(t, "PROGRESS")
        /\ UNCHANGED <<delivered, lost>>
    BY DEF Take
  <2>2. state' \in [Task -> States]
    BY <2>1 DEF Recorded, States
  <2>3. waiting' \in [Task -> Nat] /\ waiting'[t] = waiting[t] - 1
    BY <2>1
  <2> QED BY <2>1, <2>2, <2>3
<1>4. CASE \E s \in {"SUCCESS", "FAILURE"} : running # None /\ End(s)
  <2> PICK s \in {"SUCCESS", "FAILURE"} : running # None /\ End(s)
    BY <1>4
  <2>1. state' \in [Task -> States]
    BY DEF End, Recorded, States
  <2> QED BY <2>1 DEF End
<1>5. CASE Crash
  BY <1>5 DEF Crash
<1> QED BY <1>1, <1>2, <1>3, <1>4, <1>5 DEF QueueNext

-----------------------------------------------------------------------------
(* The files.                                                              *)

\* What is stored and what a download has read come from executions that have
\* begun; the two keys belong to one execution.
FileOk(t) ==
  /\ told[t] = "success" => data[t] # None
  /\ IF data[t] \in {None, 0} THEN meta[t] = None ELSE meta[t] = data[t] /\ data[t] <= Execution(t)
  /\ reading[t] # None => reading[t] <= Execution(t)
  /\ reading[t] # None /\ data[t] \notin {None, 0} => reading[t] <= data[t]

FileInv ==
  /\ data \in [FileTask -> Nat \cup {None}] /\ meta \in [FileTask -> Nat \cup {None}]
  /\ told \in [FileTask -> {None, "success", "error"}]
  /\ reading \in [FileTask -> Nat \cup {None}]
  /\ \A t \in FileTask : FileOk(t)

\* What any step does to the file of task t.
FileNext(t) ==
  \/ UNCHANGED <<data[t], meta[t], told[t], reading[t]>>
  \/ told'[t] = "error" /\ UNCHANGED <<data[t], meta[t], reading[t]>>
  \/ /\ running = t /\ UNCHANGED <<delivered, waiting, reading[t]>>
     /\ data'[t] = Execution(t) /\ meta'[t] = Execution(t) /\ told'[t] \in {told[t], "success"}
  \/ data'[t] = 0 /\ meta'[t] = None /\ UNCHANGED <<told[t], reading[t]>>
  \/ reading'[t] = meta[t] /\ UNCHANGED <<data[t], meta[t], told[t]>>
  \/ reading'[t] = None /\ UNCHANGED <<data[t], meta[t], told[t]>>

\* What any step does to the files, and to no other than one task's.
LEMMA FileEffects ==
  ASSUME QueueInv, FileInv, [Next]_vars
  PROVE  /\ \A t \in FileTask : FileNext(t)
         /\ data' \in [FileTask -> Nat \cup {None}] /\ meta' \in [FileTask -> Nat \cup {None}]
         /\ told' \in [FileTask -> {None, "success", "error"}]
         /\ reading' \in [FileTask -> Nat \cup {None}]
<1> USE DEF FileInv
<1>1. CASE UNCHANGED fileVars
  BY <1>1 DEF fileVars, FileNext
<1>2. CASE \E u \in FileTask : FileStep(u)
  <2> PICK u \in FileTask : FileStep(u)
    BY <1>2
  <2>1. CASE StartFile(u)
    BY <1>1, <2>1 DEF StartFile
  <2>2. CASE Build(u)
    <3>1. CASE UNCHANGED fileVars
      BY <1>1, <3>1
    <3>2. CASE Return(u, "error") /\ UNCHANGED <<data, meta, reading>>
      <4>1. told' = told \/ told' = [told EXCEPT ![u] = "error"]
        BY <3>2 DEF Return
      <4> QED BY <3>2, <4>1 DEF FileNext
    <3> QED BY <2>2, <3>1, <3>2 DEF Build
  <2>3. CASE Store(u)
    <3>1. CASE UNCHANGED fileVars
      BY <1>1, <3>1
    <3>2. CASE /\ data' = [data EXCEPT ![u] = Execution(u)] /\ meta' = [meta EXCEPT ![u] = Execution(u)]
               /\ Return(u, "success") /\ UNCHANGED reading
      <4>1. told' = told \/ told' = [told EXCEPT ![u] = "success"]
        BY <3>2 DEF Return
      <4>2. running = u /\ UNCHANGED <<delivered, waiting>>
        BY <2>3, <3>2 DEF Store, Return, End
      <4>3. Execution(u) \in Nat
        BY DEF QueueInv, Execution, Task
      <4> QED BY <3>2, <4>1, <4>2, <4>3 DEF FileNext
    <3> QED BY <2>3, <3>1, <3>2 DEF Store
  <2> QED BY <2>1, <2>2, <2>3 DEF FileStep
<1>3. CASE \E u \in FileTask : FileAside(u)
  <2> PICK u \in FileTask : FileAside(u)
    BY <1>3
  <2>1. CASE Expire(u)
    BY <2>1 DEF Expire, FileNext
  <2>2. CASE ReadMeta(u)
    BY <2>2 DEF ReadMeta, FileNext
  <2>3. CASE ReadData(u)
    BY <2>3 DEF ReadData, FileNext
  <2> QED BY <2>1, <2>2, <2>3 DEF FileAside
<1> QED BY <1>1, <1>2, <1>3 DEF Next, Work, Restart, vars

LEMMA FileStepKept ==
  ASSUME QueueInv, QueueNext, FileInv, [Next]_vars
  PROVE  FileInv'
<1>1. ASSUME NEW t \in FileTask PROVE FileOk(t)'
  <2>1. FileOk(t) /\ FileNext(t)
    BY FileEffects DEF FileInv
  <2>2. /\ Execution(t) \in Nat /\ Execution(t)' \in Nat /\ Execution(t)' >= Execution(t)
        /\ running = t => Execution(t) >= 1
    BY QueueStep DEF QueueInv, Execution, Task
  <2>3. /\ data[t] \in Nat \cup {None} /\ meta[t] \in Nat \cup {None} /\ reading[t] \in Nat \cup {None}
    BY DEF FileInv
  <2>4. UNCHANGED <<delivered, waiting>> => Execution(t)' = Execution(t)
    BY DEF Execution
  <2> HIDE DEF Execution
  <2> QED BY <2>1, <2>2, <2>3, <2>4 DEF FileOk, FileNext
<1> QED BY <1>1, FileEffects DEF FileInv

LEMMA FileInit0 == Init => QueueInv /\ FileInv
<1> SUFFICES ASSUME Init PROVE QueueInv /\ FileInv
  OBVIOUS
<1>1. \A t \in Task : MaxDelivered[t] \in Nat
  OBVIOUS
<1>2. QueueInv
  <2>1. \A t \in Task : delivered[t] = 0 /\ waiting[t] = 0
    BY DEF Init, QueueInit
  <2> QED BY <1>1, <2>1 DEF Init, QueueInit, QueueInv, States
<1>3. FileInv
  BY DEF Init, FileInit, FileInv, FileOk
<1> QED BY <1>2, <1>3

LEMMA Files == Spec => [](QueueInv /\ FileInv)
<1>1. QueueInv /\ FileInv /\ [Next]_vars => QueueInv' /\ FileInv'
  BY Effects, QueueStep, FileStepKept
<1> QED BY <1>1, FileInit0, PTL DEF Spec

\* A task that says its file was built has stored it, whatever was delivered
\* again, lost or expired (SuccessHasFile: store_result, file_job_status).
THEOREM FilesAreThere == Spec => []SuccessHasFile
<1>1. FileInv => SuccessHasFile
  BY DEF FileInv, FileOk, SuccessHasFile
<1> QED BY <1>1, Files, PTL

\* A download never pairs a description with an older file, however often the
\* task is executed between its two reads (NoOlderFile: load_result).
THEOREM NoOlderFiles == Spec => []NoOlderFile
<1>1. FileInv => NoOlderFile
  BY DEF FileInv, FileOk, NoOlderFile
<1> QED BY <1>1, Files, PTL

-----------------------------------------------------------------------------
(* The newest calculation.                                                 *)

LEMMA BelowIsWellFounded == IsWellFoundedOn({ss \in Nat \X Nat : ss[1] < ss[2]}, Nat)
BY NatLessThanWellFounded, Zenon DEF OpToRel

\* A set of calculations that is not empty has a newest one.
LEMMA HasNewest ==
  ASSUME CalcAssumption, NEW S \in SUBSET CalcId, S # {}
  PROVE  \E x \in S : \A y \in S : x >= y
<1> DEFINE Below == {ss \in Nat \X Nat : ss[1] < ss[2]}
           T == {MaxCalc - x : x \in S}
<1>0. MaxCalc \in Nat /\ \A x \in S : x \in Nat /\ MaxCalc - x \in Nat
  BY DEF CalcId, CalcAssumption
<1>1. T \subseteq Nat /\ T # {}
  BY <1>0
<1>2. \E m \in T : \A n \in T : <<n, m>> \notin Below
  <2>1. IsWellFoundedOn(Below, Nat)
    BY BelowIsWellFounded
  <2> HIDE DEF Below, T
  <2> QED BY <1>1, <2>1, WFMin, Zenon
<1>3. PICK m \in T : \A n \in T : <<n, m>> \notin Below
  BY <1>2
<1>4. \A n \in T : ~(n < m)
  BY <1>1, <1>3
<1>5. PICK x \in S : m = MaxCalc - x
  OBVIOUS
<1>6. ASSUME NEW y \in S PROVE x >= y
  <2>1. MaxCalc - y \in T
    OBVIOUS
  <2>2. ~(MaxCalc - y < MaxCalc - x)
    BY <1>4, <1>5, <2>1
  <2> HIDE DEF T
  <2> QED BY <1>0, <2>2
<1> QED BY <1>6

LEMMA NewestOf ==
  ASSUME CalcAssumption, NEW S \in SUBSET CalcId, NEW otherwise
  PROVE  /\ S = {} => Newest(S, otherwise) = otherwise
         /\ S # {} => Newest(S, otherwise) \in S /\ \A y \in S : y <= Newest(S, otherwise)
<1>1. CASE S = {}
  BY <1>1 DEF Newest
<1>2. CASE S # {}
  <2>1. PICK x \in S : \A y \in S : x >= y
    BY <1>2, HasNewest
  <2>2. Max(S) \in S /\ \A y \in S : Max(S) >= y
    BY <2>1 DEF Max
  <2>3. \A y \in S : y <= Max(S)
    BY <2>2 DEF CalcId, CalcAssumption
  <2> QED BY <1>2, <2>2, <2>3 DEF Newest
<1> QED BY <1>1, <1>2

-----------------------------------------------------------------------------
(* The calculations.                                                       *)

RunRecord == [left : Seq(File), before : Nat \cup {None}, own : CalcId \cup {None},
              status : {"none", "success", "error"}]

Shapes ==
  /\ calculation \in [CalcId -> Calculation \cup {None}] /\ rows \in [CalcId -> Rows]
  /\ nextId \in 1 .. MaxCalc + 1 /\ runs \in Nat
  /\ run \in RunRecord
  /\ running \in CalcTask => run.left # <<>>

\* A calculation has been given its id; it was deleted after it was made, and has
\* results left only if the run that made it had not ended then.
CalculationOk(c) ==
  calculation[c] # None =>
    /\ c < nextId /\ calculation[c].by <= runs /\ calculation[c].at <= runs
    /\ calculation[c].deleted # None =>
         /\ calculation[c].by <= calculation[c].deleted /\ calculation[c].deleted <= runs
         /\ rows[c] # "none" => calculation[c].deleted = calculation[c].by

ForeignOk ==
  foreign # None =>
    foreign \in [id : CalcId, file : File] /\ foreign.id < nextId /\ calculation[foreign.id] = None

\* The results of a calculation that is being deleted change only if the run that
\* made it had not ended when that began.
DeletingOk ==
  deleting # None =>
    /\ deleting \in [calc : CalcId, at : Nat, held : Rows]
    /\ Present(deleting.calc)
    /\ calculation[deleting.calc].by <= deleting.at /\ deleting.at <= runs
    /\ rows[deleting.calc] # deleting.held => calculation[deleting.calc].by = deleting.at

\* The run under way, from step to step.
RunOk ==
  /\ step \in {"engine", "inserted", "write", "save"} => runs # 0
  /\ step \in {"read", "engine", "inserted", "write"} => run.status = "none"
  /\ step \in {"read", "engine"} => run.own = None
  /\ step \in {"inserted", "write"} => run.own # None
  /\ step = "inserted" => /\ calculation[run.own] = None /\ run.own < nextId
                          /\ foreign # None => foreign.id # run.own
  /\ step \in {"write", "save"} /\ run.own # None =>
       /\ calculation[run.own] # None /\ calculation[run.own].by = runs
       /\ calculation[run.own].file = Head(run.left)
  /\ step \in {"inserted", "write", "save"} /\ run.own # None /\ run.before # None => run.before < run.own
  /\ step = "save" /\ run.status = "success" /\ run.own # None =>
       (Present(run.own) => rows[run.own] = "all")

\* Until it ends, what is newer than the newest calculation before it is its own
\* or one that the desktop has committed meanwhile.
BeforeOk ==
  step \in {"engine", "inserted", "write", "save"} /\ run.before # None =>
    /\ run.before < nextId
    /\ \A c \in CalcId : Present(c) /\ run.before < c /\ c # run.own =>
         calculation[c].by = 0 /\ calculation[c].at = runs

Linked(p) ==
  \/ p.calc = p.own
  \/ p.calc = None /\ ~Present(p.own)
  \/ p.calc # None /\ calculation[p.calc].by = 0 /\ calculation[p.calc].at = p.run

ProtocolOk(p) ==
  /\ p.run \in 1 .. runs
  /\ p.own \in CalcId \cup {None} /\ p.calc \in CalcId \cup {None}
  /\ p.own # None => calculation[p.own] # None
  /\ p.calc # None => calculation[p.calc] # None
  /\ p.status = "success" /\ p.own # None => (Present(p.own) => rows[p.own] = "all")
  /\ p.blind \/ Linked(p)

CalcInv ==
  /\ Shapes /\ (\A c \in CalcId : CalculationOk(c)) /\ ForeignOk /\ DeletingOk
  /\ RunOk /\ BeforeOk /\ \A p \in protocol : ProtocolOk(p)

\* What a step leaves of the calculations there are.
Stays ==
  \A c \in CalcId : calculation[c] # None =>
    /\ calculation'[c] # None
    /\ calculation'[c].by = calculation[c].by /\ calculation'[c].at = calculation[c].at
    /\ calculation[c].deleted # None => calculation'[c].deleted # None
    /\ rows[c] = "all" /\ calculation'[c].deleted = None => rows'[c] = "all"

\* It is enough for the protocols there are.
LEMMA ProtocolsStay ==
  ASSUME Stays, runs \in Nat, runs' \in Nat, runs <= runs',
         NEW p, ProtocolOk(p)
  PROVE  ProtocolOk(p)'
<1>1. p.own # None => /\ p.own \in CalcId /\ calculation[p.own] # None /\ calculation'[p.own] # None
                      /\ ~Present(p.own) => ~Present(p.own)'
                      /\ (Present(p.own) => rows[p.own] = "all") => (Present(p.own)' => rows'[p.own] = "all")
  BY DEF Stays, ProtocolOk, Present
<1>2. p.calc # None => /\ p.calc \in CalcId /\ calculation'[p.calc] # None
                       /\ calculation'[p.calc].by = calculation[p.calc].by
                       /\ calculation'[p.calc].at = calculation[p.calc].at
  BY DEF Stays, ProtocolOk
<1>3. p.blind \/ Linked(p)'
  <2>1. p.blind \/ Linked(p)
    BY DEF ProtocolOk
  <2> QED BY <1>1, <1>2, <2>1, Zenon DEF Linked
<1> QED BY <1>1, <1>2, <1>3 DEF ProtocolOk

LEMMA CalcInit0 == ASSUME CalcAssumption, Init PROVE CalcInv
<1>1. /\ calculation = [c \in CalcId |-> None] /\ rows = [c \in CalcId |-> "none"]
      /\ nextId = 1 /\ foreign = None /\ deleting = None /\ runs = 0 /\ run = NoRun /\ protocol = {}
      /\ running = None /\ step = "idle"
  BY DEF Init, QueueInit, CalcInit
<1>2. run \in RunRecord
  BY <1>1 DEF NoRun, RunRecord
<1>3. Shapes
  BY <1>1, <1>2 DEF Shapes, Rows, CalcAssumption, Task
<1>4. RunOk /\ BeforeOk
  BY <1>1 DEF RunOk, BeforeOk
<1> QED BY <1>1, <1>3, <1>4 DEF CalcInv, CalculationOk, ForeignOk, DeletingOk

LEMMA StartCalcKeeps ==
  ASSUME CalcAssumption, CalcInv, NEW t \in CalcTask, StartCalc(t)
  PROVE  CalcInv'
<1>1. /\ run' = [NoRun EXCEPT !.left = List[t]] /\ step' = "read" /\ running' = t
      /\ UNCHANGED <<calculation, rows, nextId, foreign, deleting, runs, protocol>>
  BY DEF StartCalc, Take
<1>2. run'.status = "none" /\ run'.own = None /\ run'.left # <<>> /\ run' \in RunRecord
  BY <1>1 DEF NoRun, RunRecord, CalcAssumption
<1>3. Shapes'
  BY <1>1, <1>2 DEF CalcInv, Shapes
<1>4. ForeignOk' /\ DeletingOk' /\ (\A c \in CalcId : CalculationOk(c)')
  BY <1>1 DEF CalcInv, CalculationOk, ForeignOk, DeletingOk, Present
<1>5. RunOk' /\ BeforeOk'
  BY <1>1, <1>2 DEF RunOk, BeforeOk
<1>6. \A p \in protocol' : ProtocolOk(p)'
  BY <1>1 DEF CalcInv, ProtocolOk, Linked, Present
<1> QED BY <1>3, <1>4, <1>5, <1>6 DEF CalcInv

LEMMA ReadBeforeKeeps ==
  ASSUME CalcAssumption, CalcInv, ReadBefore
  PROVE  CalcInv'
<1>1. PICK before \in {Newest(Committed, 0), None} : run' = [run EXCEPT !.before = before, !.own = None]
  BY DEF ReadBefore
<1>2. /\ running \in CalcTask /\ step = "read" /\ step' = "engine" /\ runs' = runs + 1
      /\ UNCHANGED <<running, calculation, rows, nextId, foreign, deleting, protocol>>
  BY DEF ReadBefore, Goto
<1>3. /\ runs \in Nat /\ nextId \in Nat /\ 1 <= nextId /\ run \in RunRecord
      /\ calculation \in [CalcId -> Calculation \cup {None}] /\ run.status = "none"
      /\ \A c \in CalcId : c \in Nat
  BY <1>2 DEF CalcInv, Shapes, RunOk, CalcId, CalcAssumption
<1>4. /\ Newest(Committed, 0) \in Nat /\ Newest(Committed, 0) < nextId
      /\ \A c \in CalcId : Present(c) => c <= Newest(Committed, 0)
  <2>1. Committed \in SUBSET CalcId
    BY DEF Committed
  <2>2. \A c \in Committed : c < nextId
    BY DEF CalcInv, CalculationOk, Committed, Present
  <2>3. \A c \in CalcId : Present(c) => c \in Committed
    BY DEF Committed
  <2>4. CASE Committed = {}
    <3>1. Newest(Committed, 0) = 0
      BY <2>1, <2>4, NewestOf
    <3> QED BY <1>3, <2>3, <2>4, <3>1
  <2>5. CASE Committed # {}
    <3>1. Newest(Committed, 0) \in Committed /\ \A y \in Committed : y <= Newest(Committed, 0)
      BY <2>1, <2>5, NewestOf, Zenon
    <3> QED BY <1>3, <2>1, <2>2, <2>3, <3>1
  <2> QED BY <2>4, <2>5
<1>5. /\ run'.before = before /\ run'.own = None /\ run'.left = run.left /\ run'.status = "none"
      /\ run' \in RunRecord
  BY <1>1, <1>3, <1>4 DEF RunRecord
<1>6. Shapes'
  BY <1>2, <1>3, <1>5 DEF CalcInv, Shapes
<1>7. \A c \in CalcId : CalculationOk(c)'
  <2> TAKE c \in CalcId
  <2>1. CalculationOk(c) /\ calculation[c] \in Calculation \cup {None}
    BY <1>3 DEF CalcInv
  <2> QED BY <1>2, <1>3, <2>1 DEF CalculationOk, Calculation
<1>8. ForeignOk'
  BY <1>2 DEF CalcInv, ForeignOk
<1>9. DeletingOk'
  BY <1>2, <1>3 DEF CalcInv, DeletingOk, Present
<1>10. RunOk' /\ BeforeOk'
  BY <1>1, <1>2, <1>3, <1>4, <1>5 DEF RunOk, BeforeOk, Present
<1>11. \A p \in protocol' : ProtocolOk(p)'
  BY <1>2, <1>3, ProtocolsStay DEF CalcInv, Stays
<1> QED BY <1>6, <1>7, <1>8, <1>9, <1>10, <1>11 DEF CalcInv

LEMMA EngineInsertKeeps ==
  ASSUME CalcAssumption, CalcInv, EngineInsert
  PROVE  CalcInv'
<1>1. /\ running \in CalcTask /\ step = "engine" /\ step' = "inserted" /\ nextId <= MaxCalc
      /\ run' = [run EXCEPT !.own = nextId] /\ nextId' = nextId + 1
      /\ UNCHANGED <<running, calculation, rows, foreign, deleting, runs, protocol>>
  BY DEF EngineInsert, Goto
<1>2. /\ nextId \in CalcId /\ nextId \in Nat /\ run \in RunRecord /\ calculation[nextId] = None
      /\ run.status = "none" /\ \A c \in CalcId : c \in Nat
  BY <1>1 DEF CalcInv, Shapes, RunOk, CalculationOk, CalcId, CalcAssumption
<1>3. /\ run'.own = nextId /\ run'.before = run.before /\ run'.left = run.left /\ run'.status = "none"
      /\ run' \in RunRecord
  BY <1>1, <1>2 DEF RunRecord
<1>4. Shapes'
  BY <1>1, <1>2, <1>3 DEF CalcInv, Shapes, CalcId, CalcAssumption
<1>5. \A c \in CalcId : CalculationOk(c)'
  BY <1>1, <1>2 DEF CalcInv, CalculationOk
<1>6. ForeignOk' /\ DeletingOk'
  BY <1>1, <1>2 DEF CalcInv, ForeignOk, DeletingOk, Present
<1>7. RunOk'
  <2>1. foreign # None => foreign.id # nextId
    BY <1>2 DEF CalcInv, ForeignOk
  <2>2. run.before # None => run.before < nextId
    BY <1>1 DEF CalcInv, BeforeOk
  <2>3. nextId # None
    BY <1>2
  <2>4. nextId < nextId + 1
    BY <1>2
  <2>5. runs # 0
    BY <1>1 DEF CalcInv, RunOk
  <2> QED BY <1>1, <1>2, <1>3, <2>1, <2>2, <2>3, <2>4, <2>5 DEF RunOk
<1>8. BeforeOk'
  <2>1. run.own = None
    BY <1>1 DEF CalcInv, RunOk
  <2>2. run.before # None => /\ run.before \in Nat /\ run.before < nextId
          /\ \A c \in CalcId : Present(c) /\ run.before < c /\ c # run.own =>
               calculation[c].by = 0 /\ calculation[c].at = runs
    BY <1>1, <1>2 DEF CalcInv, BeforeOk, RunRecord
  <2>3. \A c \in CalcId : c # None
    BY <1>2
  <2> QED BY <1>1, <1>2, <1>3, <2>1, <2>2, <2>3 DEF BeforeOk, Present
<1>9. \A p \in protocol' : ProtocolOk(p)'
  BY <1>1 DEF CalcInv, ProtocolOk, Linked, Present
<1> QED BY <1>4, <1>5, <1>6, <1>7, <1>8, <1>9 DEF CalcInv

LEMMA EngineCommitKeeps ==
  ASSUME CalcAssumption, CalcInv, EngineCommit
  PROVE  CalcInv'
<1> DEFINE own == run.own
           made == [file |-> Head(run.left), by |-> runs, at |-> runs, deleted |-> None]
<1>1. /\ running \in CalcTask /\ step = "inserted" /\ step' = "write"
      /\ calculation' = [calculation EXCEPT ![own] = made]
      /\ rows' = [rows EXCEPT ![own] = "some"]
      /\ UNCHANGED <<running, nextId, foreign, deleting, runs, run, protocol>>
  BY DEF EngineCommit, Goto, Insert
<1>2. /\ run \in RunRecord /\ run.left # <<>> /\ runs \in Nat /\ run.status = "none"
      /\ own \in CalcId /\ calculation[own] = None /\ own < nextId
      /\ foreign # None => foreign.id # own
  BY <1>1 DEF CalcInv, Shapes, RunOk, RunRecord
<1>3. made \in Calculation /\ made # None
  BY <1>2 DEF Calculation, RunRecord, CalcAssumption
<1>4. /\ calculation'[own] = made /\ rows'[own] = "some"
      /\ \A c \in CalcId \ {own} : calculation'[c] = calculation[c] /\ rows'[c] = rows[c]
  BY <1>1, <1>2 DEF CalcInv, Shapes
<1>5. made.by = runs /\ made.at = runs /\ made.deleted = None /\ made.file = Head(run.left)
  OBVIOUS
<1> HIDE DEF own, made
<1>6. Shapes'
  BY <1>1, <1>2, <1>3 DEF CalcInv, Shapes, Rows
<1>7. \A c \in CalcId : CalculationOk(c)'
  BY <1>1, <1>2, <1>4, <1>5 DEF CalcInv, CalculationOk
<1>8. ForeignOk'
  BY <1>1, <1>2, <1>4 DEF CalcInv, ForeignOk
<1>9. DeletingOk'
  <2>1. deleting # None => deleting.calc \in CalcId /\ deleting.calc # own
    BY <1>2 DEF CalcInv, DeletingOk, Present
  <2> QED BY <1>1, <1>4, <2>1 DEF CalcInv, DeletingOk, Present
<1>10. RunOk'
  BY <1>1, <1>2, <1>3, <1>4, <1>5 DEF CalcInv, RunOk, own
<1>11. BeforeOk'
  BY <1>1, <1>4 DEF CalcInv, BeforeOk, Present, own
<1>12. \A p \in protocol' : ProtocolOk(p)'
  BY <1>1, <1>2, <1>4, ProtocolsStay DEF CalcInv, Stays
<1> QED BY <1>6, <1>7, <1>8, <1>9, <1>10, <1>11, <1>12 DEF CalcInv

\* The engine's end, whatever it exits with.
LEMMA EngineEndKeeps ==
  ASSUME CalcAssumption, CalcInv, EngineUnconnected \/ EngineSucceeds \/ EngineFails
  PROVE  CalcInv'
<1>1. /\ running \in CalcTask /\ step \in {"engine", "inserted", "write"} /\ step' = "save"
      /\ UNCHANGED <<running, calculation, nextId, foreign, deleting, runs, protocol>>
  BY DEF EngineUnconnected, EngineSucceeds, EngineFails, Goto
<1>2. rows' = rows \/ (step = "write" /\ rows' = Whole)
  <2>1. CASE EngineSucceeds
    BY <2>1, Zenon DEF EngineSucceeds
  <2>2. CASE EngineFails
    BY <2>2 DEF EngineFails, Whole
  <2>3. CASE EngineUnconnected
    BY <2>3 DEF EngineUnconnected
  <2> QED BY <2>1, <2>2, <2>3
<1>3. /\ run \in RunRecord /\ rows \in [CalcId -> Rows] /\ run.left # <<>> /\ runs \in Nat
      /\ calculation \in [CalcId -> Calculation \cup {None}]
  BY <1>1 DEF CalcInv, Shapes
<1>4. step = "write" =>
        /\ run.own \in CalcId /\ calculation[run.own] # None /\ calculation[run.own].by = runs
        /\ calculation[run.own].file = Head(run.left)
  BY <1>3 DEF CalcInv, RunOk, RunRecord
<1>5. run' \in RunRecord /\ run'.left = run.left /\ run'.before = run.before
  <2>1. \/ run' = [run EXCEPT !.status = "success"]
        \/ run' = [run EXCEPT !.status = "error", !.own = IF step = "write" THEN @ ELSE None]
    BY DEF EngineUnconnected, EngineSucceeds, EngineFails, Failed
  <2> QED BY <1>3, <2>1 DEF RunRecord
<1>6. run'.own = IF step = "write" THEN run.own ELSE None
  <2>1. \/ step \in {"engine", "write"} /\ run' = [run EXCEPT !.status = "success"]
        \/ run' = [run EXCEPT !.status = "error", !.own = IF step = "write" THEN @ ELSE None]
    BY DEF EngineUnconnected, EngineSucceeds, EngineFails, Failed
  <2>2. step = "engine" => run.own = None
    BY DEF CalcInv, RunOk
  <2> QED BY <1>3, <2>1, <2>2 DEF RunRecord
<1>7. run'.status = "success" => step = "engine" \/ (step = "write" /\ rows' = Whole)
  <2>1. \/ step = "engine"
        \/ step = "write" /\ rows' = Whole
        \/ run' = [run EXCEPT !.status = "error", !.own = IF step = "write" THEN @ ELSE None]
    BY DEF EngineUnconnected, EngineSucceeds, EngineFails, Failed
  <2> QED BY <1>3, <2>1 DEF RunRecord
<1>8. /\ rows' \in [CalcId -> Rows]
      /\ \A c \in CalcId : rows'[c] # rows[c] => step = "write" /\ c = run.own
      /\ rows' = Whole /\ step = "write" => rows'[run.own] = IF Present(run.own) THEN "all" ELSE "some"
  BY <1>2, <1>3, <1>4 DEF Whole, Rows
<1>9. Shapes'
  BY <1>1, <1>3, <1>5, <1>8 DEF CalcInv, Shapes
<1>10. \A c \in CalcId : CalculationOk(c)'
  <2> TAKE c \in CalcId
  <2>1. CalculationOk(c) /\ calculation[c] \in Calculation \cup {None}
    BY <1>3 DEF CalcInv
  <2>2. CASE rows'[c] = rows[c]
    BY <1>1, <2>1, <2>2 DEF CalculationOk
  <2>3. CASE rows'[c] # rows[c]
    <3>1. c = run.own /\ calculation[c].by = runs
      BY <1>4, <1>8, <2>3
    <3>2. calculation[c] # None /\ calculation[c].deleted # None => calculation[c].deleted = calculation[c].by
      BY <1>3, <2>1, <3>1 DEF CalculationOk, Calculation
    <3> QED BY <1>1, <2>1, <3>2 DEF CalculationOk
  <2> QED BY <2>2, <2>3
<1>11. ForeignOk'
  BY <1>1 DEF CalcInv, ForeignOk
<1>12. DeletingOk'
  <2>1. CASE deleting = None
    BY <1>1, <2>1 DEF DeletingOk
  <2>2. CASE deleting # None
    <3>1. /\ DeletingOk /\ deleting.calc \in CalcId /\ deleting.at \in Nat /\ deleting.at <= runs
          /\ calculation[deleting.calc] \in Calculation
          /\ calculation[deleting.calc].by <= deleting.at
      BY <1>3, <2>2 DEF CalcInv, DeletingOk, Present
    <3>2. rows'[deleting.calc] # rows[deleting.calc] => calculation[deleting.calc].by = deleting.at
      BY <1>3, <1>4, <1>8, <3>1
    <3> QED BY <1>1, <2>2, <3>1, <3>2 DEF DeletingOk, Present
  <2> QED BY <2>1, <2>2
<1>13. RunOk'
  <2>1. step = "write" /\ run.own # None /\ run.before # None => run.before < run.own
    BY DEF CalcInv, RunOk
  <2>2. step = "write" /\ rows' = Whole => run.own # None /\ (Present(run.own) => rows'[run.own] = "all")
    BY <1>1, <1>4, <1>8 DEF Present, CalcId, CalcAssumption
  <2>3. runs # 0
    BY <1>1 DEF CalcInv, RunOk
  <2> QED BY <1>1, <1>4, <1>5, <1>6, <1>7, <2>1, <2>2, <2>3 DEF RunOk, Present
<1>14. BeforeOk'
  <2>1. step \in {"engine", "inserted"} => run.own = None \/ calculation[run.own] = None
    BY DEF CalcInv, RunOk
  <2> QED BY <1>1, <1>5, <1>6, <2>1 DEF CalcInv, BeforeOk, Present
<1>15. \A p \in protocol' : ProtocolOk(p)'
  <2>1. Stays
    <3> USE DEF Stays
    <3> TAKE c \in CalcId
    <3> HAVE calculation[c] # None
    <3>1. calculation[c].deleted = None /\ rows[c] = "all" => rows'[c] = "all"
      BY <1>2, <1>8 DEF Present
    <3> QED BY <1>1, <3>1
  <2> QED BY <1>1, <1>3, <2>1, ProtocolsStay DEF CalcInv
<1> QED BY <1>9, <1>10, <1>11, <1>12, <1>13, <1>14, <1>15 DEF CalcInv

\* A step that ends the run and leaves the calculations as they are.
LEMMA RunEndKeeps ==
  ASSUME CalcAssumption, CalcInv, step' = "idle", run' = NoRun, running' \notin CalcTask,
         UNCHANGED <<calculation, rows, nextId, foreign, deleting, runs>>,
         \A p \in protocol' : ProtocolOk(p)
  PROVE  CalcInv'
<1>1. run' \in RunRecord
  BY DEF NoRun, RunRecord
<1>2. Shapes'
  BY <1>1 DEF CalcInv, Shapes
<1>3. ForeignOk' /\ DeletingOk' /\ (\A c \in CalcId : CalculationOk(c)')
  BY DEF CalcInv, CalculationOk, ForeignOk, DeletingOk, Present
<1>4. RunOk' /\ BeforeOk'
  BY DEF RunOk, BeforeOk
<1>5. \A p \in protocol' : ProtocolOk(p)'
  BY DEF ProtocolOk, Linked, Present
<1> QED BY <1>2, <1>3, <1>4, <1>5 DEF CalcInv

\* The protocol of a run: what is found newer is its own calculation or one that
\* the desktop has committed meanwhile.
LEMMA NewProtocolOk ==
  ASSUME CalcAssumption, CalcInv, running \in CalcTask, step = "save", NEW p,
         p = [run |-> runs, status |-> run.status, blind |-> run.before = None, own |-> run.own,
              calc |-> Newest(Made(Head(run.left), run.before), None)]
  PROVE  ProtocolOk(p)
<1> DEFINE M == Made(Head(run.left), run.before)
<1>1. /\ p.run = runs /\ p.status = run.status /\ p.own = run.own /\ p.calc = Newest(M, None)
      /\ run.before # None \/ p.blind
  OBVIOUS
<1>2. runs \in Nat /\ run \in RunRecord /\ M \in SUBSET CalcId /\ \A c \in CalcId : c \in Nat
  BY DEF CalcInv, Shapes, Made, Committed, CalcId, CalcAssumption
<1>3. /\ p.calc \in CalcId \cup {None}
      /\ p.calc # None => p.calc \in M
      /\ p.calc = None => M = {}
  <2> HIDE DEF M
  <2>1. M = {} => Newest(M, None) = None
    BY <1>2, NewestOf
  <2>2. M # {} => Newest(M, None) \in M
    BY <1>2, NewestOf
  <2> QED BY <1>1, <1>2, <2>1, <2>2
<1>4. p.calc # None => Present(p.calc) /\ (run.before # None => run.before < p.calc)
  BY <1>3 DEF Made, Committed
<1>5. run.own \in CalcId \cup {None}
  BY <1>2 DEF RunRecord
<1>6. run.own # None => /\ calculation[run.own] # None
                        /\ calculation[run.own].file = Head(run.left)
                        /\ run.before # None => run.before < run.own
  BY DEF CalcInv, RunOk
<1>7. p.own # None => calculation[p.own] # None
  BY <1>1, <1>6
<1>8. p.calc # None => calculation[p.calc] # None
  BY <1>4 DEF Present
<1>9. p.status = "success" /\ p.own # None => (Present(p.own) => rows[p.own] = "all")
  BY <1>1 DEF CalcInv, RunOk
<1>10. run.before # None => Linked(p)
  <2> SUFFICES ASSUME run.before # None PROVE Linked(p)
    OBVIOUS
  <2>1. p.calc = None /\ p.own # None => ~Present(p.own)
    <3>1. p.own # None /\ Present(p.own) => p.own \in M
      BY <1>1, <1>5, <1>6 DEF Made, Committed
    <3> HIDE DEF M
    <3> QED BY <1>3, <3>1
  <2>2. p.calc # None /\ p.calc # p.own => calculation[p.calc].by = 0 /\ calculation[p.calc].at = p.run
    <3>1. p.calc # None => p.calc \in CalcId
      BY <1>3
    <3> HIDE DEF M
    <3> QED BY <1>1, <1>4, <3>1 DEF CalcInv, BeforeOk
  <2> HIDE DEF M
  <2> QED BY <2>1, <2>2, Zenon DEF Linked
<1>11. p.blind \/ Linked(p)
  <2> HIDE DEF M
  <2> QED BY <1>1, <1>10, Zenon
<1>12. p.run \in 1 .. runs
  <2>1. runs # 0
    BY DEF CalcInv, RunOk
  <2> QED BY <1>1, <1>2, <2>1
<1> HIDE DEF M
<1> QED BY <1>1, <1>3, <1>5, <1>12, <1>7, <1>8, <1>9, <1>11, Zenon DEF ProtocolOk

LEMMA SaveProtocolKeeps ==
  ASSUME CalcAssumption, CalcInv, SaveProtocol
  PROVE  CalcInv'
<1>1. /\ running \in CalcTask /\ step = "save"
      /\ UNCHANGED <<calculation, rows, nextId, foreign, deleting, runs>>
  BY DEF SaveProtocol
<1>2. \A p \in protocol' : ProtocolOk(p)
  <2> DEFINE new == [run |-> runs, status |-> run.status, blind |-> run.before = None, own |-> run.own,
                     calc |-> Newest(Made(Head(run.left), run.before), None)]
  <2>1. ProtocolOk(new)
    BY <1>1, NewProtocolOk
  <2>2. protocol' = protocol \cup {new} \/ protocol' = protocol
    BY DEF SaveProtocol
  <2> HIDE DEF new
  <2> QED BY <2>1, <2>2 DEF CalcInv
<1>3. CASE /\ Len(run.left) > 1
           /\ run' = [NoRun EXCEPT !.left = Tail(run.left)] /\ Goto("read")
  <2>1. step' = "read" /\ running' = running
    BY <1>3 DEF Goto
  <2>2. run.left \in Seq(File)
    BY DEF CalcInv, Shapes, RunRecord
  <2>3. Tail(run.left) \in Seq(File) /\ Tail(run.left) # <<>>
    <3>1. run.left # <<>>
      BY <1>1 DEF CalcInv, Shapes
    <3>2. Tail(run.left) \in Seq(File) /\ Len(Tail(run.left)) = Len(run.left) - 1
      BY <2>2, <3>1, HeadTailProperties
    <3> DEFINE n == Len(run.left)
               m == Len(Tail(run.left))
    <3>3. m # 0
      <4>1. n \in Nat /\ n > 1 /\ m = n - 1
        BY <1>3, <2>2, <3>2
      <4> HIDE DEF n, m
      <4> QED BY <4>1
    <3>4. Len(<<>>) = 0
      OBVIOUS
    <3> QED BY <3>2, <3>3, <3>4, Zenon
  <2>4. run' \in RunRecord /\ run'.left # <<>> /\ run'.status = "none" /\ run'.own = None
    BY <1>3, <2>3 DEF NoRun, RunRecord
  <2>5. Shapes'
    BY <1>1, <2>1, <2>4 DEF CalcInv, Shapes
  <2>6. ForeignOk' /\ DeletingOk' /\ (\A c \in CalcId : CalculationOk(c)')
    BY <1>1 DEF CalcInv, CalculationOk, ForeignOk, DeletingOk, Present
  <2>7. RunOk' /\ BeforeOk'
    BY <2>1, <2>4 DEF RunOk, BeforeOk
  <2>8. \A p \in protocol' : ProtocolOk(p)'
    BY <1>1, <1>2 DEF ProtocolOk, Linked, Present
  <2> QED BY <2>5, <2>6, <2>7, <2>8 DEF CalcInv
<1>4. CASE run' = NoRun /\ End("SUCCESS")
  <2>1. step' = "idle" /\ running' \notin CalcTask
    BY <1>4 DEF End, Task
  <2> QED BY <1>1, <1>2, <1>4, <2>1, RunEndKeeps
<1> QED BY <1>3, <1>4, Zenon DEF SaveProtocol, Proceed

\* A task that refuses its parameters, and a crash.
LEMMA StopKeeps ==
  ASSUME CalcAssumption, CalcInv, Refuse \/ Restart
  PROVE  CalcInv'
<1>1. /\ step' = "idle" /\ running' = None /\ run' = NoRun
      /\ UNCHANGED <<calculation, rows, nextId, foreign, deleting, runs, protocol>>
  BY DEF Refuse, Restart, End, Crash
<1>2. \A p \in protocol' : ProtocolOk(p)
  BY <1>1 DEF CalcInv
<1>3. running' \notin CalcTask
  BY <1>1 DEF Task
<1> QED BY <1>1, <1>2, <1>3, RunEndKeeps

LEMMA BeginDeleteKeeps ==
  ASSUME CalcAssumption, CalcInv, NEW c \in CalcId, BeginDelete(c)
  PROVE  CalcInv'
<1>1. /\ Present(c) /\ deleting' = [calc |-> c, at |-> runs, held |-> rows[c]]
      /\ UNCHANGED <<running, step, calculation, rows, nextId, foreign, runs, run, protocol>>
  BY DEF BeginDelete, queueVars
<1>2. /\ Shapes' /\ ForeignOk' /\ BeforeOk' /\ RunOk' /\ (\A x \in CalcId : CalculationOk(x)')
  BY <1>1 DEF CalcInv, Shapes, ForeignOk, BeforeOk, RunOk, CalculationOk, Present
<1>3. DeletingOk'
  <2>1. rows[c] \in Rows /\ runs \in Nat
    BY DEF CalcInv, Shapes
  <2>2. calculation[c].by <= runs
    BY <1>1 DEF CalcInv, CalculationOk, Present
  <2>3. runs <= runs
    BY <2>1
  <2> QED BY <1>1, <2>1, <2>2, <2>3 DEF DeletingOk, Present
<1>4. \A p \in protocol' : ProtocolOk(p)'
  BY <1>1 DEF CalcInv, ProtocolOk, Linked, Present
<1> QED BY <1>2, <1>3, <1>4 DEF CalcInv

LEMMA EndDeleteKeeps ==
  ASSUME CalcAssumption, CalcInv, EndDelete
  PROVE  CalcInv'
<1> DEFINE d == deleting.calc
<1>1. /\ deleting # None /\ deleting' = None
      /\ calculation' = [calculation EXCEPT ![d].deleted = deleting.at]
      /\ UNCHANGED <<running, step, nextId, foreign, runs, run, protocol>>
  BY DEF EndDelete, queueVars
<1>2. PICK left \in Left(d, deleting.held) : rows' = [rows EXCEPT ![d] = left]
  BY DEF EndDelete
<1>3. /\ deleting \in [calc : CalcId, at : Nat, held : Rows] /\ Present(d)
      /\ calculation[d].by <= deleting.at /\ deleting.at <= runs
      /\ rows[d] # deleting.held => calculation[d].by = deleting.at
  BY <1>1 DEF CalcInv, DeletingOk
<1>4. d \in CalcId /\ deleting.at \in Nat
  BY <1>3
<1>5. /\ calculation \in [CalcId -> Calculation \cup {None}] /\ rows \in [CalcId -> Rows]
      /\ calculation[d] \in Calculation /\ calculation[d].deleted = None /\ runs \in Nat
  BY <1>3, <1>4 DEF CalcInv, Shapes, Present
<1>6. left \in {"none", "some"} /\ (left # "none" => calculation[d].by = deleting.at)
  BY <1>2, <1>3 DEF Left
<1> DEFINE gone == [calculation[d] EXCEPT !.deleted = deleting.at]
<1>7. /\ gone \in Calculation /\ gone # None /\ gone.deleted = deleting.at /\ gone.deleted # None
      /\ gone.by = calculation[d].by /\ gone.at = calculation[d].at /\ gone.file = calculation[d].file
  BY <1>4, <1>5 DEF Calculation, CalcAssumption
<1>8. /\ calculation'[d] = gone /\ rows'[d] = left
      /\ \A c \in CalcId \ {d} : calculation'[c] = calculation[c] /\ rows'[c] = rows[c]
  BY <1>1, <1>2, <1>4, <1>5
<1>9. calculation' \in [CalcId -> Calculation \cup {None}] /\ rows' \in [CalcId -> Rows]
  BY <1>1, <1>2, <1>4, <1>5, <1>6, <1>7 DEF Rows
<1> HIDE DEF gone, d
<1>10. Shapes'
  BY <1>1, <1>9 DEF CalcInv, Shapes
<1>11. \A c \in CalcId : CalculationOk(c)'
  <2> TAKE c \in CalcId
  <2>1. CalculationOk(c)
    BY DEF CalcInv
  <2>2. CASE c = d
    BY <1>1, <1>3, <1>5, <1>6, <1>7, <1>8, <2>1, <2>2 DEF CalculationOk, Present
  <2>3. CASE c # d
    BY <1>1, <1>8, <2>1, <2>3 DEF CalculationOk
  <2> QED BY <2>2, <2>3
<1>12. ForeignOk'
  <2>1. foreign # None => foreign.id \in CalcId /\ foreign.id # d
    BY <1>3 DEF CalcInv, ForeignOk, Present
  <2> QED BY <1>1, <1>8, <2>1 DEF CalcInv, ForeignOk
<1>13. DeletingOk'
  BY <1>1 DEF DeletingOk
<1>14. \A c \in CalcId : Present(c)' => Present(c) /\ c # d
  BY <1>7, <1>8 DEF Present
<1>15. RunOk'
  <2> DEFINE o == run.own
  <2>0. run \in RunRecord
    BY DEF CalcInv, Shapes
  <2>1. o \in CalcId \cup {None}
    BY <2>0 DEF RunRecord
  <2>2. step = "inserted" => calculation'[o] = None
    <3>1. step = "inserted" => o \in CalcId /\ calculation[o] = None
      BY <2>1 DEF CalcInv, RunOk
    <3> QED BY <1>3, <1>8, <3>1 DEF Present
  <2>3. step \in {"write", "save"} /\ o # None =>
          calculation'[o] # None /\ calculation'[o].by = runs /\ calculation'[o].file = Head(run.left)
    <3>1. step \in {"write", "save"} /\ o # None =>
            calculation[o] # None /\ calculation[o].by = runs /\ calculation[o].file = Head(run.left)
      BY DEF CalcInv, RunOk
    <3> QED BY <1>7, <1>8, <2>1, <3>1
  <2>4. step = "save" /\ run.status = "success" /\ o # None =>
          (calculation'[o] # None /\ calculation'[o].deleted = None => rows'[o] = "all")
    <3>1. step = "save" /\ run.status = "success" /\ o # None => (Present(o) => rows[o] = "all")
      BY DEF CalcInv, RunOk
    <3> QED BY <1>7, <1>8, <2>1, <3>1 DEF Present
  <2> QED BY <1>1, <2>2, <2>3, <2>4 DEF CalcInv, RunOk, Present
<1>16. BeforeOk'
  BY <1>1, <1>8, <1>14 DEF CalcInv, BeforeOk
<1>17. \A p \in protocol' : ProtocolOk(p)'
  <2>1. Stays
    <3> USE DEF Stays
    <3> TAKE c \in CalcId
    <3>1. CASE c = d
      BY <1>5, <1>7, <1>8, <3>1
    <3>2. CASE c # d
      BY <1>8, <3>2
    <3> QED BY <3>1, <3>2
  <2> QED BY <1>1, <1>5, <2>1, ProtocolsStay DEF CalcInv
<1> QED BY <1>10, <1>11, <1>12, <1>13, <1>15, <1>16, <1>17 DEF CalcInv

LEMMA ForeignInsertKeeps ==
  ASSUME CalcAssumption, CalcInv, NEW file \in Elsewhere, ForeignInsert(file)
  PROVE  CalcInv'
<1>1. /\ nextId <= MaxCalc /\ foreign' = [id |-> nextId, file |-> file] /\ nextId' = nextId + 1
      /\ UNCHANGED <<running, step, calculation, rows, deleting, runs, run, protocol>>
  BY DEF ForeignInsert, queueVars
<1>2. /\ nextId \in CalcId /\ nextId \in Nat /\ calculation[nextId] = None
      /\ \A c \in CalcId : c \in Nat
  BY <1>1 DEF CalcInv, Shapes, CalculationOk, CalcId, CalcAssumption
<1>3. Shapes'
  BY <1>1, <1>2 DEF CalcInv, Shapes, CalcId, CalcAssumption
<1>4. \A c \in CalcId : CalculationOk(c)'
  <2> TAKE c \in CalcId
  <2>1. CalculationOk(c) /\ (c < nextId => c < nextId')
    BY <1>1, <1>2 DEF CalcInv
  <2> QED BY <1>1, <2>1 DEF CalculationOk
<1>5. ForeignOk'
  <2>1. file \in File /\ nextId < nextId + 1
    BY <1>2 DEF CalcAssumption
  <2> QED BY <1>1, <1>2, <2>1 DEF ForeignOk
<1>6. DeletingOk'
  BY <1>1 DEF CalcInv, DeletingOk, Present
<1>7. RunOk' /\ BeforeOk'
  <2>0. run \in RunRecord
    BY DEF CalcInv, Shapes
  <2>1. step = "inserted" => run.own < nextId /\ run.own \in Nat
    BY <1>2, <2>0 DEF CalcInv, RunOk, RunRecord
  <2>2. step = "inserted" => run.own < nextId + 1 /\ nextId # run.own
    BY <1>2, <2>1
  <2>3. run.before # None /\ run.before < nextId => run.before < nextId + 1
    BY <1>2, <2>0 DEF RunRecord
  <2> QED BY <1>1, <2>2, <2>3 DEF CalcInv, RunOk, BeforeOk, Present
<1>8. \A p \in protocol' : ProtocolOk(p)'
  BY <1>1 DEF CalcInv, ProtocolOk, Linked, Present
<1> QED BY <1>3, <1>4, <1>5, <1>6, <1>7, <1>8 DEF CalcInv

LEMMA ForeignCommitKeeps ==
  ASSUME CalcAssumption, CalcInv, ForeignCommit
  PROVE  CalcInv'
<1> DEFINE f == foreign.id
           made == [file |-> foreign.file, by |-> 0, at |-> runs, deleted |-> None]
<1>1. /\ foreign # None /\ foreign' = None
      /\ calculation' = [calculation EXCEPT ![f] = made] /\ rows' = [rows EXCEPT ![f] = "all"]
      /\ UNCHANGED <<running, step, nextId, deleting, runs, run, protocol>>
  BY DEF ForeignCommit, Insert, queueVars
<1>2. /\ foreign \in [id : CalcId, file : File] /\ f < nextId /\ calculation[f] = None
      /\ runs \in Nat /\ run \in RunRecord
  BY <1>1 DEF CalcInv, ForeignOk, Shapes
<1>3. f \in CalcId /\ made \in Calculation /\ made # None
  BY <1>2 DEF Calculation, CalcAssumption
<1>4. /\ calculation'[f] = made /\ rows'[f] = "all"
      /\ \A c \in CalcId \ {f} : calculation'[c] = calculation[c] /\ rows'[c] = rows[c]
  BY <1>1, <1>3 DEF CalcInv, Shapes
<1>5. made.by = 0 /\ made.at = runs /\ made.deleted = None
  OBVIOUS
<1> HIDE DEF f, made
<1>6. Shapes'
  BY <1>1, <1>3 DEF CalcInv, Shapes, Rows
<1>7. \A c \in CalcId : CalculationOk(c)'
  BY <1>1, <1>2, <1>4, <1>5 DEF CalcInv, CalculationOk
<1>8. ForeignOk'
  BY <1>1 DEF ForeignOk
<1>9. DeletingOk'
  <2>1. deleting # None => deleting.calc \in CalcId /\ deleting.calc # f
    BY <1>2 DEF CalcInv, DeletingOk, Present
  <2> QED BY <1>1, <1>4, <2>1 DEF CalcInv, DeletingOk, Present
<1>10. RunOk'
  <2> DEFINE o == run.own
  <2>1. o \in CalcId \cup {None}
    BY <1>2 DEF RunRecord
  <2>2. step \in {"inserted", "write", "save"} /\ o # None => o \in CalcId \ {f}
    BY <1>1, <1>2, <2>1 DEF CalcInv, RunOk, f
  <2>3. step = "inserted" => o # None
    BY DEF CalcInv, RunOk
  <2> QED BY <1>1, <1>4, <2>2, <2>3 DEF CalcInv, RunOk, Present
<1>11. BeforeOk'
  BY <1>1, <1>4, <1>5 DEF CalcInv, BeforeOk, Present
<1>12. \A p \in protocol' : ProtocolOk(p)'
  <2>1. Stays
    BY <1>2, <1>4 DEF Stays
  <2> QED BY <1>1, <1>2, <2>1, ProtocolsStay DEF CalcInv
<1> QED BY <1>6, <1>7, <1>8, <1>9, <1>10, <1>11, <1>12 DEF CalcInv

\* The steps of the queue and of the files.
LEMMA OtherStepsKeep ==
  ASSUME CalcInv, UNCHANGED calcVars,
         running' \in CalcTask => running' = running,
         step' \in {step, "build", "store", "idle"}
  PROVE  CalcInv'
<1>1. UNCHANGED <<calculation, rows, nextId, foreign, deleting, runs, run, protocol>>
  BY DEF calcVars
<1>2. Shapes' /\ ForeignOk' /\ DeletingOk' /\ (\A c \in CalcId : CalculationOk(c)')
  BY <1>1 DEF CalcInv, Shapes, CalculationOk, ForeignOk, DeletingOk, Present
<1>3. RunOk' /\ BeforeOk'
  BY <1>1 DEF CalcInv, RunOk, BeforeOk, Present
<1>4. \A p \in protocol' : ProtocolOk(p)'
  BY <1>1 DEF CalcInv, ProtocolOk, Linked, Present
<1> QED BY <1>2, <1>3, <1>4 DEF CalcInv

LEMMA CalcStepKept ==
  ASSUME CalcAssumption, CalcInv, [Next]_vars
  PROVE  CalcInv'
<1>1. CASE CalcStep
  BY <1>1, StartCalcKeeps, ReadBeforeKeeps, EngineInsertKeeps, EngineCommitKeeps, EngineEndKeeps,
     SaveProtocolKeeps, StopKeeps DEF CalcStep
<1>2. CASE \E t \in FileTask : FileStep(t) /\ UNCHANGED calcVars
  <2> PICK t \in FileTask : FileStep(t) /\ UNCHANGED calcVars
    BY <1>2
  <2>1. running' \in {t, None, running} /\ step' \in {step, "build", "store", "idle"}
    BY DEF FileStep, StartFile, Build, Store, Return, Take, Goto, End
  <2>2. t \notin CalcTask /\ None \notin CalcTask
    BY DEF Task
  <2> QED BY <2>1, <2>2, OtherStepsKeep
<1>3. CASE Restart
  BY <1>3, StopKeeps
<1>4. CASE \E t \in Task : (Send(t) \/ Redeliver(t)) /\ UNCHANGED <<calcVars, fileVars>>
  <2>1. UNCHANGED <<running, step, calcVars>>
    BY <1>4 DEF Send, Redeliver, Arrives
  <2> QED BY <2>1, OtherStepsKeep
<1>5. CASE CalcAside
  BY <1>5, BeginDeleteKeeps, EndDeleteKeeps, ForeignInsertKeeps, ForeignCommitKeeps DEF CalcAside
<1>6. CASE \E t \in FileTask : FileAside(t) /\ UNCHANGED calcVars
  <2>1. UNCHANGED <<running, step, calcVars>>
    BY <1>6 DEF FileAside, Expire, ReadMeta, ReadData, queueVars
  <2> QED BY <2>1, OtherStepsKeep
<1>7. CASE UNCHANGED vars
  <2>1. UNCHANGED <<running, step, calcVars>>
    BY <1>7 DEF vars, queueVars
  <2> QED BY <2>1, OtherStepsKeep
<1> QED BY <1>1, <1>2, <1>3, <1>4, <1>5, <1>6, <1>7 DEF Next, Work

LEMMA Calculations == Spec => []CalcInv
<1>1. Init => CalcInv
  BY CalcAssumption, CalcInit0
<1>2. CalcInv /\ [Next]_vars => CalcInv'
  BY CalcAssumption, CalcStepKept
<1> QED BY <1>1, <1>2, PTL DEF Spec

\* What a run has made: one calculation, its own; and no protocol of it is kept
\* before it ends. What the desktop commits is whole.
RunsMade ==
  /\ step \in {"engine", "inserted", "write", "save"} =>
       /\ \A p \in protocol : p.run < runs
       /\ \A c \in CalcId : calculation[c] # None /\ calculation[c].by = runs =>
            step \in {"write", "save"} /\ c = run.own
  /\ \A p \in protocol, c \in CalcId : calculation[c] # None /\ calculation[c].by = p.run => c = p.own
  /\ \A c \in CalcId : Present(c) /\ calculation[c].by = 0 => rows[c] = "all"

\* A step that makes no calculation, and no protocol, leaves it so.
LEMMA RunsMadeStays ==
  ASSUME RunsMade, UNCHANGED <<runs, protocol>>,
         \A c \in CalcId : /\ calculation'[c] # None =>
                                calculation[c] # None /\ calculation'[c].by = calculation[c].by
                           /\ calculation'[c] # None /\ calculation'[c].deleted = None =>
                                /\ calculation[c].deleted = None
                                /\ calculation[c].by = 0 => rows'[c] = rows[c],
         step' \in {"engine", "inserted", "write", "save"} => step \in {"engine", "inserted", "write", "save"},
         step \in {"write", "save"} /\ step' \in {"engine", "inserted", "write", "save"} =>
           step' \in {"write", "save"} /\ run'.own = run.own
  PROVE  RunsMade'
<1>1. \A c \in CalcId : Present(c)' => Present(c) /\ calculation'[c].by = calculation[c].by
                                       /\ (calculation[c].by = 0 => rows'[c] = rows[c])
  BY DEF Present
<1>2. \A c \in CalcId : Present(c)' /\ calculation'[c].by = 0 => rows'[c] = "all"
  BY <1>1 DEF RunsMade
<1>3. step' \in {"engine", "inserted", "write", "save"} =>
        /\ \A p \in protocol' : p.run < runs'
        /\ \A c \in CalcId : calculation'[c] # None /\ calculation'[c].by = runs' =>
             step' \in {"write", "save"} /\ c = run'.own
  BY DEF RunsMade
<1>4. \A p \in protocol', c \in CalcId : calculation'[c] # None /\ calculation'[c].by = p.run => c = p.own
  BY DEF RunsMade
<1> QED BY <1>2, <1>3, <1>4 DEF RunsMade

LEMMA RunsMadeKept ==
  ASSUME CalcAssumption, CalcInv, RunsMade, [Next]_vars
  PROVE  RunsMade'
<1>0. /\ calculation \in [CalcId -> Calculation \cup {None}] /\ rows \in [CalcId -> Rows] /\ runs \in Nat
      /\ \A p \in protocol : p.run \in 1 .. runs
      /\ \A p \in protocol : p.calc # None => calculation[p.calc] # None
  BY DEF CalcInv, Shapes, ProtocolOk
<1> DEFINE On == {"engine", "inserted", "write", "save"}
<1>1. CASE UNCHANGED <<calculation, rows, runs, protocol>> /\ step' \notin On
  BY <1>1, RunsMadeStays
<1>2. CASE UNCHANGED <<calculation, runs, protocol, step>> /\ run'.own = run.own /\ UNCHANGED rows
  BY <1>2, RunsMadeStays
<1>3. CASE ReadBefore
  <2>1. /\ UNCHANGED <<calculation, rows, protocol>> /\ runs' = runs + 1 /\ step' = "engine"
    BY <1>3 DEF ReadBefore, Goto
  <2>2. \A c \in CalcId : calculation[c] # None => calculation[c].by # runs'
    BY <1>0, <2>1 DEF CalcInv, CalculationOk, Calculation
  <2> QED BY <1>0, <2>1, <2>2 DEF RunsMade, Present
<1>4. CASE EngineInsert \/ EngineUnconnected
  <2>1. UNCHANGED <<calculation, rows, runs, protocol>> /\ step = "engine" /\ step' \in {"inserted", "save"}
    BY <1>4 DEF EngineInsert, EngineUnconnected, Goto
  <2> QED BY <2>1, RunsMadeStays
<1>5. CASE EngineSucceeds \/ EngineFails
  <2>1. /\ UNCHANGED <<calculation, runs, protocol>> /\ step \in {"engine", "inserted", "write"} /\ step' = "save"
        /\ step = "write" => run'.own = run.own
        /\ rows' = rows \/ (step = "write" /\ rows' = Whole)
    <3>1. run \in RunRecord
      BY DEF CalcInv, Shapes
    <3> QED BY <1>5, <3>1 DEF EngineSucceeds, EngineFails, Goto, RunRecord, Whole
  <2>2. step = "write" => run.own \in CalcId /\ calculation[run.own].by = runs /\ runs # 0
    BY DEF CalcInv, RunOk, Shapes, RunRecord
  <2>3. \A c \in CalcId : calculation[c] # None /\ calculation[c].by = 0 => rows'[c] = rows[c]
    BY <1>0, <2>1, <2>2 DEF Whole
  <2> QED BY <2>1, <2>3, RunsMadeStays
<1>6. CASE EngineCommit
  <2> DEFINE o == run.own
             new == [file |-> Head(run.left), by |-> runs, at |-> runs, deleted |-> None]
  <2>1. /\ step = "inserted" /\ step' = "write" /\ UNCHANGED <<runs, run, protocol>>
        /\ calculation' = [calculation EXCEPT ![o] = new] /\ rows' = [rows EXCEPT ![o] = "some"]
    BY <1>6 DEF EngineCommit, Insert, Goto
  <2>2. o \in CalcId /\ runs # 0
    BY <2>1 DEF CalcInv, RunOk, Shapes, RunRecord
  <2>3. \A c \in CalcId : IF c = o THEN calculation'[c] = new
                                    ELSE calculation'[c] = calculation[c] /\ rows'[c] = rows[c]
    BY <1>0, <2>1, <2>2
  <2>4. new.by = runs
    OBVIOUS
  <2> HIDE DEF o, new
  <2>5. \A c \in CalcId : calculation'[c] # None /\ calculation'[c].by = runs => c = o
    BY <2>1, <2>3 DEF RunsMade
  <2>6. \A p \in protocol, c \in CalcId : calculation'[c] # None /\ calculation'[c].by = p.run => c = p.own
    BY <1>0, <2>1, <2>3, <2>4 DEF RunsMade
  <2>7. \A c \in CalcId : Present(c)' /\ calculation'[c].by = 0 => rows'[c] = "all"
    BY <2>2, <2>3, <2>4 DEF RunsMade, Present
  <2> QED BY <2>1, <2>5, <2>6, <2>7 DEF RunsMade, o
<1>7. CASE SaveProtocol
  <2>1. /\ UNCHANGED <<calculation, rows, runs>> /\ step = "save" /\ step' \notin On
    BY <1>7, Zenon DEF SaveProtocol, Proceed, Goto, End
  <2>2. \A p \in protocol' : p \in protocol \/ (p.run = runs /\ p.own = run.own)
    BY <1>7 DEF SaveProtocol
  <2>3. \A p \in protocol', c \in CalcId : calculation[c] # None /\ calculation[c].by = p.run => c = p.own
    BY <2>1, <2>2 DEF RunsMade
  <2> QED BY <2>1, <2>3 DEF RunsMade, Present
<1>8. CASE \E c \in CalcId : BeginDelete(c)
  <2>1. UNCHANGED <<calculation, rows, runs, run, protocol, step>>
    BY <1>8 DEF BeginDelete, queueVars
  <2> QED BY <2>1, RunsMadeStays
<1>9. CASE \E file \in Elsewhere : ForeignInsert(file)
  <2>1. UNCHANGED <<calculation, rows, runs, run, protocol, step>>
    BY <1>9 DEF ForeignInsert, queueVars
  <2> QED BY <2>1, RunsMadeStays
<1>10. CASE EndDelete
  <2> DEFINE d == deleting.calc
  <2>1. /\ UNCHANGED <<runs, run, protocol, step>> /\ deleting # None
        /\ calculation' = [calculation EXCEPT ![d].deleted = deleting.at]
        /\ \E left \in Left(d, deleting.held) : rows' = [rows EXCEPT ![d] = left]
    BY <1>10 DEF EndDelete, queueVars
  <2>2. d \in CalcId /\ calculation[d] # None /\ deleting.at \in Nat
    BY <2>1 DEF CalcInv, DeletingOk, Present
  <2>3. calculation[d] \in Calculation
    BY <1>0, <2>2
  <2>4. \A c \in CalcId \ {d} : calculation'[c] = calculation[c] /\ rows'[c] = rows[c]
    BY <1>0, <2>1, <2>2
  <2>5. calculation'[d].deleted = deleting.at /\ calculation'[d].by = calculation[d].by
    BY <1>0, <2>1, <2>2, <2>3 DEF Calculation
  <2>6. deleting.at # None
    BY <2>1, <2>2, CalcAssumption, TaskAssumption DEF CalcAssumption, TaskAssumption
  <2> HIDE DEF d
  <2> QED BY <2>1, <2>2, <2>4, <2>5, <2>6, RunsMadeStays
<1>11. CASE ForeignCommit
  <2> DEFINE o == foreign.id
             new == [file |-> foreign.file, by |-> 0, at |-> runs, deleted |-> None]
  <2>1. /\ UNCHANGED <<runs, run, protocol, step>> /\ foreign # None
        /\ calculation' = [calculation EXCEPT ![o] = new] /\ rows' = [rows EXCEPT ![o] = "all"]
    BY <1>11 DEF ForeignCommit, Insert, queueVars
  <2>2. o \in CalcId
    BY <2>1 DEF CalcInv, ForeignOk
  <2>3. \A c \in CalcId : IF c = o THEN calculation'[c] = new /\ rows'[c] = "all"
                                    ELSE calculation'[c] = calculation[c] /\ rows'[c] = rows[c]
    BY <1>0, <2>1, <2>2
  <2>4. new.by = 0
    OBVIOUS
  <2>5. step \in On => runs # 0
    BY DEF CalcInv, RunOk
  <2> HIDE DEF o, new
  <2>6. \A c \in CalcId : calculation'[c] # None /\ calculation'[c].by # 0 => calculation'[c] = calculation[c]
    BY <2>3, <2>4
  <2>7. \A p \in protocol, c \in CalcId : calculation'[c] # None /\ calculation'[c].by = p.run => c = p.own
    BY <1>0, <2>6 DEF RunsMade
  <2>8. \A c \in CalcId : Present(c)' /\ calculation'[c].by = 0 => rows'[c] = "all"
    BY <2>3 DEF RunsMade, Present
  <2> QED BY <2>1, <2>5, <2>6, <2>7, <2>8 DEF RunsMade
<1>12. CASE CalcStep
  <2>1. CASE \/ \E t \in CalcTask : StartCalc(t)
             \/ Refuse
    BY <1>1, <2>1 DEF StartCalc, Refuse, Take, End
  <2> QED BY <1>3, <1>4, <1>5, <1>6, <1>7, <1>12, <2>1 DEF CalcStep
<1>13. CASE \E t \in FileTask : FileStep(t) /\ UNCHANGED calcVars
  <2>1. step' \in {step, "build", "store", "idle"} /\ UNCHANGED <<calculation, rows, runs, run, protocol>>
    BY <1>13 DEF FileStep, StartFile, Build, Store, Return, Take, Goto, End, calcVars
  <2> QED BY <1>1, <1>2, <2>1
<1>14. CASE Restart
  BY <1>1, <1>14 DEF Restart, Crash
<1>15. CASE \/ \E t \in Task : (Send(t) \/ Redeliver(t)) /\ UNCHANGED <<calcVars, fileVars>>
            \/ \E t \in FileTask : FileAside(t) /\ UNCHANGED calcVars
            \/ UNCHANGED vars
  <2>1. UNCHANGED <<step, calculation, rows, runs, run, protocol>>
    BY <1>15 DEF Send, Redeliver, Arrives, FileAside, Expire, ReadMeta, ReadData, queueVars, calcVars, vars
  <2> QED BY <1>2, <2>1
<1> QED BY <1>8, <1>9, <1>10, <1>11, <1>12, <1>13, <1>14, <1>15 DEF Next, Work, CalcAside

\* Whoever opens a calculation that a run which says it succeeded has made, or that
\* its protocol names, sees all results, whatever was delivered again, killed, lost
\* or deleted meanwhile (SuccessIsWhole: run_sety_calculation, w_out,
\* delete_calculation).
THEOREM SuccessesAreWhole == Spec => []SuccessIsWhole
<1>1. CalcInv /\ RunsMade => SuccessIsWhole
  <2> SUFFICES ASSUME CalcInv, RunsMade, NEW p \in protocol, p.status = "success", NEW c \in Committed,
                      calculation[c].by = p.run \/ (c = p.calc /\ ~p.blind)
               PROVE  rows[c] = "all"
    BY Zenon DEF SuccessIsWhole
  <2>1. c \in CalcId /\ Present(c) /\ calculation[c] # None
    BY DEF Committed, Present
  <2>2. None \notin CalcId
    BY CalcAssumption, TaskAssumption DEF CalcId, CalcAssumption, TaskAssumption
  <2>3. c = p.own => rows[c] = "all"
    BY <2>1, <2>2 DEF CalcInv, ProtocolOk
  <2>4. CASE calculation[c].by = p.run
    BY <2>1, <2>3, <2>4 DEF RunsMade
  <2>5. CASE c = p.calc /\ ~p.blind
    <3>1. Linked(p)
      BY <2>5 DEF CalcInv, ProtocolOk
    <3>2. c = p.own \/ calculation[c].by = 0
      BY <2>1, <2>2, <2>5, <3>1 DEF Linked
    <3> QED BY <2>1, <2>3, <3>2 DEF RunsMade
  <2> QED BY <2>4, <2>5
<1>2. Init => RunsMade
  BY DEF Init, QueueInit, CalcInit, RunsMade, Present
<1>3. CalcInv /\ RunsMade /\ [Next]_vars => RunsMade'
  BY CalcAssumption, RunsMadeKept
<1> QED BY <1>1, <1>2, <1>3, Calculations, PTL DEF Spec

\* The protocol of a run is linked to its own calculation or to one of the desktop
\* that was committed while it ran (LinkedToItsRun: _max_calculation_id before and
\* after a run).
THEOREM LinksAreRight == Spec => []LinkedToItsRun
<1>1. CalcInv => LinkedToItsRun
  <2> SUFFICES ASSUME CalcInv, NEW p \in protocol PROVE ~p.blind => Linked(p)
    BY Zenon DEF LinkedToItsRun, Linked
  <2>1. p.blind \/ Linked(p)
    BY Zenon DEF CalcInv, ProtocolOk
  <2> QED BY <2>1, Zenon
<1> QED BY <1>1, Calculations, PTL

\* Results without their calculation are left only by a deletion that began while
\* the run that made them went on (NoOrphans: delete_calculation, w_out).
THEOREM OrphansAreExplained == Spec => []NoOrphans
<1>1. CalcInv => NoOrphans
  BY DEF CalcInv, Shapes, CalculationOk, NoOrphans, Present
<1> QED BY <1>1, Calculations, PTL
=============================================================================
