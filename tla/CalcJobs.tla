------------------------------ MODULE CalcJobs ------------------------------
(***************************************************************************)
(* Calculations run in the background (worker.py: run_sety_calculation):    *)
(* the engine (sety/w_out2.py: w_out), a program of its own, commits the    *)
(* row of a calculation before its results and these table by table; the    *)
(* worker finds afterwards which calculation a run has made and keeps the   *)
(* run's protocol; users delete calculations (database/calculation_admin.py)*)
(* and another program, the desktop, adds calculations of its own.          *)
(***************************************************************************)
EXTENDS TaskQueue, FiniteSetsExt

CONSTANTS
  File,    \* the fragments that are calculated
  Elsewhere, \* those that the desktop calculates
  List,    \* List[t]: the fragments of task t, in its order
  MaxCalc  \* bound: the ids of calculations

CalcId == 1 .. MaxCalc
Rows == {"none", "some", "all"}

\* A row of the table calculation: its fileid; the run that made it, 0 for the
\* desktop; the number of runs begun when it was committed and, once it is
\* deleted, when it was.
Calculation == [file : File, by : Nat, at : Nat, deleted : Nat \cup {None}]

ASSUME CalcAssumption ==
  /\ List \in [CalcTask -> Seq(File)] /\ \A t \in CalcTask : List[t] # <<>>
  /\ Elsewhere \subseteq File /\ MaxCalc \in Nat
  /\ None \notin Calculation

VARIABLES
  calculation, \* calculation[c]: the row with id c, kept when it is deleted
  rows,        \* rows[c]: how much of its results the tables *_out hold
  nextId,      \* the next value of the sequence of ids
  foreign,     \* the row that the desktop has inserted and not committed
  deleting,    \* the calculation that a deletion has found free of references, when,
               \* and the results it held then
  runs,        \* how many runs have begun
  run,         \* the run under way
  protocol     \* calculation_protocol: a run, its status, what it made and is linked to

calcVars == <<calculation, rows, nextId, foreign, deleting, runs, run, protocol>>

NoRun == [left |-> <<>>, before |-> None, own |-> None, status |-> "none"]

CalcInit ==
  /\ calculation = [c \in CalcId |-> None]
  /\ rows = [c \in CalcId |-> "none"]
  /\ nextId = 1
  /\ foreign = None
  /\ deleting = None
  /\ runs = 0
  /\ run = NoRun
  /\ protocol = {}

Present(c) == calculation[c] # None /\ calculation[c].deleted = None
Committed == {c \in CalcId : Present(c)}

\* max(id): the newest of some calculations, otherwise if there is none.
Newest(s, otherwise) == IF s = {} THEN otherwise ELSE Max(s)

Insert(c, file, by) ==
  calculation' = [calculation EXCEPT ![c] = [file |-> file, by |-> by, at |-> runs, deleted |-> None]]

-----------------------------------------------------------------------------
(* The worker.                                                             *)

StartCalc(t) ==
  /\ Take(t, "read")
  /\ run' = [NoRun EXCEPT !.left = List[t]]
  /\ UNCHANGED <<calculation, rows, nextId, foreign, deleting, runs, protocol>>

\* _max_calculation_id before a run, 0 of an empty table; an error leaves None.
ReadBefore ==
  /\ running \in CalcTask /\ step = "read"
  /\ runs' = runs + 1
  /\ \E before \in {Newest(Committed, 0), None} : run' = [run EXCEPT !.before = before, !.own = None]
  /\ Goto("engine")
  /\ UNCHANGED <<calculation, rows, nextId, foreign, deleting, protocol>>

\* w_out inserts the row of the calculation.
EngineInsert ==
  /\ running \in CalcTask /\ step = "engine" /\ nextId <= MaxCalc
  /\ run' = [run EXCEPT !.own = nextId]
  /\ nextId' = nextId + 1
  /\ Goto("inserted")
  /\ UNCHANGED <<calculation, rows, foreign, deleting, runs, protocol>>

\* The first of the out functions commits it; its results follow table by table.
EngineCommit ==
  /\ running \in CalcTask /\ step = "inserted"
  /\ Insert(run.own, Head(run.left), runs)
  /\ rows' = [rows EXCEPT ![run.own] = "some"]
  /\ Goto("write")
  /\ UNCHANGED <<nextId, foreign, deleting, runs, run, protocol>>

\* The results of w_out at its end: whole, unless the calculation was deleted
\* while it wrote them.
Whole == [rows EXCEPT ![run.own] = IF Present(run.own) THEN "all" ELSE "some"]

\* The engine cannot connect to the database: it says so and exits, with success.
EngineUnconnected ==
  /\ running \in CalcTask /\ step = "engine"
  /\ run' = [run EXCEPT !.status = "success"]
  /\ Goto("save")
  /\ UNCHANGED <<calculation, rows, nextId, foreign, deleting, runs, protocol>>

\* It has calculated, and exits with success.
EngineSucceeds ==
  /\ running \in CalcTask /\ step = "write"
  /\ rows' = Whole
  /\ run' = [run EXCEPT !.status = "success"]
  /\ Goto("save")
  /\ UNCHANGED <<calculation, nextId, foreign, deleting, runs, protocol>>

\* Mutant: what the engine exits with is not looked at.
FailedNever == "success"

\* The status of a run whose engine has exited with an error.
Failed == "error"

\* It exits with an error or is killed at the time limit, at any time: an insert
\* that was not committed is undone, results that were are not.
EngineFails ==
  /\ running \in CalcTask /\ step \in {"engine", "inserted", "write"}
  /\ run' = [run EXCEPT !.status = Failed, !.own = IF step = "write" THEN @ ELSE None]
  /\ \/ UNCHANGED rows
     \/ step = "write" /\ rows' = Whole
  /\ Goto("save")
  /\ UNCHANGED <<calculation, nextId, foreign, deleting, runs, protocol>>

\* Mutant: id >= calc_before.
MadeSince(file, before) ==
  {c \in Committed : calculation[c].file = file /\ c >= (IF before = None THEN 0 ELSE before)}

\* The calculations of a file newer than the newest one before the run.
Made(file, before) ==
  {c \in Committed : calculation[c].file = file /\ c > (IF before = None THEN 0 ELSE before)}

\* The list goes on with its next fragment, or the task returns.
Proceed ==
  IF Len(run.left) > 1 THEN run' = [NoRun EXCEPT !.left = Tail(run.left)] /\ Goto("read")
                       ELSE run' = NoRun /\ End("SUCCESS")

\* _save_protocol: the run's protocol with the newest of these calculations; an
\* error leaves no protocol.
SaveProtocol ==
  /\ running \in CalcTask /\ step = "save"
  /\ \/ protocol' = protocol \cup
          {[run |-> runs, status |-> run.status, blind |-> run.before = None, own |-> run.own,
            calc |-> Newest(Made(Head(run.left), run.before), None)]}
     \/ UNCHANGED protocol
  /\ Proceed
  /\ UNCHANGED <<calculation, rows, nextId, foreign, deleting, runs>>

\* The task refuses its parameters and raises.
Refuse ==
  /\ running \in CalcTask /\ step = "read" /\ run.left = List[running]
  /\ run' = NoRun
  /\ End("FAILURE")
  /\ UNCHANGED <<calculation, rows, nextId, foreign, deleting, runs, protocol>>

-----------------------------------------------------------------------------
(* Users and the desktop.                                                  *)

\* delete_calculation locks the row and looks for references: a protocol is one.
BeginDelete(c) ==
  /\ deleting = None /\ Present(c)
  /\ ~\E p \in protocol : p.calc = c
  /\ deleting' = [calc |-> c, at |-> runs, held |-> rows[c]]
  /\ UNCHANGED <<queueVars, calculation, rows, nextId, foreign, runs, run, protocol>>

\* Mutant: its results stay.
LeftKept(c, held) == {rows[c]}

\* Its results go table by table, but for those that are written meanwhile.
Left(c, held) == IF rows[c] = held THEN {"none"} ELSE {"none", "some"}

\* It commits.
EndDelete ==
  /\ deleting # None
  /\ deleting' = None
  /\ \E left \in Left(deleting.calc, deleting.held) : rows' = [rows EXCEPT ![deleting.calc] = left]
  /\ calculation' = [calculation EXCEPT ![deleting.calc].deleted = deleting.at]
  /\ UNCHANGED <<queueVars, nextId, foreign, runs, run, protocol>>

\* The desktop inserts a calculation,
ForeignInsert(file) ==
  /\ foreign = None /\ nextId <= MaxCalc
  /\ foreign' = [id |-> nextId, file |-> file]
  /\ nextId' = nextId + 1
  /\ UNCHANGED <<queueVars, calculation, rows, deleting, runs, run, protocol>>

\* and commits it.
ForeignCommit ==
  /\ foreign # None
  /\ Insert(foreign.id, foreign.file, 0)
  /\ rows' = [rows EXCEPT ![foreign.id] = "all"]
  /\ foreign' = None
  /\ UNCHANGED <<queueVars, nextId, deleting, runs, run, protocol>>

CalcStep ==
  \/ \E t \in CalcTask : StartCalc(t)
  \/ ReadBefore \/ EngineInsert \/ EngineCommit \/ SaveProtocol \/ Refuse
  \/ EngineUnconnected \/ EngineSucceeds \/ EngineFails

CalcAside ==
  \/ EndDelete \/ ForeignCommit
  \/ \E c \in CalcId : BeginDelete(c)
  \/ \E file \in Elsewhere : ForeignInsert(file)

-----------------------------------------------------------------------------

\* A protocol is linked to the calculation its run made, or to one of another
\* program that was committed while it ran; to none only if the run has left none.
\* (A run is blind if the newest id could not be read before: it may be older.)
LinkedToItsRun ==
  \A p \in protocol : ~p.blind =>
    \/ p.calc = p.own
    \/ p.calc = None /\ ~Present(p.own)
    \/ p.calc # None /\ calculation[p.calc].by = 0 /\ calculation[p.calc].at = p.run

\* The calculations that a successful run has made, and the one its protocol is
\* linked to, have all their results as long as they are there, whatever was
\* killed, lost or deleted meanwhile. (A success may have made none, if the engine
\* could not connect; the link of a blind run may be to an older calculation.)
SuccessIsWhole ==
  \A p \in protocol : p.status = "success" =>
    \A c \in Committed :
      calculation[c].by = p.run \/ (c = p.calc /\ ~p.blind) => rows[c] = "all"

\* Results without a calculation are left only by a deletion that began while
\* the run that made them was under way.
NoOrphans ==
  \A c \in CalcId : calculation[c] # None /\ ~Present(c) /\ rows[c] # "none" =>
    calculation[c].deleted = calculation[c].by
=============================================================================
