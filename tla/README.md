# Formal model of the tgid server

tgid-server is the back end of a geographic information system of district-heating
networks: a FastAPI application (`itwin-api`, two workers behind gunicorn) over
PostgreSQL/PostGIS, with a Celery worker and Redis for calculations and heavy exports.
This directory holds TLA+ modules that model the part of it where mistakes are easiest to
make and hardest to test, the configurations that TLC checks them with, and proofs checked
by TLAPS.

Contents: [the system](#the-system) · [the modules](#the-modules) ·
[what is checked](#what-is-checked) · [bounds and fairness](#bounds-and-fairness) ·
[what is proved](#what-is-proved) · [disagreements found](#disagreements-found) ·
[not modelled](#not-modelled)

## The system

| Component | Code (`itwin-api/`) | State | Operations |
| --- | --- | --- | --- |
| network editor | `database/topology.py` | rows of `nodes`, `linesobj`, `heatpipesections` and ~40 tables that refer to them | move, create, delete, merge nodes; create, delete, split, reverse lines, change their geometry |
| node types | `database/node_types.py` | the card tables of a node and its two flags | change type, set or clear a flag |
| dissolving | `database/topology_dissolve.py` | as the editor | remove a node by joining its two lines or pairs |
| transfer rules | `database/topology_transfer.py` | – | which half of a split line, or which node of a merge, a row goes with |
| undo journal | `database/topology_journal.py`, `topology.py` 1578–1770 | `topology_undo_log`: images before, hashes after, `created_at`, `undone_at`, `after_rows` | capture, commit, undo, redo |
| history | `database/topology_history.py` | the same table | list, undo down to an operation |
| chains | `database/topology_cad.py` | as the editor | draw a chain of nodes and lines at once |
| diagnostics | `database/topology_diagnostics.py` | – | reports only |
| calculations | `worker.py`, `routers/calc.py`, `database/calculation_admin.py` | Celery tasks, `calculation`, `*_out`, `calculation_protocol`, temporary files | run, run a list, attribute the protocol, delete |
| background files | `database/file_jobs.py`, `routers/file_jobs.py` | two Redis keys per task, with a time to live | start, status, download |
| sign-in | `auth.py`, `routers/auth_routes.py`, `database/users_admin.py` | users, tokens, a status cache in each process | sign in, check the live status, edit a user |
| login guard | `login_guard.py` | windows of failures in each process | check, record failure, record success |
| cards | `database/card_edit.py`, `typed_edit.py`, `card_batch.py`, `group_setters.py` | attribute rows with versions | save a card, a batch |
| audit, activity | `audit.py`, `activity.py` | `audit_log`, `activity_log` | append |
| outage simulation | `database/outage_simulation.py` | a cached network in each process | load, invalidate, search |
| rights, cities | `permissions.py`, `cities.py`, `database/authorship.py` | – | decide |
| registries, import, reports, engine, calculators | the rest | rows, files | insert, format, compute |

How they interact. The routes call the editor; every edit is one transaction (`_run`): it
locks the objects (`SELECT … FOR UPDATE`), compares the versions the client sent, captures
images of the rows it is about to change, changes them, and at the end the journal adds an
entry with the images before and the hashes after. Undo takes the user's last entry that is
not undone, locks and compares its rows with the hashes, and restores the images; redo does
the reverse, with the images the undo kept. After a commit the outage cache of the process
is dropped. The calculation reads what the editor has written – the lines, their ends, and
above all the length in the pipe's passport.

What is hard, per component, and what makes it correct:

* **editor** – an operation spans several tables whose rows must stay in agreement: an
  active line needs two nodes that exist and are not removed; its geometry ends at them; the
  passport repeats the length of the geometry; equipment stays at an end of its line. No
  foreign key guards any of it.
* **journal** – which rows an operation captures is written apart from which rows it
  changes; an image is restored over whatever was done in between; undo is per user while
  the rows are common; the undo stack is derived from two timestamps.
* **transactions** – PostgreSQL's READ COMMITTED: rows read before a lock may have changed
  when the lock is granted.
* **cards and batches** – a person looks between the reading of a row and its change; the
  image for the journal is read before the lock, the undo of a batch compares without one.
  Correct is: what is overwritten is what the user saw, and what the records say it was.
* **sign-in and status** – a status is loaded across an await and kept by each process for
  itself; who may edit users is decided on it, and the last administrator must remain.
* **login guard** – the check, the verification and the counting of a failure are apart, with
  other requests in between; the counters expire lazily, from the front of a queue.
* **worker** – the engine is another program that commits as it goes, killed at a time limit;
  what it made is found afterwards; tasks are delivered more than once or lost in a crash;
  users delete and another program adds calculations meanwhile.
* **files** – the file, its description and the state of the task are in three places.
* **outage simulation** – the network is read by three statements, across awaits, and kept for a
  minute by each process; what is isolated, what is to be closed and what loses its supply come
  from three searches that stop at different things and must agree.

The same list, line by line and with the property that covers each item or the reason why
none does, is under `hazards` in `PROJECT.json`.

## The modules

    TopologyRows         rows, reports and SQL statements, as operators on a database value
      TopologyEditor     the state machine: operations, journal, undo, redo
        TopologyProps    invariants, action properties, the refinement of
          UndoStack        an abstract undo stack
          MCTopology     small networks for TLC
          TopologyHistory  the loop that undoes down to an operation
            MCHistory        with the networks of MCTopology
          TopologyProofs   THEOREMS TypeCorrect, CaptureComplete, LengthsCorrect
            HistoryProofs    (with TopologyHistory) THEOREMS JournalIsAStack,
                             RollbacksAreExact, RowsTellTheirHistory, SoleUserTellsHistory,
                             NetworkTellsItsHistory, LinesHaveNodes, LinesEndAtNodes,
                             RegulatorsStay, FlagsAreSingle, TypesAreSingle
      TopologyLocks        the same operations statement by statement, with row locks
        MCLocks              small networks for TLC
        LockProofs           THEOREMS CirclesHaveUndos, ImagesAreFresh

    LiveStatus           the status of accounts, their caches, the administration of users
      MCStatus             small sets for TLC
      StatusProofs         THEOREMS StatusTypes, StatusesFresh, DropsReach, AdminsRemain

    CardEdit             cards, batches of changes and their undo, with row locks
      MCCards              two rows, three requests
      CardProofs           THEOREMS CardTypes, SavesOverwriteSeen, ImagesAreOverwritten,
                           AuditIsTrue, CirclesNeedOrders

    LoginGuard           the counters of failed sign-ins
      MCGuard              two logins of one address
      GuardProofs          THEOREMS CountsAreTrue, OvershootIsBounded, AdviceIsEnough

    TaskQueue            tasks as Celery handles them
      CalcJobs             calculations: the engine, protocols, deletion
      FileJobs             files in Redis
        Jobs                 both on one worker
          MCJobs               a list of two fragments and a file
          JobsProofs           THEOREMS FilesAreThere, NoOlderFiles, SuccessesAreWhole,
                               LinksAreRight, OrphansAreExplained

    OutageZone           the searches of an outage in a network
      Outage               the network a process keeps, and the requests that search it
        MCOutage             a ring with two sources
        OutageProofs         THEOREMS ZonesAreExact, ZonesAreDry, LostAreExact,
                             NetworksAreFresh, DropsReach

**TopologyRows.** A database is a function from the journal's keys `table:id` to a row or
`NULL`. Rows keep what the properties tell apart. A node has a position, a `removed` mark and
`archivechangedate` (`stamp`). A line has its two nodes, `externalsignlineid`, and a `shape`
of the positions of its ends and one bit for interior vertices. A passport (one per line,
under the line's id) has the length, which is a function `Length` of the shape that is the
same both ways and changes with the ends and with the vertices. Of the tables that refer to
a node or a line, one is kept for each class of the transfer rules: `pressregulators` (has a
line and a node; NODE rule of the split, MULTI of the merge), `dampers` (a line only; REVIEW,
the operator decides), `heatsources` (card of a type, SINGLETON), `realconsumers` (card of a
type, MULTI), `setpressnodes` (flag, SINGLETON). The operators are the queries
(`Incident`, `NodeRefs`, `FindPair`, …), the statements (`RemoveLines`, `SnapEnds`,
`Measured`, `Restore`, …) the operations share, and what each operation does to the rows in
all (`NodeMoved`, `NodesMerged`, …), which both state machines use. `NodesMerged` leaves out
`internalnodeid` (class INTERNAL: lines and nodes of an internal scheme follow to the target
without a stamp, `topology_transfer.py:357`, `:382`, `:430`), as no internal scheme is modelled.

**TopologyEditor.** State: `db`, `journal` (the table by id), `seq` (the sequences), `clock`
(the time of the next transaction). One action per operation: `MoveNode`, `DeleteNode`,
`CreateNode`, `CreateLine`, `DeleteLine`, `SplitLine`, `ReverseLine`, `UpdateGeometry`,
`MergeNodes`, `DissolveNode`, `ChangeNodeType`, `SetFlag`, `ClearFlag`, `Undo`, `Redo`. An
action's guard holds the refusals of the code, its `Commit` the keys the code captures and
the rows it leaves; the two are stated apart, as in the code, so that a forgotten capture
would be seen. An entry keeps images where the code keeps md5 sums of them. A step is a whole
transaction, and a client that sent an outdated version is a client whose step does not
happen. A `dry_run` is rolled back and is no step. `ChangeNodeType` leaves out what a change
from the type PR does besides: it removes the lines, passports and nodes of the node's internal
scheme (`node_types.py:196-212`, captured there).

**UndoStack.** What undo and redo promise: per user a line of operations and a cursor.

**TopologyProps.** The properties of the editor, below. Definitions whose comment starts with "A bug" or "Mutant" are variants of the definition
that follows them, with a plausible mistake; they are used nowhere and serve to see that the properties notice.

**TopologyHistory.** `undo_to`: `rollback` is the request of a user that undoes down to an
operation of the list: the target, what it has undone, the turns it has left
(`HISTORY_LIMIT`). Each turn of the loop is an `Undo` of `TopologyEditor`, a transaction of its
own; between two turns the same user in another tab, and the others, do what they like.
`StopRollback` is an undo that is refused or fails. One request at a time is followed, because
to it the requests of others are so many undos.

**TopologyLocks.** Ten operations as the statements they send, to nodes, lines and passports:
`Begin` and the first lock; then what each operation reads, locks, captures and updates, in the
order of the code (`FindIncident`, `CapturePlan`, `CapturePassports`, `RemovePlan`,
`RemovePassports` for `delete_node`; `CaptureNode`, `CapturePassports`, `Starts`, `Finishes`,
`Lengths` for `move_node`; `FindConnecting`, `ClaimIncident`, … for `merge_nodes`;
`PlanDissolve`; `WriteLines` for a dissolve and the operations on one line; `UndoPipes`,
`UndoLines`, `UndoNodes`); `Write`, for what is left once all rows are locked; `Commit`. An
operation locks its line, or updates lines it has found, and its last `UPDATE` of the passports
comes to these; an undo locks the rows of its entry table by table in the order of the names
(`current_hashes`): passports, lines, nodes. State: `db` (what is committed), `clock`, `tx` (for
each session the request, the statement that runs, the rows it has yet to lock, those it holds,
what earlier statements have chosen, the images, the transaction's own writes), `last` (the last
journal entry of each session). A statement sees `db` as it is when the statement begins,
overlaid with the transaction's own writes (`View`). `Take` gets one row for it: it waits until
no other transaction holds the row, and an `UPDATE` then evaluates its condition again on the
newest version, as PostgreSQL does at READ COMMITTED, but for the tables it only joins: a
passport that was waited for gets the length of the line as the statement first saw it
(`sizes`). A lock is kept to the end of the transaction even when the condition no longer holds.
`SELECT … ORDER BY id FOR UPDATE` takes its rows in the order of ids, an `UPDATE` in any.
`Refuse`, `Victim` (the database breaks a cycle) and `Lost` (the connection goes) roll back. Left
out: references (they are moved under the lock of their node), the pair that a deletion or a
reversal may take along, types and flags, redo. An id from a sequence is a function of the
transaction's number, since a sequence is not rolled back. What an operation does to the rows in
all (`Effect`) comes from `TopologyRows`, so the two state machines say the same of an
undisturbed operation.

**LiveStatus.** State: `row` (the table of users, each row numbered by its edits), `cache`
(per process, `_user_status_cache`), `req` (the requests), `clock`. A request is a coroutine:
`Receive` is `apply_live_user_status` up to its await (a cache hit decides at once), `Load`
the SELECT, `LoadFails` the database that does not answer (the token is trusted), `Store` the
rest. An admitted administrator goes on to `ReadRow`, `CountAdmins`, `Write` (`update_user`,
`delete_user`, a statement each) and `Drop` (`invalidate_user_status` in the process that made
the edit). `till`, `floor` and `overlap` are history variables: when a row was replaced, what a
process had last dropped, whether two edits were ever under way at once.

**CardEdit.** One table whose rows have a version (`xmin`) and cells. A request is a card
(`OpenCard`, then, as statements of one transaction, `Capture` for the journal, `SaveRow` per
row, `Commit`), a batch (`Preview`, `LockRow` per row, `Apply`) or the undo of a batch
(`BeginUndo`, `Compare` and `Restore` per row, `EndUndo`). A batch has a plan for each of the two
columns of the card that it changes (the supply and the return lines), in the order in which the
client named them; `LockRow` goes through a plan in the order of ids and then through the next
(`Place`). The table has no audit trigger, so the code itself reports what was overwritten. Between the client's reading and
its request anything may happen. `lock` is held to the end; `Fail` ends a transaction at any
point.

**LoginGuard.** `fails` is `_fails` for one address: a queue of times per login and one for
the address. `Check`, `Failure` and `Success` run between awaits and are one action each;
`verifying` is what lies between them. `happened` (the answers 401 that should count) and
`promised` (when a refused client was told to come back) are history variables.

**TaskQueue, CalcJobs, FileJobs, Jobs.** `TaskQueue` is the part of Celery the code relies on,
as configured: one worker process (`--concurrency=1`), early acknowledgement (a crash loses
the task), a Redis broker that delivers a task again when it waits longer than the visibility
timeout, a result backend that keeps `SUCCESS` once it has it. `CalcJobs` is
`run_sety_calculation`: for each fragment of the list `ReadBefore` (`_max_calculation_id`),
the engine (`EngineInsert`, `EngineCommit` – the row and with it the first table of results –,
`EngineSucceeds`, `EngineFails` at any point, and `EngineUnconnected`: the engine that gets no
connection says so and exits as one that has calculated) and `SaveProtocol` with the search for the
calculation that was made; beside it `delete_calculation` in two steps and the desktop program
that adds calculations. `FileJobs` is `build_file_job`, the two keys of `store_result`, their
expiry and the two reads of a download. `Jobs` puts both on one worker and states its
fairness.

**OutageZone, Outage.** `OutageZone` is the search of `simulate_outage` in one network: a graph
of lines between nodes, with valves, open or closed, on the lines and inside the nodes, and with
sources. `BeginLine` and `BeginNode` start it, `Visit` is one turn of its loop (the lines of a
node: a line with valves is named and not passed, a node with valves inside is named and not
entered), `Before` and `After` start the two runs of `reachable_from_sources`, `Flow` is one
turn of them, `Lose` their difference. The code's queue and stack are sets, so every order is
checked. `Outage` adds the cache of a process: `Receive` is a hit or the first query,
`ReadLines`, `ReadValves` and `Store` are the answers of the three queries, each with an await
before it, and `Begin` starts a search in what was read; `Commit` is an edit, of this process or
another, and `Drop` is `invalidate_outage_cache`. A request searches the network it was given,
which nobody changes, so the module lets nothing else happen until its searches end. The code
awaits between the first search and the last two, for the geometry and the consumers of the zone
(`:373`, `:407`); what comes in there can change the cache and the database, not the network of
the request. These parts of the answer, and the loads and lengths, are not modelled. The states of the database are numbered by the edits, and `till` and
`floor` are history variables, as in `LiveStatus`.

## What is checked

| Run | Network, users, operations | Properties |
| --- | --- | --- |
| `solo` | two pipes, one user, any 2 operations, 6 steps with undo and redo | `TypeOK`, `EndsActive`, `LinesFollowNodes`, `LengthsFollowLines`, `RegulatorsAtEnds`, `OneFlagPerNode`, `JournalCovers` |
| `pairs` | two pairs of supply and return, one user, 3 operations, 4 steps | `EndsActive`, `LinesFollowNodes` |
| `stack` | two nodes, two users, 3 changes of type, 9 steps with undo, redo and `undo_to` | `RowHistory`, `UndoIsAStack`, `OneTypePerNode`, `RollbackExact` |
| `nodes` | statements of two sessions, three nodes and four lines, one of them removed; the operations on nodes, deletion and geometry of a line | `Serial` |
| `lines` | statements of two sessions, two lines; the operations that lock a line, new lines, undo; three transactions | `CirclesNeedUndos`, `ImagesFresh` |
| `end` | statements of two sessions, three nodes in a row; merges, dissolves and undos; three transactions, under `FairSpec` | `TransactionsEnd` |
| `accounts` | two processes, two administrators, two of three requests at a time; visits, blocking, deletion | `TypeOK`, `StatusFresh`, `DropReaches`, `AdminRemains` |
| `last_admin` | the same with two requests | `AdminAlwaysRemains`, which is violated, see [below](#disagreements-found) |
| `cards` | two rows of two columns, three requests of any kind, batches of up to two plans | `TypeOK`, `SavesSeen`, `JournalImages`, `AuditTrue`, `CirclesNeedPlans` |
| `guard` | two logins, three requests at a time, limits of two and three, a window of four | `CountsTrue`, `OvershootBounded`, `AdviceSuffices` |
| `worker` | a list of two fragments, a file delivered twice, one crash, one calculation of the desktop's at most, under the fairness of `Spec` | `LinkedToItsRun`, `SuccessIsWhole`, `NoOrphans`, `NoOlderFile`, `SuccessHasFile`, `TasksBecomeReady` |
| `outage` | a ring of three nodes with a source on it and another on a spur, valves open or absent on one of its lines and inside one node, open or closed on another, two requests at a time, one edit | `ZoneExact`, `ZoneDry`, `LostExact`, `NetworkFresh`, `DropReaches` |

* `EndsActive`: an active line connects two nodes that are there and not removed.
* `LinesFollowNodes`: the geometry of an active line ends at its nodes.
* `LengthsFollowLines`: a passport's length is the length of its line, removed lines
  included, since an undo brings them back.
* `RegulatorsAtEnds`: a regulator on an active line stands at one of its ends, and the line of
  any equipment is there, if only as a removed one.
* `OneFlagPerNode`, `OneTypePerNode`: a flag is set once; the cards of a node are of one type,
  and the node of a card is there.
* `JournalCovers` (an action property): an operation changes only rows it has captured.
* `RowHistory`: each row is what the operations that are not undone made of it, one after the
  other, each from the row the previous one left. No undo or redo goes over another's change.
* `UndoIsAStack` (refinement): with `done` and `redo` read from `undone_at` and `created_at`,
  the journal implements `UndoStack`.
* `RollbackExact` (an action property): a request to undo down to an operation that ends with
  the answer "complete" leaves none of the user's operations from that one on, and none is
  undone after the target, whatever another tab has undone, redone or added in between.
* `Serial` (an action property): whatever came in between its statements, a transaction that
  commits does to the committed nodes, lines and passports what the operation would have done to them
  alone. This is the atomicity that `TopologyEditor` takes for granted; it holds among the
  operations of `nodes`, where the lock on the node stands for its lines, and not for those of
  the violations below, which change a line and lock no node.
* `ImagesFresh` (an action property): the journal's images are of the rows the operation
  overwrote, and of all of them, passports included.
* `CirclesNeedUndos`: sessions wait for each other's rows in a circle only if one of them is an
  undo that holds passports and has come to its lines, and another an operation that has locked
  its line and come to its passport. Operations on lines alone, and undos alone, never do.
  `NoDeadlock` (no circle at all), which the code promises, is not true, see
  [below](#disagreements-found).
* `TransactionsEnd` (liveness): every transaction commits or rolls back.

* `StatusFresh`: no request is let through or refused on a status that was replaced a
  `USER_STATUS_TTL` or more before the request came, in whichever process. It is why the stamp
  of an entry is taken before its load and not after it. `DropReaches`: once a process has
  dropped an account with no load of it under way, its requests are decided on the edited row.
* `AdminRemains`: as long as no two edits overlap there is an active administrator, even
  though an edit may be made by somebody who no longer is one (a cache, a token).
* `SavesSeen`: a card whose versions were sent overwrites the rows its user saw.
  `JournalImages`: the journal's images, read before the locks, are those rows. `AuditTrue`:
  what `audit_log` is told was overwritten is what was (of an undo of a batch: if the row did
  not change between its comparison and its `UPDATE`). `CirclesNeedPlans`: requests wait in a
  circle only if one of them waits for a row with an id below that of a row it holds, and it is
  a card that names its rows so, or a batch that has gone from one plan to the next.
* `CountsTrue`: the queues, expired lazily and cleaned by the age of their last failure, count
  exactly the failures of the window since the login's last success. `OvershootBounded`:
  requests that verify at once exceed the limit by no more than those under way beside the one
  that reaches it. `AdviceSuffices`: whoever waits as long as the answer 429 says finds the key
  open, if the limit had not been overshot and nobody has failed since.
* `LinkedToItsRun`: a protocol is linked to the calculation its run made, or to one of the
  desktop's committed while it ran, or to none if the run has left none; a run that could not
  read the newest id before is excepted. `SuccessIsWhole`: what a run
  with a protocol that says success has calculated, and the calculation that the protocol names
  (a blind run excepted), has all results until it is deleted. A success need not have
  calculated anything, see [below](#disagreements-found). `NoOrphans`: results without a
  calculation are left only by a deletion that began while the engine wrote them.
* `NoOlderFile`: a download never answers with an older file than the description it read.
  `SuccessHasFile`: a task that says success has stored its file (it may have expired).
* `TasksBecomeReady` (liveness): every task that is sent ends in `SUCCESS` or `FAILURE`, unless
  a crash of the worker loses it, in which case its state stays `PROGRESS` for ever.
* `ZoneExact`: the answer isolates the nodes that the damage reaches without passing a valve, and
  no others. `ZoneDry`: once the valves it names are closed, no source outside the zone reaches
  into it, from whichever side. `LostExact`: the nodes said to lose their supply are those
  outside the zone that have a source in normal operation and none without the zone and the
  damaged line, although the second search of the code takes out more lines than those.
* `NetworkFresh`: no search is based on a line, a valve or a source that was replaced a TTL or
  more before its request came, though the three are read at different times. `DropReaches` (of
  `Outage`): after an edit has dropped the network with no load under way, later requests see it.

With one user the network stays consistent through every undo and redo (`solo`, and proved);
with two it need not, see below. What does hold for any users is that images are never restored
over a change (`RowHistory` in `stack`, proved without merges) and that lengths never part from
lines (proved). `solo` is the stronger statement it may look not to be: that redo is closed by a
new operation, and that an image differs in `stamp` after another operation and after its undo,
are both needed for it.

`OneTypePerNode` does not hold once nodes are merged, so it is checked where they are not.

## Bounds and fairness

Ids come from sequences up to `MaxNode`, `MaxLine`, `MaxCard`; an operation that needs an id
beyond them does not happen. `MaxOps` bounds the journal, `MaxClock` the transactions, undos
and redos included. There are three positions, so that a node can be moved to a place of its
own, to another node's or back. Two operations with undo and redo are enough for every way in
which one operation can build on, or spoil, another; the three of `pairs` reach a split, a
reversal and a dissolve of the outcome. In `stack` three operations and six undos and redos let a
user redo below a redo and have an operation closed in the middle; a request of `undo_to` has two
turns, so that it may reach its limit before its target. The initial network has a damper, a regulator, a card
and a flag so that the transfer rules have something to decide. `CHECK_DEADLOCK FALSE`: the
bounds end every behaviour, and an editor may be left alone.

In `TopologyLocks` `MaxClock` bounds the transactions: two, one against the other, show every
way in which the statements of two operations can fall; three where there is undo, so that it has
something to undo while another session runs. In `nodes` there is none; in `lines` it meets the
operations that lock a line, with the circles of `CirclesNeedUndos` (a line is redrawn while
another session undoes its change of it); in `end` it meets those on nodes, with circles of an
undo that has its lines and an operation that has its nodes. `end` has the two operations whose
statements are of every kind: a merge (locks of nodes and lines, images, removals, both `UPDATE`s
of ends, lengths) and a dissolve (a plan, locks, and the statements that the operations on one
line end with); a move and a deletion of a node send a part of the merge's. The last `MaxClock` ids of nodes and of lines are for the
transactions. The network of `nodes` has two lines between the same nodes in opposite
directions (a merge removes them), a line beyond (a merge relinks it) and a removed line (a
move takes it along, a merge does not).

`accounts` has time for an entry to expire and for the other process to keep one (`TTL` and
`MaxTime` are 2), and one edit per account, so that each administrator can remove the other
and a stale administrator can try a third edit; `promote`, `demote` and `unblock` are in the
model and left to other values of `Ops`. `cards` has three requests, so that two meet and a
third is undone or stale; two rows give circles, and a batch two plans of one row each. A card
makes the same change in each of its rows (`OneChange`, a constraint of the run only). In `guard` the window holds two periods of
waiting, so that failures expire while others do not, and `MaxKeys` is below the number of
keys, so that the table is cleaned. In `worker` the desktop calculates the second fragment of
the list, so that its calculation may be taken for the run's; the ids are two, so that one of
the two runs may find none left. In `outage` every node of the ring has two ways to a
source, so that a zone is met from two sides and a valve left open lets water in; one edit
removes a line of the ring (`l4`), gives it valves that are in part closed, or both; `TTL` and
`MaxTime` are 1, so that a network expires, and two requests load it at the same time. Every search ends, so deadlock is
checked. The runs `accounts`, `guard`, `cards` and `outage` use symmetry, and
check no liveness. Where `CHECK_DEADLOCK FALSE` stands, the requests, tasks or ids that a run
allows may all have been used; a server that nobody asks for anything may stop there.

For the editor no fairness is assumed and no liveness claimed: nothing in it has to happen, a
user may stop at any point, and a transaction is one step. Within a transaction the server
goes on by itself, so `FairSpec` has weak fairness of `Statement(s)` for each session: the
server sends the next statement, the database grants a lock that is free, and it aborts a
transaction of a cycle (`deadlock_timeout`). A lost connection is possible at any time and
never relied on, and nobody has to begin a transaction. As the transactions are finitely many,
a session that is overtaken for ever by newcomers is out of the picture; PostgreSQL queues
those that wait for a row.

`Jobs` has weak fairness of `Work`, the steps of the worker: the engine is killed at
`SETY_TIMEOUT_S`, the queries of the worker end or fail, and a worker that has crashed is
started again (`restart: unless-stopped`). Users, the desktop, the broker's redelivery, expiry
and crashes are under no fairness. `LiveStatus`, `CardEdit` and `LoginGuard` make no claim of
liveness.

## What is proved

For every set of users, every choice of operations, all bounds and every consistent initial
network (`BoundsAssumption`, `NullAssumption`, `NoTypeAssumption`, `OpsAssumption`,
`InitialDbAssumption`, `InitialStampsAssumption`: the rows are stamped before the first
transaction), where a theorem does not name fewer operations or users:

* `TopologyProofs!TypeCorrect`, `Spec => []TypeOK`. `TypeOK` is inductive: what undo and redo
  restore comes from images that are themselves typed.
* `TopologyProofs!CaptureComplete`, `Spec => JournalCovers`. One lemma per operation says that
  the composition of its statements leaves every key outside the captured set alone; the frame
  of a composition is the union of the frames.
* `TopologyProofs!LengthsCorrect`, `Spec => []LengthsFollowLines`. The invariant of the state is
  not inductive: an undo restores images that say nothing of it, and a passport without a
  line, measured by nothing, could be met by a new line. The strengthening `SizedInv` says that
  the rows, and the images of every entry on top of any measured rows, are measured (each
  image holds a line with its passport or neither, except a reversal, which keeps the length),
  and that no passport is beyond the sequence of lines. It is stated for what an entry *is*,
  so undo and redo of any users in any order preserve it without an appeal to the comparison
  with the hashes.
* `HistoryProofs!JournalIsAStack`, `Spec => UndoIsAStack`, a refinement: every step of the editor
  is a step of `UndoStack` or none. The stack orders operations by their ids, the code by
  `created_at` and `undone_at`; the invariant relates the two (`TimesOk`: every transaction has
  a time of its own, and ids grow with the times) and says that what can be redone is after
  what is done and was undone from the end (`StackOk`). It assumes that an image is not the
  value that stands for none (`ImagesAreThere`, as `NULL` is a model value in the runs). It
  holds for times that are taken in the order of the commits, as `TopologyEditor` has them.
* `HistoryProofs!RollbacksAreExact`, `HistorySpec => RollbackExact`. A request that goes on has
  undone nothing but what is after its target (`RollbackInv`); since the next turn takes the
  last operation that is not undone, it passes the target only when nothing is left above it,
  whatever the same user has done in another tab since.
* `HistoryProofs!RowsTellTheirHistory`, `[]RowHistory` for any users, where nodes are not merged.
  Each operation that changes a row stamps it with the time of its transaction, which no later
  one has, so an image that equals the row is of the last operation on it (`EntryStamped`, of
  nodes and lines). Passports, equipment and cards bear no stamp; each change of one captures
  the node or line it belongs to, and stamps that, so their history is carried along by it
  (`EntryOwned`). A flag is only set or cleared, with an id that is made once (`MadeOnce`). A
  merge is the exception: it moves regulators, dampers and flags to the node that stays and does
  not mark what it moves. `NetworkTellsItsHistory` has what is left with merges, `[]HistoryTold`: nodes, lines,
  passports and cards. `SoleUserTellsHistory` has all of `RowHistory` for one user, for whom the
  stack itself keeps the order. The hypothesis is needed: in `solo` with two users and
  `DELETE_LINE`, `MERGE`, `SPLIT`, `UNDO`, TLC finds a regulator that a split captured as it was,
  put back from under it by the undo of the merge that had moved it.
* `HistoryProofs!LinesHaveNodes`, `LinesEndAtNodes`, `RegulatorsStay`, `FlagsAreSingle`, for one
  user, or any number of whom nobody undoes (`Orderly`). One lemma per operation says that it
  keeps a consistent network consistent (`Sound`). That says nothing of undo: an image is of some
  rows, and the rest has to fit them. `Told` therefore remembers two whole networks for each
  operation that can be undone or redone, the one before it and the one after it, each
  consistent, that differ where its images do; neighbours in the stack share a network, and the
  present one is between the last done and the next to redo. Undo and redo go to the neighbour.
  With two users who undo, the properties fail (see the table below).
* `HistoryProofs!TypesAreSingle`, `[]OneTypePerNode`, for any users, where nodes are not merged.
  The invariant (`Cards`) is that the cards of a node are a function of the node's row: whoever
  changes them stamps the row, so a row that is back has its cards back.
* `LockProofs`, for any sessions and the operations that lock lines, undo included
  (`Ops \subseteq LineOps`; `SequencesAssumption`: the ids for the transactions are beyond those
  in use; `RequestAssumption`). Each step is first brought to what it does to the transaction of
  its session (`Moves`), as the operations on nodes have no steps here. `CirclesHaveUndos`: there
  are two orders of the rows, lines, passports, nodes (`LinesFirst`) and passports, lines, nodes
  (`PipesFirst`), each by the ids in a table. By `OrderInv` whoever waits for a row holds only
  rows before it in the first order, unless it is an undo at its lines that holds passports, and
  in the second, unless it is an operation at its passports (`RowsRanked`); and where all of a
  circle keep to one order, whoever holds the last row that somebody waits for waits for a later
  one itself (`NoCircle`). `ImagesAreFresh`: what a transaction has locked or made is its own
  until it ends (`Own`, `Apart`, `IdsFree`), so what it has read of it is still so at the commit
  (`WrittenOk`). The image of a passport is read before the passport is locked: it stays fresh
  because whoever writes a passport has its line (`WritesOk`), an undo too, since its entry has
  no passport without the line (`Together`). With the operations on nodes both theorems fail,
  see the table.
* `StatusProofs`, for all processes, accounts, requests, edits and every `TTL`
  (`StatusAssumption`): `StatusTypes`, `StatusesFresh`, `DropsReach` and `AdminsRemain` (where
  there is an administrator, or a master password, at first). A row is followed on its way from
  the table through a load, a cache and a decision, by the time it was in force
  (`StatusesFresh`) or by its number (`DropsReach`); the last administrator by the invariant
  `Seats`, which says what is left while one edit is between its reading and its writing.
* `CardProofs` (`CardAssumption`): `CardTypes`, `SavesOverwriteSeen`, `ImagesAreOverwritten`,
  `AuditIsTrue`, from the invariant `IInv`. Its core is `Known`: a row that somebody remembers is
  the present one unless that has a later version. A card's image lies between the version its
  client sent and the present one, and once the row is written the versions agree, so the image
  is what was overwritten though no lock was held when it was taken. `CirclesNeedOrders` has an
  invariant of its own, `LockInv`: a batch or an undo takes its rows in the order of their places,
  which is that of their ids but for the second plan of a batch; so the one that holds the last
  row of a circle, which waits for a row with a lesser id, is a card or has changed its plan.
* `GuardProofs`, for any logins, requests, limits, window and size of the table (`GuardAssumption`):
  `CountsAreTrue`, `OvershootIsBounded`, `AdviceIsEnough`, from `GuardInv`. Whatever
  a queue still holds, expiring it gives the failures of the window (`Counted`); a key's failures
  and the requests that passed its check before it closed are bounded together; and whoever was
  refused either finds fewer failures than the limit or the oldest of them expired in time (`Kept`).
* `JobsProofs`, for any lists of fragments, files, numbers of deliveries, crashes and
  calculations of the desktop (`TaskAssumption`, `CalcAssumption`): `FilesAreThere`,
  `NoOlderFiles`, `SuccessesAreWhole`, `LinksAreRight`, `OrphansAreExplained`. `QueueInv` and
  `FileInv` carry the first two; `CalcInv` the others. It says, of the run under way, that what
  is newer than the newest calculation read before it (`BeforeOk`) is its own or was committed
  by the desktop meanwhile, and of a deletion under way (`DeletingOk`) that the results change
  only if the run that makes them had not ended when the deletion began. `SuccessesAreWhole`
  needs `RunsMade` besides: a calculation with the number of a run is that run's own, and there
  is no protocol of a run that has not ended. Steps of the queue,
  the files and the calculations are first brought to what they do to each (`QueueNext`,
  `FileNext`), so that the parts are proved apart.
* `OutageProofs`, for every network, wherever its valves and sources are, and any requests and
  edits (`ZoneAssumption`, `OutageAssumption`): `ZonesAreExact`, `ZonesAreDry`, `LostAreExact`,
  from `ZoneInv`, and `NetworksAreFresh`, `DropsReach`, from `CacheInv`. `ZoneInv` has the loop
  invariants of the three searches: what is found is in every set closed under the lines
  (`Zone`, `Flowing`), and what has been visited is closed itself, so at the end the search has
  found the least such set, which is how the properties define what is connected, without a
  recursion. `ZonesAreDry` follows because the complement of the zone is closed once the named
  valves are. `LostAreExact` needs `Touching`: each line the code takes out besides the damaged
  one touches the zone, whose nodes are not entered anyway, so blocking more lines than the
  damaged one changes nothing. `CacheInv` says of each part of a network when it was in force.

What remains with TLC: liveness (`TasksBecomeReady`, `TransactionsEnd`), which the provers have
no rules for, and `Serial`, which compares whole operations composed of statements with
statements of several sessions in between. `CirclesNeedUndos`, `ImagesFresh`, `EndsActive`,
`LinesFollowNodes`, `RegulatorsAtEnds`, `OneFlagPerNode`, `OneTypePerNode` and `RowHistory` are
theorems under the hypotheses given, and none is without: where one limits the users or the
operations, TLC has a counterexample beyond it, above or in the table below.

## Disagreements found

One run ends, as expected, with a violation of what the code says of itself.

* `last_admin` – `update_user` counts the other active administrators and then writes its row,
  with a lock on neither. Two administrators who block each other at the same time each count
  the other, and nobody is left, which the guard is there to prevent ("Нельзя понизить или
  заблокировать себя и последнего активного администратора — иначе управлять пользователями
  станет некому", `itwin-api/database/users_admin.py:143`). `AdminRemains` is what holds instead.

Others were found with the same modules and with other values of `Ops`, bounds and a property;
each was seen that way and has no configuration of its own. The first column names the
configuration to start from.

| From | Change | Property | What TLC finds |
| --- | --- | --- | --- |
| `solo` | two users; `DELETE_NODE`, `DELETE_LINE`, `UNDO` | `EndsActive` | undo compares the rows of the undone operation, not those that refer to them: a deleted line comes back to a node that has been removed since, which `delete_node` is written to prevent ("чтобы не осиротить объекты молча", `topology.py:492`) |
| `solo` | `MERGE` | `OneTypePerNode` | a conflict of a merge is two cards in one table, so nodes with cards of different types merge into one with both, which `node_cards` reports as an error of the data ("у узла карточки нескольких типов — ошибка данных", `node_types.py:119`) |
| `lines`, two transactions | `SPLIT`, `DELETE_NODE` | `EndsActive` | `split_line` locks the line and not the node the new half ends at, and `delete_node` has looked for lines before; `create_line` locks the ends for this reason ("их не должны удалить/сдвинуть, пока строится участок", `topology.py:754`) |
| `lines`, two transactions | `MOVE`, `REVERSE` | `LinesFollowNodes` | `move_node` updates the lines that start at the node, then those that end there; one that is reversed between the two is in neither ("Концы инцидентных участков следуют за узлом", `topology.py:440`) |
| `lines`, two transactions | `DISSOLVE_NODE`, `DELETE_NODE` | `EndsActive` | a dissolve does not lock the far nodes either, and attaches a line to one that is being removed |
| `lines`, two transactions | `MOVE`, `GEOMETRY` | `ImagesFresh` | the image of a line is read before the `UPDATE` that waits for it: an undo takes another user's change back with it |
| `lines` | `GEOMETRY`, `UNDO` | `NoDeadlock` | undo locks passports before lines (`topology_journal.py:233`, table by table in the order of the names), the operations lines before passports: a line is redrawn while its former change is undone, and the database aborts one of the two, although rows are locked "в порядке id — без взаимных блокировок" (`topology.py:249`) |
| `lines` | `MOVE`, `UNDO` | `NoDeadlock`, `CirclesNeedUndos` | undo locks lines before nodes, the operations on nodes the other way round |
| `nodes` | `MOVE` | `NoDeadlock` | two nodes with two lines between them are moved: each `UPDATE` has taken one of the lines |
| `lines`, two transactions | `MERGE`, `SPLIT` | `LengthsFollowLines` | a merge chooses the lines it relinks, and updates all that there are at the source by then: the new half of a line split in between is attached to the target and its passport not measured ("длины паспортов пересчитываются", `topology.py:1306`) |
| `solo`, two users | `DELETE_LINE`, `MERGE`, `UNDO` | `RegulatorsAtEnds` | a merge moves the regulator of a removed line to the node that stays and leaves the line; undone, the line is back at the removed node without it |
| `solo`, two users | `CREATE_NODE`, `CREATE_LINE`, `UNDO` | `EndsActive` | undoing a creation deletes the node's row under another user's line |
| `solo`, two users | `MOVE`, `CREATE_LINE`, `UNDO` | `LinesFollowNodes` | a line connected to a moved node does not follow it back |
| `solo`, two users | `SET_NODE_FLAG`, `UNDO` | `OneFlagPerNode` | a cleared flag comes back beside a new one |

The exceptions that the properties make are disagreements too:

* a status changes "сразу" (`routers/admin.py:193`, and for deletion `:265`) only in the process
  that made the edit; in the others it lasts up to a TTL, which is what `StatusFresh` bounds;
* the undo of a batch leaves alone what was changed after it ("строки, изменённые после
  операции, не трогаются", `card_batch.py:417`) unless the change commits between its
  comparison and its `UPDATE`: then it is overwritten and `audit_log` is told otherwise, which
  is the case `AuditTrue` excepts;
* the wait a refused client is told ("Повторите через … мин.") is too short when requests that
  verified at the same time overshot the limit, which `AdviceSuffices` excepts: it is counted
  from the oldest failure, and more than one has to expire;
* an engine that cannot connect to the database prints 'Не могу подключиться' and returns
  (`sety/w.py:294-297`), so the worker stores `success` (`worker.py:298`) for a run without a
  calculation; if the newest id could not be read before it either (a blind run), the protocol
  is even linked to the newest calculation of the fragment there is, which may be in part the
  leavings of a run that was killed. `SuccessIsWhole` says what is left: it does not say that a
  success has a calculation, and excepts the link of a blind run;
* batches lock rows plan by plan in the client's order (`card_batch.py:320`, `:377`): two batches
  on two columns, or a batch and the undo of one, can wait for each other in a circle, which the
  database breaks by aborting one; `CirclesNeedPlans` excepts them;
* a calculation that is deleted while the engine writes leaves rows in tables `*_out`
  ("Удаляет расчёт и его строки во всех *_out в одной транзакции",
  `calculation_admin.py:141`), which `NoOrphans` excepts;
* a protocol names the calculation, and so `delete_calculation` takes it for a reference and
  refuses, although "удаление расчёта … протокол не трогает"
  (`sql/migrations/20261015_calculation_protocol.sql:7`): `BeginDelete`;
* the creation of a line (`create_line`) does not drop the outage cache, as the other operations
  do: for up to a minute an outage on the new line is refused with a reason that is not true of
  it ("отключён (обе трубы, pipesectstateid = 2)", `outage_simulation.py:327`);
* the valves inside a boundary chamber are named for closing, but the search for what loses its
  supply goes on through that chamber (`outage_simulation.py:413`), so nodes beyond it that are
  supplied only through it are not among the lost, though all of its valves are to be closed:
  `LostExact` states what the code finds, `ZoneDry` what closing the valves does;
* an operation of the list "history" may have been undone already, and `undo_to` then undoes the
  newest one that is not, which is older, where nothing was left to undo ("Отменить операции
  пользователя от последней до operation_id включительно", `topology_history.py:120`):
  `RollbackExact` speaks of what follows the first turn;
* a download may pair the description of one execution with the file of a later one, when the
  task was delivered twice; the reverse is excluded by `NoOlderFile`.

## Not modelled

* within the editor: refusals that depend on fragments, codes, internal schemes and versions;
  the internal schemes themselves, which a change from the type PR removes
  (`node_types.py:196-212`) and a merge hands over (`topology_transfer.py:430-435`);
  objects transferred by their projection on the line (GEOM); tables without a primary key;
  audit records; a database without the journal;
* with interleaved statements: pairs, chains, types and flags, redo, references;
  the order of the times of transactions that overlap;
* of the status of accounts: accounts that are roles of PostgreSQL, territories, the creation
  of users, passwords, tokens; of the guard: several addresses and processes, which share
  nothing but the bound that cleans the table;
* of cards: several tables, insertion and deletion of rows, references and the types of
  fields, the setters with formulas of their own (`group_setters.py`);
* of the worker: the SQL that `-save_po` defers to the end of a run, calculations without a
  fragment, the purge of old protocols, the tasks for heat losses and wear, several workers;
  of the files: their builders and owners;
* of the outage simulation: consumers and loads, lengths and volumes, geometry, the list of the
  lines that lose their supply (`lost_lines`), edits of the sources, the valves' own rows (a line
  or a node has open ones, closed ones, both or none);
* chains, and the other components marked
  `not_modelled` in `PROJECT.json`, each with its reason there. The greater part of the
  repository by lines is the hydraulic engine, which computes with floating point, and reports
  and registries, which format and copy rows: there is nothing in them that a state machine
  would say better than the code does.
