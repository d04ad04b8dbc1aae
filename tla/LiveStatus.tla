----------------------------- MODULE LiveStatus -----------------------------
(***************************************************************************)
(* The live check of accounts (auth.py), the administration of users        *)
(* (database/users_admin.py) and what ties them together (routers/admin.py):*)
(* each worker process keeps the status of the accounts it has seen for TTL *)
(* units of time, and drops the entry of an account it has itself edited.   *)
(*                                                                          *)
(* A request is a coroutine: it runs without interruption from one await to *)
(* the next, and every such piece is one action.  The rows of the table     *)
(* users are numbered by the edits they have had, which the code does not   *)
(* do: the numbers say which row a request was decided on.                  *)
(***************************************************************************)
EXTENDS Integers

CONSTANTS
  Account,    \* the ids of the table users
  Process,    \* the worker processes of the API
  Request,    \* the requests handled at one time
  Ops,        \* what requests ask for
  Admins,     \* the accounts that are administrators at first
  TTL,        \* USER_STATUS_TTL
  Master,     \* whether the master password is set
  MaxTime,    \* bound on the clock
  MaxEdits,   \* bound on the edits of one account
  MaxRequests \* bound on the requests received

Edit == {"promote", "demote", "block", "unblock", "delete"}

ASSUME StatusAssumption ==
  /\ TTL \in Nat \ {0} /\ MaxTime \in Nat /\ MaxEdits \in Nat /\ MaxRequests \in Nat
  /\ Admins \subseteq Account
  /\ Ops \subseteq Edit \cup {"visit"}
  /\ Master \in BOOLEAN

VARIABLES
  clock,      \* time.monotonic()
  row,        \* row[a]: the row of the table users
  till,       \* till[a][n]: when row n of a was replaced (history)
  cache,      \* cache[p][a]: _user_status_cache of process p
  floor,      \* floor[p][a]: the row when p dropped a with no load under way (history)
  req,        \* req[r]: where the request in slot r stands
  received,   \* number of requests received
  overlap     \* whether two edits have been under way at once (history)

vars == <<clock, row, till, cache, floor, req, received, overlap>>

Role == {"viewer", "admin"}

Row == [no : Nat, live : BOOLEAN, active : BOOLEAN, role : Role]
NoEntry == [at |-> "none"]
Entry == [at : Nat, row : Row]
Idle == [stage |-> "idle"]

\* A request in the check: its process, its account, what it asks for and of
\* whom; when it looked at the cache; the status it is decided on and whether
\* that came from the database.
Check == [stage : {"load", "store", "admitted", "refused"}, proc : Process, who : Account, op : Ops,
          target : Account, now : Nat, low : Nat, status : Row, known : BOOLEAN]

\* A request that edits: its process, what it does to whom, the row it has read.
Change == [stage : {"count", "write", "drop"}, proc : Process, op : Ops, target : Account, old : Row]

-----------------------------------------------------------------------------

FirstRow(a) ==
  [no |-> 0, live |-> TRUE, active |-> TRUE, role |-> IF a \in Admins THEN "admin" ELSE "viewer"]

Hit(entry) == entry # NoEntry /\ clock - entry.at < TTL

\* The status the check lets through, and the one that may edit users.
InForce(status) == status.live /\ status.active
IsAdmin(status) == InForce(status) /\ status.role = "admin"

Decision(status) == IF InForce(status) THEN "admitted" ELSE "refused"

At(r, stages) == req[r].stage \in stages
Loading(p, a) == {r \in Request : At(r, {"load", "store"}) /\ req[r].proc = p /\ req[r].who = a}
Editing == {r \in Request : At(r, {"count", "write"})}

\* Mutant: the column gets the name of the operation.
NewRoleNamed(op, old) == op

NewRole(op, old) == CASE op = "promote" -> "admin" [] op = "demote" -> "viewer" [] OTHER -> old.role
NewActive(op, old) == CASE op = "block" -> FALSE [] op = "unblock" -> TRUE [] OTHER -> old.active

LosesAdmin(op, old) ==
  IsAdmin(old) /\ (op = "delete" \/ NewRole(op, old) # "admin" \/ ~NewActive(op, old))

\* Mutant: an administrator who is blocked counts.
OtherAdminsBlocked(a) == {b \in Account \ {a} : row[b].live /\ row[b].role = "admin"}

OtherAdmins(a) == {b \in Account \ {a} : IsAdmin(row[b])}

\* The UPDATE names the columns that differ from the row that was read.
Written(op, old, current) ==
  [no     |-> current.no + 1,
   live   |-> op # "delete",
   role   |-> IF NewRole(op, old) # old.role THEN NewRole(op, old) ELSE current.role,
   active |-> IF NewActive(op, old) # old.active THEN NewActive(op, old) ELSE current.active]

-----------------------------------------------------------------------------

Init ==
  /\ clock = 0
  /\ row = [a \in Account |-> FirstRow(a)]
  /\ till = [a \in Account |-> [n \in 0 .. MaxEdits |-> 0]]
  /\ cache = [p \in Process |-> [a \in Account |-> NoEntry]]
  /\ floor = [p \in Process |-> [a \in Account |-> 0]]
  /\ req = [r \in Request |-> Idle]
  /\ received = 0
  /\ overlap = FALSE

Tick ==
  /\ clock < MaxTime
  /\ clock' = clock + 1
  /\ UNCHANGED <<row, till, cache, floor, req, received, overlap>>

Step(r, q) ==
  /\ req' = [req EXCEPT ![r] = q]
  /\ UNCHANGED clock

\* A request of account a arrives at process p: the check up to its await.
Receive(r, p, a, op, b) ==
  LET entry == cache[p][a]
      q == [stage |-> "load", proc |-> p, who |-> a, op |-> op, target |-> b, now |-> clock,
            low |-> floor[p][a], status |-> FirstRow(a), known |-> FALSE]
  IN /\ req[r] = Idle /\ received < MaxRequests
     /\ \/ /\ Hit(entry)
           /\ Step(r, [q EXCEPT !.stage = Decision(entry.row), !.status = entry.row, !.known = TRUE])
        \/ /\ ~Hit(entry)
           /\ Step(r, q)
     /\ received' = received + 1
     /\ UNCHANGED <<row, till, cache, floor, overlap>>

\* The database answers the SELECT.
Load(r) ==
  /\ At(r, {"load"})
  /\ Step(r, [req[r] EXCEPT !.stage = "store", !.status = row[req[r].who], !.known = TRUE])
  /\ UNCHANGED <<row, till, cache, floor, received, overlap>>

\* The database does not answer: the token is trusted, with the role it was
\* issued with, before the first step of the model.
LoadFails(r) ==
  /\ At(r, {"load"})
  /\ Step(r, [req[r] EXCEPT !.stage = "admitted"])
  /\ UNCHANGED <<row, till, cache, floor, received, overlap>>

\* Mutant: the time of an entry is read after the load.
StoreStampedLate(r) ==
  /\ At(r, {"store"})
  /\ cache' = [cache EXCEPT ![req[r].proc][req[r].who] = [at |-> clock, row |-> req[r].status]]
  /\ Step(r, [req[r] EXCEPT !.stage = Decision(req[r].status)])
  /\ UNCHANGED <<row, till, floor, received, overlap>>

\* The check after its await: the status goes to the cache with the time from
\* before the load.
Store(r) ==
  /\ At(r, {"store"})
  /\ cache' = [cache EXCEPT ![req[r].proc][req[r].who] = [at |-> req[r].now, row |-> req[r].status]]
  /\ Step(r, [req[r] EXCEPT !.stage = Decision(req[r].status)])
  /\ UNCHANGED <<row, till, floor, received, overlap>>

\* A visit is answered; a request is refused; an edit without the right to it.
Finish(r) ==
  /\ \/ At(r, {"refused"})
     \/ At(r, {"admitted"}) /\ (req[r].op = "visit" \/ ~IsAdmin(req[r].status))
  /\ Step(r, Idle)
  /\ UNCHANGED <<row, till, cache, floor, received, overlap>>

\* update_user and delete_user read the row, without a lock on it.
ReadRow(r) ==
  LET q == req[r]
      old == row[q.target]
  IN /\ At(r, {"admitted"}) /\ q.op # "visit" /\ IsAdmin(q.status)
     /\ overlap' = (overlap \/ Editing # {})
     /\ \/ /\ ~old.live \/ (q.who = q.target /\ (q.op = "delete" \/ LosesAdmin(q.op, old)))
           /\ Step(r, Idle)
        \/ /\ old.live /\ ~(q.who = q.target /\ (q.op = "delete" \/ LosesAdmin(q.op, old)))
           /\ Step(r, [stage |-> IF LosesAdmin(q.op, old) /\ ~Master THEN "count" ELSE "write",
                       proc |-> q.proc, op |-> q.op, target |-> q.target, old |-> old])
     /\ UNCHANGED <<row, till, cache, floor, received>>

\* They count the other administrators.
CountAdmins(r) ==
  /\ At(r, {"count"})
  /\ \/ OtherAdmins(req[r].target) = {} /\ Step(r, Idle)
     \/ OtherAdmins(req[r].target) # {} /\ Step(r, [req[r] EXCEPT !.stage = "write"])
  /\ UNCHANGED <<row, till, cache, floor, received, overlap>>

\* They write and commit.  A row that is gone by then is an error for an UPDATE,
\* and no more than a warning of SQLAlchemy for a DELETE.
Write(r) ==
  LET q == req[r]
      current == row[q.target]
  IN /\ At(r, {"write"})
     /\ \/ /\ current.live /\ current.no < MaxEdits
           /\ row' = [row EXCEPT ![q.target] = Written(q.op, q.old, current)]
           /\ till' = [till EXCEPT ![q.target][current.no] = clock]
           /\ Step(r, [q EXCEPT !.stage = "drop"])
        \/ /\ ~current.live /\ q.op # "delete"
           /\ Step(r, Idle)
           /\ UNCHANGED <<row, till>>
        \/ /\ ~current.live /\ q.op = "delete"
           /\ Step(r, [q EXCEPT !.stage = "drop"])
           /\ UNCHANGED <<row, till>>
     /\ UNCHANGED <<cache, floor, received, overlap>>

\* Mutant: the route does not drop it.
DropNothing(r) ==
  LET p == req[r].proc
      a == req[r].target
  IN /\ At(r, {"drop"})
     /\ floor' = [floor EXCEPT ![p][a] = IF Loading(p, a) = {} THEN row[a].no ELSE @]
     /\ Step(r, Idle)
     /\ UNCHANGED <<row, till, cache, received, overlap>>

\* The route drops the account from the cache of its own process.
Drop(r) ==
  LET p == req[r].proc
      a == req[r].target
  IN /\ At(r, {"drop"})
     /\ cache' = [cache EXCEPT ![p][a] = NoEntry]
     /\ floor' = [floor EXCEPT ![p][a] = IF Loading(p, a) = {} THEN row[a].no ELSE @]
     /\ Step(r, Idle)
     /\ UNCHANGED <<row, till, received, overlap>>

Next ==
  \/ Tick
  \/ \E r \in Request, p \in Process, a, b \in Account, op \in Ops :
       (op = "visit" => a = b) /\ Receive(r, p, a, op, b)
  \/ \E r \in Request : \/ Load(r) \/ LoadFails(r) \/ Store(r) \/ Finish(r)
                        \/ ReadRow(r) \/ CountAdmins(r) \/ Write(r) \/ Drop(r)

Spec == Init /\ [][Next]_vars

-----------------------------------------------------------------------------

TypeOK ==
  /\ clock \in 0 .. MaxTime
  /\ row \in [Account -> Row]
  /\ till \in [Account -> [0 .. MaxEdits -> Nat]]
  /\ cache \in [Process -> [Account -> Entry \cup {NoEntry}]]
  /\ floor \in [Process -> [Account -> Nat]]
  /\ req \in [Request -> Check \cup Change \cup {Idle}]
  /\ received \in 0 .. MaxRequests
  /\ overlap \in BOOLEAN

\* A request the check has decided on a status of the database.
Decided(r) == At(r, {"admitted", "refused"}) /\ req[r].known

\* No request is let through or refused on a status that had been replaced TTL
\* or more before the request came, in whichever process the edit was made
\* (USER_STATUS_TTL, auth.py): the time of an entry is read before its load.
StatusFresh ==
  \A r \in Request : Decided(r) =>
    req[r].status.no = row[req[r].who].no \/ till[req[r].who][req[r].status.no] + TTL > req[r].now

\* Once a process has dropped an account it edited, with no load of the account
\* under way, its later requests are decided on the edited row or a newer one.
DropReaches == \A r \in Request : Decided(r) => req[r].status.no >= req[r].low

\* There is somebody to administer the users, as long as edits do not overlap:
\* even the edit of an administrator whose rights were taken away and whom a
\* cache or a token still knows as one cannot remove the last.
AdminRemains == Master \/ overlap \/ \E a \in Account : IsAdmin(row[a])

\* The same of edits that overlap.
AdminAlwaysRemains == Master \/ \E a \in Account : IsAdmin(row[a])
=============================================================================
