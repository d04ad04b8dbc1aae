------------------------------- MODULE Outage -------------------------------
(***************************************************************************)
(* The outage simulation of one worker process of the API: the network it   *)
(* keeps for TTL units of time (get_outage_network_graph), loaded by three  *)
(* queries with an await at each, and dropped after its own edits.          *)
(*                                                                          *)
(* The states of the database are numbered by the edits, which the code     *)
(* does not do: the numbers say what an answer is based on.  A request      *)
(* searches (OutageZone) the network it was given, which nobody changes: it *)
(* awaits in between only the geometry and the consumers of its answer, so  *)
(* it makes no difference that a search is under way alone here.            *)
(***************************************************************************)
EXTENDS OutageZone, Integers

CONSTANTS
  Networks, \* what the database may hold at first
  Request,  \* the requests handled at one time
  TTL,      \* 60 seconds
  Touched,  \* bound: the lines and nodes that edits change
  MaxTime,  \* bound on the clock
  MaxEdits  \* bound on the edits

ASSUME OutageAssumption ==
  /\ Networks \subseteq Network /\ Touched \subseteq Line \cup Node
  /\ TTL \in Nat \ {0} /\ MaxTime \in Nat /\ MaxEdits \in Nat

Part == {"lines", "valves", "sources"}

VARIABLES
  clock,  \* time.time()
  db,     \* the network in the database
  edits,  \* the number of edits
  till,   \* till[v]: when state v of the database was replaced (history)
  cache,  \* _outage_cached_data and its time
  toDrop, \* own edits that are committed and have not dropped the cache
  floor,  \* the state when it was dropped with no load under way (history)
  req     \* req[r]: where the request in slot r stands

cacheVars == <<clock, db, edits, till, cache, toDrop, floor, req>>
vars == <<zoneVars, cacheVars>>

NoEntry == [at |-> "none"]
Idle == [stage |-> "idle"]

Loading == {r \in Request : req[r].stage \in Part}
Hit == cache # NoEntry /\ clock - cache.at < TTL

Init ==
  /\ ZoneInit
  /\ clock = 0 /\ db \in Networks /\ edits = 0 /\ till = [v \in 0 .. MaxEdits |-> 0]
  /\ cache = NoEntry /\ toDrop = 0 /\ floor = 0
  /\ req = [r \in Request |-> Idle]

Tick ==
  /\ clock < MaxTime
  /\ clock' = clock + 1
  /\ UNCHANGED <<zoneVars, db, edits, till, cache, toDrop, floor, req>>

\* An edit commits: a line is added, removed or disconnected, or the valves of a
\* line or a node are turned, or both.  Those of this process drop the cache when
\* they get to it, but the creation of a line; those of other processes never do.
Commit(nw, own) ==
  /\ edits < MaxEdits /\ nw # db
  /\ db' = nw
  /\ edits' = edits + 1
  /\ till' = [till EXCEPT ![edits] = clock]
  /\ toDrop' = IF own THEN toDrop + 1 ELSE toDrop
  /\ UNCHANGED <<zoneVars, clock, cache, floor, req>>

\* What one edit makes of the lines that conduct, and of the valves.
EditedLines == {db.lines} \cup {db.lines \cup {l} : l \in Touched \cap Line} \cup {db.lines \ {l} : l \in Touched}
EditedValves == {db.valves} \cup {[db.valves EXCEPT ![x] = {"open", "closed"} \ @] : x \in Touched}

\* Mutant: the network stays.
DropNothing ==
  /\ toDrop > 0
  /\ toDrop' = toDrop - 1
  /\ floor' = IF Loading = {} THEN edits ELSE floor
  /\ UNCHANGED <<zoneVars, clock, db, edits, till, cache, req>>

\* invalidate_outage_cache
Drop ==
  /\ toDrop > 0
  /\ toDrop' = toDrop - 1
  /\ cache' = NoEntry
  /\ floor' = IF Loading = {} THEN edits ELSE floor
  /\ UNCHANGED <<zoneVars, clock, db, edits, till, req>>

Step(r, q) ==
  /\ req' = [req EXCEPT ![r] = q]
  /\ UNCHANGED <<clock, db, edits, till, toDrop, floor>>

\* A request: the cached network if it is young enough, else the first query.
Receive(r) ==
  /\ req[r] = Idle
  /\ \/ /\ Hit
        /\ Step(r, [stage |-> "ready", now |-> clock, low |-> floor, net |-> cache.net, of |-> cache.of])
     \/ /\ ~Hit
        /\ Step(r, [stage |-> "lines", now |-> clock, low |-> floor, net |-> NoNetwork,
                    of |-> [p \in Part |-> 0]])
  /\ UNCHANGED <<zoneVars, cache>>

\* The answers of the first two queries.
ReadLines(r) ==
  /\ req[r].stage = "lines"
  /\ Step(r, [req[r] EXCEPT !.stage = "valves", !.net.lines = db.lines, !.of["lines"] = edits])
  /\ UNCHANGED <<zoneVars, cache>>

ReadValves(r) ==
  /\ req[r].stage = "valves"
  /\ Step(r, [req[r] EXCEPT !.stage = "sources", !.net.valves = db.valves, !.of["valves"] = edits])
  /\ UNCHANGED <<zoneVars, cache>>

\* The answer of the third.
Loaded(q) == [q EXCEPT !.stage = "ready", !.net.sources = db.sources, !.of["sources"] = edits]

\* Mutant: the time of the network is that of its end.
StoreStampedLate(r) ==
  LET q == Loaded(req[r])
  IN /\ req[r].stage = "sources"
     /\ cache' = [at |-> clock, net |-> q.net, of |-> q.of]
     /\ Step(r, q)
     /\ UNCHANGED zoneVars

\* The network is kept, with the time of the request.
Store(r) ==
  LET q == Loaded(req[r])
  IN /\ req[r].stage = "sources"
     /\ cache' = [at |-> q.now, net |-> q.net, of |-> q.of]
     /\ Step(r, q)
     /\ UNCHANGED zoneVars

\* The search begins, or the line is not among those that conduct.
Begin(r) ==
  /\ req[r].stage = "ready"
  /\ \/ \E l \in Line : BeginLine(req[r].net, l)
     \/ \E n \in Node : BeginNode(req[r].net, n)
     \/ (\E l \in Line : l \notin req[r].net.lines) /\ UNCHANGED zoneVars
  /\ Step(r, Idle)
  /\ UNCHANGED cache

Meanwhile ==
  \/ Tick
  \/ \E L \in EditedLines, V \in EditedValves, own \in BOOLEAN :
       Commit([db EXCEPT !.lines = L, !.valves = V], own)
  \/ Drop
  \/ \E r \in Request : Receive(r) \/ ReadLines(r) \/ ReadValves(r) \/ Store(r) \/ Begin(r)

Next ==
  \/ phase = "idle" /\ Meanwhile
  \/ (Search \/ Answer) /\ UNCHANGED cacheVars

Spec == Init /\ [][Next]_vars

-----------------------------------------------------------------------------

\* No search is based on a part of the network that had been replaced TTL or more
\* before the request came, by whomever (_outage_cached_time).
NetworkFresh ==
  \A r \in Request : req[r].stage = "ready" =>
    \A p \in Part : req[r].of[p] = edits \/ till[req[r].of[p]] + TTL > req[r].now

\* Once the process has dropped the network after an edit, with no load under
\* way, its later requests see the edit in every part.
DropReaches ==
  \A r \in Request : req[r].stage = "ready" => \A p \in Part : req[r].of[p] >= req[r].low
=============================================================================
