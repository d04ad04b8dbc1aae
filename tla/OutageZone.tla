----------------------------- MODULE OutageZone -----------------------------
(***************************************************************************)
(* What an outage cuts off (database/outage_simulation.py): the zone around *)
(* a damaged line or node, up to the nearest valves, and the nodes beyond   *)
(* that lose their sources.                                                 *)
(*                                                                          *)
(* The queue and the stack of the searches are sets here: the order makes   *)
(* no difference to what is found, and the model takes every order.         *)
(***************************************************************************)

CONSTANTS
  Node,
  Line,
  Ends, \* Ends[l]: the two nodes of line l
  None  \* nothing damaged

ASSUME ZoneAssumption ==
  /\ \A l \in Line : \E a, b \in Node : Ends[l] = {a, b}
  /\ Line \cap Node = {} /\ None \notin Line \cup Node

\* What is loaded: the lines that conduct; whether the valves on each line, and
\* in the internal scheme of each node, are open or closed; the nodes of sources.
Network ==
  [lines : SUBSET Line, valves : [Line \cup Node -> SUBSET {"open", "closed"}], sources : SUBSET Node]

NoNetwork == [lines |-> {}, valves |-> [x \in Line \cup Node |-> {}], sources |-> {}]

VARIABLES
  phase,         \* "idle", "zone", "before", "after" or "done"
  net,           \* the network that is searched
  damaged,       \* the line or the node
  todo,          \* the nodes to go on from
  processed,     \* processed_lines
  isolatedLines, \* isolated_lines
  isolatedNodes, \* isolated_nodes
  boundary,      \* boundary_nodes
  taken,         \* the lines and nodes whose valves the answer names
  seen,          \* the nodes found to be connected with a source
  baseline,      \* those of normal operation (baseline_reachable)
  lost           \* those that the outage takes it from (lost_nodes)

zoneVars == <<phase, net, damaged, todo, processed, isolatedLines, isolatedNodes, boundary, taken,
              seen, baseline, lost>>

ZoneInit ==
  /\ phase = "idle" /\ net = NoNetwork /\ damaged = None
  /\ todo = {} /\ processed = {} /\ isolatedLines = {} /\ isolatedNodes = {} /\ boundary = {}
  /\ taken = {} /\ seen = {} /\ baseline = {} /\ lost = {}

\* Nodes with valves inside (chambers, pumping stations); lines with valves; lines
\* with a closed one; the sources that a line leads to.
Chambers(nw) == {n \in Node : nw.valves[n] # {}}
Valved(nw) == {l \in Line : nw.valves[l] # {}}
Closed(nw) == {l \in Line : "closed" \in nw.valves[l]}
Sources(nw) == nw.sources \cap UNION {Ends[l] : l \in nw.lines}

-----------------------------------------------------------------------------
(* The zone.                                                               *)

\* A damaged line: the zone begins at its ends,
BeginLine(nw, l) ==
  /\ phase = "idle" /\ l \in nw.lines
  /\ phase' = "zone" /\ net' = nw /\ damaged' = l
  /\ processed' = {l} /\ isolatedLines' = {l}
  /\ isolatedNodes' = Ends[l] \ Chambers(nw) /\ todo' = Ends[l] \ Chambers(nw)
  /\ boundary' = Ends[l] \cap Chambers(nw)
  /\ taken' = ({l} \cap Valved(nw)) \cup (Ends[l] \cap Chambers(nw))
  /\ UNCHANGED <<seen, baseline, lost>>

\* a damaged node: at the node, whose own valves are of no use.
BeginNode(nw, n) ==
  /\ phase = "idle"
  /\ phase' = "zone" /\ net' = nw /\ damaged' = n
  /\ isolatedNodes' = {n} /\ todo' = {n}
  /\ UNCHANGED <<processed, isolatedLines, boundary, taken, seen, baseline, lost>>

\* Mutant: a valve does not stop the search.
Through(lines) == lines

\* The lines that the zone goes on through.
Free(lines) == lines \ Valved(net)

\* Mutant: a chamber that is reached does not name its valves.
NamedLines(lines, nodes) == lines \cap Valved(net)

\* The valves to be named: of the lines at which the zone ends, of the chambers.
Named(lines, nodes) == (lines \cap Valved(net)) \cup (nodes \cap Chambers(net))

\* A step of the search: the lines of a node.
Visit(n) ==
  LET lines == {l \in net.lines : n \in Ends[l]} \ processed
      new == (UNION {Ends[l] : l \in Free(lines)}) \ (isolatedNodes \cup boundary)
  IN /\ phase = "zone" /\ n \in todo
     /\ processed' = processed \cup lines
     /\ isolatedLines' = isolatedLines \cup Free(lines)
     /\ isolatedNodes' = isolatedNodes \cup (new \ Chambers(net))
     /\ todo' = (todo \ {n}) \cup (new \ Chambers(net))
     /\ boundary' = boundary \cup (new \cap Chambers(net))
     /\ taken' = taken \cup Named(lines, new)
     /\ UNCHANGED <<phase, net, damaged, seen, baseline, lost>>

-----------------------------------------------------------------------------
(* The nodes that are connected with a source.                             *)

\* Mutant: the valves that are closed already are forgotten.
BlockedByOutage == isolatedLines \cup (taken \cap Line)

\* What does not conduct once the valves are closed.
Blocked == Closed(net) \cup isolatedLines \cup (taken \cap Line)

\* reachable_from_sources begins.
From(next, sources) ==
  /\ phase' = next /\ seen' = sources /\ todo' = sources
  /\ UNCHANGED <<net, damaged, processed, isolatedLines, isolatedNodes, boundary, taken, lost>>

\* It goes on from node n, not through some lines and not to some nodes.
Flow(n, blocked, removed) ==
  LET new == (UNION {Ends[l] : l \in {k \in net.lines \ blocked : n \in Ends[k]}}) \ (seen \cup removed)
  IN /\ n \in todo
     /\ seen' = seen \cup new
     /\ todo' = (todo \ {n}) \cup new
     /\ UNCHANGED <<phase, net, damaged, processed, isolatedLines, isolatedNodes, boundary, taken,
                    baseline, lost>>

\* In normal operation: baseline_reachable, which is kept with the network.
Before == phase = "zone" /\ todo = {} /\ From("before", Sources(net)) /\ UNCHANGED baseline

\* downstream_without_supply: with the zone out and the valves closed.
After ==
  /\ phase = "before" /\ todo = {}
  /\ baseline' = seen
  /\ From("after", Sources(net) \ isolatedNodes)

Lose ==
  /\ phase = "after" /\ todo = {}
  /\ phase' = "done"
  /\ lost' = (baseline \ seen) \ isolatedNodes
  /\ UNCHANGED <<net, damaged, todo, processed, isolatedLines, isolatedNodes, boundary, taken, seen, baseline>>

\* The answer is sent.
Answer ==
  /\ phase = "done"
  /\ phase' = "idle" /\ net' = NoNetwork /\ damaged' = None
  /\ processed' = {} /\ isolatedLines' = {} /\ isolatedNodes' = {} /\ boundary' = {}
  /\ taken' = {} /\ seen' = {} /\ baseline' = {} /\ lost' = {}
  /\ UNCHANGED todo

Search ==
  \/ \E n \in Node : \/ Visit(n)
                     \/ phase = "before" /\ Flow(n, Closed(net), {})
                     \/ phase = "after" /\ Flow(n, Blocked, isolatedNodes)
  \/ Before \/ After \/ Lose

-----------------------------------------------------------------------------

\* What a network connects, without a search: the nodes in every set that holds
\* start and all ends of a line that holds one, but those where it stops.
Spreads(S, start, lines, stop) ==
  start \subseteq S /\ \A l \in lines : Ends[l] \cap S # {} => Ends[l] \subseteq S \cup stop

Connected(start, lines, stop) ==
  {n \in Node : \A S \in SUBSET Node : Spreads(S, start, lines, stop) => n \in S}

\* The answer isolates the nodes that the damage reaches without passing a valve,
\* on a line or inside a node, and no others.
ZoneExact ==
  phase = "done" =>
    LET chambers == {n \in Node : net.valves[n] # {}}
        start == IF damaged \in Line THEN Ends[damaged] \ chambers ELSE {damaged}
    IN isolatedNodes = Connected(start, {l \in net.lines : net.valves[l] = {}}, chambers)

\* When the valves that the answer names are closed, no water comes from a source
\* outside the zone into it.
ZoneDry ==
  phase = "done" =>
    LET open == {l \in net.lines : "closed" \notin net.valves[l] /\ ~(l \in taken /\ "open" \in net.valves[l])}
        shut == {n \in taken \cap Node : net.valves[n] # {}}
    IN Connected((net.sources \ isolatedNodes) \ shut, open, shut) \cap isolatedNodes = {}

\* The nodes said to lose their supply are those outside the zone that have a
\* source in normal operation, and none once the zone and the damaged line are out.
LostExact ==
  phase = "done" =>
    LET open == {l \in net.lines : "closed" \notin net.valves[l]}
        outside == Sources(net) \ isolatedNodes
    IN lost = (Connected(Sources(net), open, {}) \ Connected(outside, open \ {damaged}, isolatedNodes))
                \ isolatedNodes
=============================================================================
