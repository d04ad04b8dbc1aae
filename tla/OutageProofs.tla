---------------------------- MODULE OutageProofs ----------------------------
(***************************************************************************)
(* What is true of the outage simulation for every network, any number of   *)
(* requests and any TTL.  The searches are loops: their invariants say that *)
(* what is found so far must be found, and that only the nodes in todo can  *)
(* lead any further.                                                        *)
(***************************************************************************)
EXTENDS Outage, TLAPS

Phases == {"idle", "zone", "before", "after", "done"}

ZoneTypes ==
  /\ phase \in Phases /\ net \in Network /\ damaged \in Line \cup Node \cup {None}
  /\ todo \subseteq Node /\ processed \subseteq Line /\ isolatedLines \subseteq Line
  /\ isolatedNodes \subseteq Node /\ boundary \subseteq Node /\ taken \subseteq Line \cup Node
  /\ seen \subseteq Node /\ baseline \subseteq Node /\ lost \subseteq Node

\* The nodes of the zone that the search of it has not visited.
Pending == IF phase = "zone" THEN todo ELSE {}

\* Where the zone begins and the lines that carry it on.
Start == IF damaged \in Line THEN Ends[damaged] \ {n \in Node : net.valves[n] # {}} ELSE {damaged}
Plain == {l \in net.lines : net.valves[l] = {}}

Fresh == processed = {} /\ isolatedLines = {} /\ boundary = {} /\ taken = {}

\* The nodes found have to be in the zone; a line at a node that was visited is
\* processed; a processed line ends the zone at its valves, or its ends are in.
Zone ==
  /\ damaged # None /\ processed \subseteq net.lines /\ Pending \subseteq isolatedNodes
  /\ Start \subseteq isolatedNodes
  /\ \A S \in SUBSET Node : Spreads(S, Start, Plain, Chambers(net)) => isolatedNodes \subseteq S
  /\ \A l \in net.lines : Ends[l] \cap (isolatedNodes \ Pending) # {} => l \in processed
  /\ \A l \in processed : l \in Valved(net) => l \in taken
  /\ \A l \in processed : l \notin Valved(net) => Ends[l] \subseteq isolatedNodes \cup boundary
  /\ boundary \subseteq Chambers(net) \cap taken

\* The lines that are taken out or closed touch the zone, but the damaged one.
Touching ==
  /\ damaged \in Line => damaged \in isolatedLines
  /\ \A l \in isolatedLines \cup (taken \cap Line) : l = damaged \/ Ends[l] \cap isolatedNodes # {}

\* The invariant of reachable_from_sources.
Flowing(start, lines, stop) ==
  /\ start \subseteq seen /\ todo \subseteq seen
  /\ \A S \in SUBSET Node : Spreads(S, start, lines, stop) => seen \subseteq S
  /\ \A l \in lines : Ends[l] \cap (seen \ todo) # {} => Ends[l] \subseteq seen \cup stop

Normal == net.lines \ Closed(net)
Supplied == Connected(Sources(net), Normal, {})
StillSupplied == Connected(Sources(net) \ isolatedNodes, net.lines \ Blocked, isolatedNodes)

Flows ==
  /\ phase = "before" => Flowing(Sources(net), Normal, {})
  /\ phase = "after" => /\ Flowing(Sources(net) \ isolatedNodes, net.lines \ Blocked, isolatedNodes)
                        /\ baseline = Supplied
  /\ phase = "done" => lost = (Supplied \ StillSupplied) \ isolatedNodes

ZoneInv ==
  /\ ZoneTypes /\ Flows
  /\ phase = "idle" => Fresh
  /\ phase # "idle" => Zone /\ Touching

-----------------------------------------------------------------------------

LEMMA EndsAreNodes == ASSUME ZoneAssumption, NEW l \in Line PROVE Ends[l] \subseteq Node
BY DEF ZoneAssumption

LEMMA NetworkParts ==
  ASSUME NEW nw \in Network
  PROVE  /\ nw.lines \subseteq Line /\ nw.sources \subseteq Node
         /\ \A x \in Line \cup Node : nw.valves[x] \subseteq {"open", "closed"}
BY DEF Network

LEMMA NoNetworkType == NoNetwork \in Network
BY DEF NoNetwork, Network

\* A search that is at its end has found what is connected, and nothing else.
LEMMA FlowEnds ==
  ASSUME NEW start, NEW lines, NEW stop, seen \subseteq Node, Flowing(start, lines, stop), todo = {}
  PROVE  seen = Connected(start, lines, stop)
<1>1. Spreads(seen, start, lines, stop)
  BY DEF Flowing, Spreads
<1>2. Connected(start, lines, stop) \subseteq seen
  BY <1>1 DEF Connected
<1>3. seen \subseteq Connected(start, lines, stop)
  BY DEF Connected, Flowing
<1> QED BY <1>2, <1>3

\* A search of the nodes connected with the sources begins with its invariant.
LEMMA FlowBegins ==
  ASSUME NEW start, NEW lines, NEW stop, seen' = start, todo' = start
  PROVE  /\ start \subseteq seen' /\ todo' \subseteq seen'
         /\ \A S \in SUBSET Node : Spreads(S, start, lines, stop) => seen' \subseteq S
         /\ \A l \in lines : Ends[l] \cap (seen' \ todo') # {} => Ends[l] \subseteq seen' \cup stop
BY DEF Spreads

\* A step of it keeps the invariant.
LEMMA FlowGoesOn ==
  ASSUME NEW n, NEW start, NEW lines, NEW blocked, NEW stop, lines = net.lines \ blocked,
         Flowing(start, lines, stop), Flow(n, blocked, stop)
  PROVE  /\ start \subseteq seen' /\ todo' \subseteq seen'
         /\ \A S \in SUBSET Node : Spreads(S, start, lines, stop) => seen' \subseteq S
         /\ \A l \in lines : Ends[l] \cap (seen' \ todo') # {} => Ends[l] \subseteq seen' \cup stop
<1> DEFINE at == {k \in net.lines \ blocked : n \in Ends[k]}
           reached == UNION {Ends[l] : l \in at}
           new == reached \ (seen \cup stop)
<1>1. n \in todo /\ seen' = seen \cup new /\ todo' = (todo \ {n}) \cup new
  BY DEF Flow
<1>2. n \in seen
  BY <1>1 DEF Flowing
<1>3. start \subseteq seen' /\ todo' \subseteq seen'
  BY <1>1 DEF Flowing
<1>4. ASSUME NEW S \in SUBSET Node, Spreads(S, start, lines, stop)
      PROVE  seen' \subseteq S
  <2>1. seen \subseteq S
    BY <1>4 DEF Flowing
  <2>2. \A l \in at : Ends[l] \subseteq S \cup stop
    BY <1>4, <2>1, <1>2 DEF Spreads
  <2>3. reached \subseteq S \cup stop
    <3>1. ASSUME NEW m \in reached
          PROVE  m \in S \cup stop
      <4>1. PICK l \in at : m \in Ends[l]
        OBVIOUS
      <4> QED BY <4>1, <2>2, Zenon
    <3> QED BY <3>1, Zenon
  <2> HIDE DEF reached
  <2> QED BY <1>1, <2>1, <2>3
<1>5. ASSUME NEW l \in lines, Ends[l] \cap (seen' \ todo') # {}
      PROVE  Ends[l] \subseteq seen' \cup stop
  <2>1. PICK m \in Ends[l] : m \in seen' \ todo'
    BY <1>5
  <2>2. m \in seen /\ (m \notin todo \/ m = n)
    BY <2>1, <1>1
  <2>3. CASE m \notin todo
    <3>1. Ends[l] \subseteq seen \cup stop
      BY <2>1, <2>2, <2>3 DEF Flowing
    <3> QED BY <3>1, <1>1
  <2>4. CASE m = n
    <3>1. l \in at
      BY <2>1, <2>4
    <3>2. Ends[l] \subseteq reached
      BY <3>1, Zenon
    <3> HIDE DEF reached
    <3> QED BY <3>2, <1>1
  <2> QED BY <2>2, <2>3, <2>4
<1> QED BY <1>3, <1>4, <1>5

-----------------------------------------------------------------------------
(* The zone.                                                               *)

LEMMA BeginLineKeeps ==
  ASSUME ZoneAssumption, ZoneInv, NEW nw \in Network, NEW l \in Line, BeginLine(nw, l)
  PROVE  ZoneInv'
<1> DEFINE chambers == Chambers(nw)
<1>1. /\ l \in nw.lines /\ phase' = "zone" /\ net' = nw /\ damaged' = l
      /\ processed' = {l} /\ isolatedLines' = {l}
      /\ isolatedNodes' = Ends[l] \ chambers /\ todo' = Ends[l] \ chambers
      /\ boundary' = Ends[l] \cap chambers
      /\ taken' = ({l} \cap Valved(nw)) \cup (Ends[l] \cap chambers)
      /\ UNCHANGED <<seen, baseline, lost>>
  BY DEF BeginLine
<1>2. Ends[l] \subseteq Node
  BY EndsAreNodes
<1>3. ZoneTypes'
  BY <1>1, <1>2 DEF ZoneTypes, ZoneInv, Phases
<1>4. Flows' /\ (phase = "idle" => Fresh)'
  BY <1>1 DEF Flows
<1>5. Start' = Ends[l] \ chambers /\ Pending' = Ends[l] \ chambers /\ Chambers(net)' = chambers
  BY <1>1 DEF Start, Pending, Chambers
<1>6. \A S \in SUBSET Node : Spreads(S, Start', Plain', Chambers(net)') => isolatedNodes' \subseteq S
  BY <1>1, <1>5 DEF Spreads
<1>7. Valved(net)' = Valved(nw)
  BY <1>1 DEF Valved
<1>8. l # None
  BY DEF ZoneAssumption
<1>9. Zone'
  <2>1. (\A k \in net.lines : Ends[k] \cap (isolatedNodes \ Pending) # {} => k \in processed)'
    BY <1>1, <1>5
  <2>2. (\A k \in processed : k \in Valved(net) => k \in taken)'
    BY <1>1, <1>7
  <2>3. (\A k \in processed : k \notin Valved(net) => Ends[k] \subseteq isolatedNodes \cup boundary)'
    BY <1>1, <1>7
  <2>4. (boundary \subseteq Chambers(net) \cap taken)'
    BY <1>1, <1>5
  <2>5. (\A S \in SUBSET Node : Spreads(S, Start, Plain, Chambers(net)) => isolatedNodes \subseteq S)'
    BY <1>6 DEF Spreads
  <2>6. (damaged # None /\ processed \subseteq net.lines /\ Pending \subseteq isolatedNodes
         /\ Start \subseteq isolatedNodes)'
    BY <1>1, <1>5, <1>8
  <2> QED BY <2>1, <2>2, <2>3, <2>4, <2>5, <2>6 DEF Zone
<1>10. Touching'
  <2>1. (taken \cap Line)' \subseteq {l}
    BY <1>1, <1>2 DEF ZoneAssumption
  <2> QED BY <1>1, <2>1 DEF Touching
<1> QED BY <1>1, <1>3, <1>4, <1>9, <1>10 DEF ZoneInv

LEMMA BeginNodeKeeps ==
  ASSUME ZoneAssumption, ZoneInv, NEW nw \in Network, NEW n \in Node, BeginNode(nw, n)
  PROVE  ZoneInv'
<1>1. /\ phase = "idle" /\ phase' = "zone" /\ net' = nw /\ damaged' = n
      /\ isolatedNodes' = {n} /\ todo' = {n}
      /\ UNCHANGED <<processed, isolatedLines, boundary, taken, seen, baseline, lost>>
  BY DEF BeginNode
<1>2. processed' = {} /\ isolatedLines' = {} /\ boundary' = {} /\ taken' = {}
  BY <1>1 DEF ZoneInv, Fresh
<1>3. ZoneTypes'
  BY <1>1, <1>2 DEF ZoneTypes, ZoneInv, Phases
<1>4. Flows' /\ (phase = "idle" => Fresh)'
  BY <1>1 DEF Flows
<1>5. n # None /\ n \notin Line
  BY DEF ZoneAssumption
<1>6. Start' = {n} /\ Pending' = {n}
  BY <1>1, <1>5 DEF Start, Pending
<1>7. Zone'
  <2>1. (\A S \in SUBSET Node : Spreads(S, Start, Plain, Chambers(net)) => isolatedNodes \subseteq S)'
    BY <1>1, <1>6 DEF Spreads
  <2> QED BY <1>1, <1>2, <1>5, <1>6, <2>1 DEF Zone
<1>8. Touching'
  BY <1>1, <1>2, <1>5 DEF Touching
<1> QED BY <1>1, <1>3, <1>4, <1>7, <1>8 DEF ZoneInv

LEMMA VisitKeeps ==
  ASSUME ZoneAssumption, ZoneInv, NEW n \in Node, Visit(n)
  PROVE  ZoneInv'
<1> DEFINE lines == {l \in net.lines : n \in Ends[l]} \ processed
           free == lines \ Valved(net)
           reached == UNION {Ends[l] : l \in free}
           new == reached \ (isolatedNodes \cup boundary)
           chambers == Chambers(net)
<1>1. /\ phase = "zone" /\ n \in todo
      /\ processed' = processed \cup lines
      /\ isolatedLines' = isolatedLines \cup free
      /\ isolatedNodes' = isolatedNodes \cup (new \ chambers)
      /\ todo' = (todo \ {n}) \cup (new \ chambers)
      /\ boundary' = boundary \cup (new \cap chambers)
      /\ taken' = taken \cup (lines \cap Valved(net)) \cup (new \cap chambers)
      /\ UNCHANGED <<phase, net, damaged, seen, baseline, lost>>
  BY DEF Visit, Free, Named
<1>2. lines \subseteq Line /\ net.lines \subseteq Line /\ new \subseteq Node
  <2>1. net.lines \subseteq Line
    BY NetworkParts DEF ZoneInv, ZoneTypes
  <2> QED BY <2>1, EndsAreNodes
<1>3. ZoneTypes'
  BY <1>1, <1>2 DEF ZoneTypes, ZoneInv
<1>4. Flows' /\ (phase = "idle" => Fresh)'
  BY <1>1 DEF Flows
<1>5. Start' = Start /\ Plain' = Plain /\ Chambers(net)' = chambers /\ Valved(net)' = Valved(net)
  BY <1>1 DEF Start, Plain, Chambers, Valved
<1>6. Zone /\ Touching /\ Pending = todo /\ Pending' = todo' /\ n \in isolatedNodes
  BY <1>1 DEF ZoneInv, Zone, Pending
<1>7. \A l \in free : l \in Plain /\ n \in Ends[l]
  BY <1>2 DEF Plain, Valved
<1>8. ASSUME NEW S \in SUBSET Node, Spreads(S, Start, Plain, chambers)
      PROVE  isolatedNodes' \subseteq S
  <2>1. isolatedNodes \subseteq S
    BY <1>6, <1>8 DEF Zone
  <2>2. \A l \in free : Ends[l] \subseteq S \cup chambers
    BY <1>6, <1>7, <1>8, <2>1 DEF Spreads
  <2>3. new \ chambers \subseteq S
    BY <2>2
  <2> QED BY <1>1, <2>1, <2>3
<1>9. ASSUME NEW l \in net.lines, Ends[l] \cap (isolatedNodes' \ todo') # {}
      PROVE  l \in processed'
  <2>1. PICK m \in Ends[l] : m \in isolatedNodes' \ todo'
    BY <1>9
  <2>2. m \in isolatedNodes /\ (m \notin todo \/ m = n)
    BY <2>1, <1>1
  <2>3. CASE m \notin todo
    BY <2>1, <2>2, <2>3, <1>1, <1>6 DEF Zone
  <2>4. CASE m = n
    BY <2>1, <2>4, <1>1
  <2> QED BY <2>2, <2>3, <2>4
<1>10. ASSUME NEW l \in processed', l \notin Valved(net)
       PROVE  Ends[l] \subseteq isolatedNodes' \cup boundary'
  <2>1. CASE l \in processed
    <3>1. Ends[l] \subseteq isolatedNodes \cup boundary
      BY <1>6, <1>10, <2>1 DEF Zone
    <3> QED BY <3>1, <1>1
  <2>2. CASE l \notin processed
    <3>1. l \in free
      BY <1>1, <1>10, <2>2
    <3>2. Ends[l] \subseteq reached
      BY <3>1, Zenon
    <3> HIDE DEF reached
    <3> QED BY <3>2, <1>1
  <2> QED BY <2>1, <2>2
<1>11. ASSUME NEW l \in processed', l \in Valved(net)
       PROVE  l \in taken'
  BY <1>1, <1>6, <1>11 DEF Zone
<1>12. Zone'
  <2>1. (\A S \in SUBSET Node : Spreads(S, Start, Plain, Chambers(net)) => isolatedNodes \subseteq S)'
    BY <1>5, <1>8 DEF Spreads
  <2>2. (\A l \in net.lines : Ends[l] \cap (isolatedNodes \ Pending) # {} => l \in processed)'
    BY <1>1, <1>6, <1>9
  <2>3. (\A l \in processed : l \in Valved(net) => l \in taken)'
    BY <1>5, <1>11
  <2>4. (\A l \in processed : l \notin Valved(net) => Ends[l] \subseteq isolatedNodes \cup boundary)'
    BY <1>5, <1>10
  <2>5. (boundary \subseteq Chambers(net) \cap taken)'
    BY <1>1, <1>5, <1>6 DEF Zone
  <2>6. (damaged # None /\ processed \subseteq net.lines /\ Pending \subseteq isolatedNodes
         /\ Start \subseteq isolatedNodes)'
    BY <1>1, <1>5, <1>6 DEF Zone
  <2> QED BY <2>1, <2>2, <2>3, <2>4, <2>5, <2>6 DEF Zone
<1>13. Touching'
  <2>1. isolatedLines' \cup (taken \cap Line)' \subseteq isolatedLines \cup (taken \cap Line) \cup lines
    BY <1>1, <1>2 DEF ZoneAssumption
  <2>2. \A l \in lines : n \in Ends[l] \cap isolatedNodes'
    BY <1>1, <1>6
  <2>3. isolatedNodes \subseteq isolatedNodes'
    BY <1>1
  <2>4. ASSUME NEW l \in isolatedLines' \cup (taken \cap Line)'
        PROVE  l = damaged \/ Ends[l] \cap isolatedNodes' # {}
    <3>1. CASE l \in lines
      BY <3>1, <2>2
    <3>2. CASE l \in isolatedLines \cup (taken \cap Line)
      BY <3>2, <2>3, <1>6 DEF Touching
    <3> QED BY <2>1, <3>1, <3>2
  <2> QED BY <1>1, <1>6, <2>4 DEF Touching
<1> QED BY <1>1, <1>3, <1>4, <1>12, <1>13 DEF ZoneInv

-----------------------------------------------------------------------------
(* The nodes that are connected with a source.                             *)

\* What does not change the zone keeps what is said of it.
LEMMA ZoneStays ==
  ASSUME Zone, Touching, Pending' \subseteq isolatedNodes,
         \A l \in net.lines : Ends[l] \cap (isolatedNodes \ Pending') # {} => l \in processed,
         UNCHANGED <<net, damaged, processed, isolatedLines, isolatedNodes, boundary, taken>>
  PROVE  Zone' /\ Touching'
<1>1. Start' = Start /\ Plain' = Plain /\ Chambers(net)' = Chambers(net) /\ Valved(net)' = Valved(net)
  BY DEF Start, Plain, Chambers, Valved
<1>2. (\A S \in SUBSET Node : Spreads(S, Start, Plain, Chambers(net)) => isolatedNodes \subseteq S)'
  BY <1>1 DEF Zone, Spreads
<1>3. Zone'
  BY <1>1, <1>2 DEF Zone
<1>4. Touching'
  BY DEF Touching
<1> QED BY <1>3, <1>4

LEMMA FlowKeeps ==
  ASSUME ZoneAssumption, ZoneInv, NEW n \in Node,
         \/ phase = "before" /\ Flow(n, Closed(net), {})
         \/ phase = "after" /\ Flow(n, Blocked, isolatedNodes)
  PROVE  ZoneInv'
<1>1. UNCHANGED <<phase, net, damaged, processed, isolatedLines, isolatedNodes, boundary, taken,
                  baseline, lost>>
  BY DEF Flow
<1>2. phase \in {"before", "after"} /\ Zone /\ Touching /\ Pending = {} /\ Pending' = {}
  BY <1>1 DEF ZoneInv, Pending
<1>3. seen' \subseteq Node /\ todo' \subseteq Node
  <2>1. net.lines \subseteq Line
    BY NetworkParts DEF ZoneInv, ZoneTypes
  <2>2. \A l \in net.lines : Ends[l] \subseteq Node
    BY <2>1, EndsAreNodes
  <2> QED BY <2>2 DEF Flow, ZoneInv, ZoneTypes
<1>4. ZoneTypes'
  BY <1>1, <1>3 DEF ZoneInv, ZoneTypes
<1>5. Zone' /\ Touching'
  BY <1>1, <1>2, ZoneStays DEF Zone
<1>6. Closed(net)' = Closed(net) /\ Sources(net)' = Sources(net) /\ Blocked' = Blocked /\ Normal' = Normal
  BY <1>1 DEF Closed, Sources, Blocked, Normal
<1>7. CASE phase = "before" /\ Flow(n, Closed(net), {})
  <2>1. Flowing(Sources(net), net.lines \ Closed(net), {})
    BY <1>7 DEF ZoneInv, Flows, Normal
  <2> DEFINE sources == Sources(net)
  <2>4. /\ sources \subseteq seen' /\ todo' \subseteq seen'
        /\ \A S \in SUBSET Node : Spreads(S, sources, Normal, {}) => seen' \subseteq S
        /\ \A l \in Normal : Ends[l] \cap (seen' \ todo') # {} => Ends[l] \subseteq seen' \cup {}
    <3> HIDE DEF sources
    <3>1. Normal = net.lines \ Closed(net) /\ Flow(n, Closed(net), {}) /\ Flowing(sources, Normal, {})
      BY <1>7, <2>1 DEF Normal, sources
    <3> QED BY ONLY <3>1, FlowGoesOn
  <2>2. Flowing(Sources(net), Normal, {})'
    BY <1>6, <2>4 DEF Flowing, Spreads
  <2>3. Flows'
    BY <1>1, <1>7, <2>2 DEF Flows
  <2> QED BY <1>1, <1>2, <1>4, <1>5, <2>3 DEF ZoneInv
<1>8. CASE phase = "after" /\ Flow(n, Blocked, isolatedNodes)
  <2>1. /\ Flowing(Sources(net) \ isolatedNodes, net.lines \ Blocked, isolatedNodes)
        /\ baseline = Supplied
    BY <1>8 DEF ZoneInv, Flows
  <2> DEFINE sources == Sources(net) \ isolatedNodes
             lines == net.lines \ Blocked
  <2>5. /\ sources \subseteq seen' /\ todo' \subseteq seen'
        /\ \A S \in SUBSET Node : Spreads(S, sources, lines, isolatedNodes) => seen' \subseteq S
        /\ \A l \in lines : Ends[l] \cap (seen' \ todo') # {} => Ends[l] \subseteq seen' \cup isolatedNodes
    <3> HIDE DEF sources, lines
    <3>1. lines = net.lines \ Blocked /\ Flow(n, Blocked, isolatedNodes) /\ Flowing(sources, lines, isolatedNodes)
      BY <1>8, <2>1 DEF lines, sources
    <3> QED BY ONLY <3>1, FlowGoesOn
  <2>6. sources' = sources /\ lines' = lines
    BY <1>1, <1>6
  <2>2. Flowing(Sources(net) \ isolatedNodes, net.lines \ Blocked, isolatedNodes)'
    BY <1>1, <2>5, <2>6 DEF Flowing, Spreads
  <2>3. Supplied' = Supplied
    BY <1>6 DEF Supplied, Connected, Spreads
  <2>4. Flows'
    BY <1>1, <1>8, <2>1, <2>2, <2>3 DEF Flows
  <2> QED BY <1>1, <1>2, <1>4, <1>5, <2>4 DEF ZoneInv
<1> QED BY <1>7, <1>8

LEMMA BeforeKeeps ==
  ASSUME ZoneAssumption, ZoneInv, Before
  PROVE  ZoneInv'
<1>1. /\ phase = "zone" /\ todo = {} /\ phase' = "before" /\ seen' = Sources(net) /\ todo' = Sources(net)
      /\ UNCHANGED <<net, damaged, processed, isolatedLines, isolatedNodes, boundary, taken, lost, baseline>>
  BY DEF Before, From
<1>2. Zone /\ Touching /\ Pending = {} /\ Pending' = {}
  BY <1>1 DEF ZoneInv, Pending
<1>3. Sources(net) \subseteq Node
  BY NetworkParts DEF ZoneInv, ZoneTypes, Sources
<1>4. ZoneTypes'
  BY <1>1, <1>3 DEF ZoneInv, ZoneTypes, Phases
<1>5. Zone' /\ Touching'
  BY <1>1, <1>2, ZoneStays DEF Zone
<1>6. Sources(net)' = Sources(net) /\ Normal' = Normal
  BY <1>1 DEF Sources, Normal, Closed
<1>7. Flowing(Sources(net), Normal, {})'
  BY <1>1, <1>6, FlowBegins DEF Flowing, Spreads
<1> QED BY <1>1, <1>4, <1>5, <1>7 DEF ZoneInv, Flows

LEMMA AfterKeeps ==
  ASSUME ZoneAssumption, ZoneInv, After
  PROVE  ZoneInv'
<1>1. /\ phase = "before" /\ todo = {} /\ phase' = "after" /\ baseline' = seen
      /\ seen' = Sources(net) \ isolatedNodes /\ todo' = Sources(net) \ isolatedNodes
      /\ UNCHANGED <<net, damaged, processed, isolatedLines, isolatedNodes, boundary, taken, lost>>
  BY DEF After, From
<1>2. Zone /\ Touching /\ Pending = {} /\ Pending' = {}
  BY <1>1 DEF ZoneInv, Pending
<1>3. Sources(net) \subseteq Node
  BY NetworkParts DEF ZoneInv, ZoneTypes, Sources
<1>4. ZoneTypes'
  BY <1>1, <1>3 DEF ZoneInv, ZoneTypes, Phases
<1>5. Zone' /\ Touching'
  BY <1>1, <1>2, ZoneStays DEF Zone
<1>6. Sources(net)' = Sources(net) /\ Normal' = Normal /\ Blocked' = Blocked
  BY <1>1 DEF Sources, Normal, Closed, Blocked
<1>7. Flowing(Sources(net) \ isolatedNodes, net.lines \ Blocked, isolatedNodes)'
  BY <1>1, <1>6, FlowBegins DEF Flowing, Spreads
<1>8. seen = Supplied
  BY <1>1, FlowEnds DEF ZoneInv, ZoneTypes, Flows, Supplied
<1>9. Supplied' = Supplied
  BY <1>6 DEF Supplied, Connected, Spreads
<1> QED BY <1>1, <1>4, <1>5, <1>7, <1>8, <1>9 DEF ZoneInv, Flows

LEMMA LoseKeeps ==
  ASSUME ZoneAssumption, ZoneInv, Lose
  PROVE  ZoneInv'
<1>1. /\ phase = "after" /\ todo = {} /\ phase' = "done" /\ lost' = (baseline \ seen) \ isolatedNodes
      /\ UNCHANGED <<net, damaged, todo, processed, isolatedLines, isolatedNodes, boundary, taken,
                     seen, baseline>>
  BY DEF Lose
<1>2. Zone /\ Touching /\ Pending = {} /\ Pending' = {}
  BY <1>1 DEF ZoneInv, Pending
<1>3. ZoneTypes'
  BY <1>1 DEF ZoneInv, ZoneTypes, Phases
<1>4. Zone' /\ Touching'
  BY <1>1, <1>2, ZoneStays DEF Zone
<1>5. seen = StillSupplied /\ baseline = Supplied
  BY <1>1, FlowEnds DEF ZoneInv, ZoneTypes, Flows, StillSupplied
<1>6. Sources(net)' = Sources(net) /\ Normal' = Normal /\ Blocked' = Blocked
  BY <1>1 DEF Sources, Normal, Closed, Blocked
<1>7. Supplied' = Supplied /\ StillSupplied' = StillSupplied
  BY <1>1, <1>6 DEF Supplied, StillSupplied, Connected, Spreads
<1> QED BY <1>1, <1>3, <1>4, <1>5, <1>7 DEF ZoneInv, Flows

LEMMA AnswerKeeps ==
  ASSUME ZoneInv, Answer
  PROVE  ZoneInv'
<1>1. /\ phase' = "idle" /\ net' = NoNetwork /\ damaged' = None
      /\ processed' = {} /\ isolatedLines' = {} /\ isolatedNodes' = {} /\ boundary' = {}
      /\ taken' = {} /\ seen' = {} /\ baseline' = {} /\ lost' = {} /\ todo' = todo
  BY DEF Answer
<1>2. ZoneTypes'
  BY <1>1, NoNetworkType DEF ZoneInv, ZoneTypes, Phases
<1> QED BY <1>1, <1>2 DEF ZoneInv, Flows, Fresh

LEMMA ZoneUnchanged == ASSUME ZoneInv, UNCHANGED zoneVars PROVE ZoneInv'
<1>1. UNCHANGED <<phase, net, damaged, todo, processed, isolatedLines, isolatedNodes, boundary, taken,
                  seen, baseline, lost>>
  BY DEF zoneVars
<1>2. Pending' = Pending /\ Sources(net)' = Sources(net) /\ Normal' = Normal /\ Blocked' = Blocked
  BY <1>1 DEF Pending, Sources, Normal, Closed, Blocked
<1>3. ZoneTypes' /\ (phase = "idle" => Fresh)'
  BY <1>1 DEF ZoneInv, ZoneTypes, Fresh
<1>4. (phase # "idle" => Zone /\ Touching)'
  BY <1>1, <1>2, ZoneStays DEF ZoneInv, Zone
<1>5. Supplied' = Supplied /\ StillSupplied' = StillSupplied
  BY <1>1, <1>2 DEF Supplied, StillSupplied, Connected, Spreads
<1>6. Flows'
  BY <1>1, <1>2, <1>5 DEF ZoneInv, Flows, Flowing, Spreads
<1> QED BY <1>3, <1>4, <1>6 DEF ZoneInv

LEMMA SearchKeeps ==
  ASSUME ZoneAssumption, ZoneInv, Search \/ Answer
  PROVE  ZoneInv'
BY VisitKeeps, FlowKeeps, BeforeKeeps, AfterKeeps, LoseKeeps, AnswerKeeps DEF Search

-----------------------------------------------------------------------------
(* The network that is kept.                                               *)

Entry == [at : Nat, net : Network, of : [Part -> Nat]]
Asked == [stage : Part \cup {"ready"}, now : Nat, low : Nat, net : Network, of : [Part -> Nat]]

\* The parts that a request has read.
Known(q) ==
  CASE q.stage = "lines" -> {}
    [] q.stage = "valves" -> {"lines"}
    [] q.stage = "sources" -> {"lines", "valves"}
    [] OTHER -> Part

\* State v of the database was in force at time t or later.
ForceAt(v, t) == v = edits \/ till[v] >= t

EntryOk ==
  \/ cache = NoEntry
  \/ /\ cache \in Entry /\ cache.at <= clock
     /\ \A p \in Part : floor <= cache.of[p] /\ cache.of[p] <= edits /\ ForceAt(cache.of[p], cache.at)

RequestOk(q) ==
  \/ q = Idle
  \/ /\ q \in Asked /\ q.now <= clock /\ q.low <= edits
     /\ q.stage \in Part => q.low = floor
     /\ \A p \in Known(q) :
          /\ q.low <= q.of[p] /\ q.of[p] <= edits
          /\ q.stage \in Part => ForceAt(q.of[p], q.now)
          /\ q.stage = "ready" => q.of[p] = edits \/ till[q.of[p]] + TTL > q.now

CacheTypes ==
  /\ clock \in Nat /\ db \in Network /\ edits \in 0 .. MaxEdits
  /\ till \in [0 .. MaxEdits -> Nat] /\ toDrop \in Nat
  /\ floor \in Nat /\ floor <= edits
  /\ DOMAIN req = Request

CacheInv == CacheTypes /\ EntryOk /\ \A r \in Request : RequestOk(req[r])

LEMMA EditedType ==
  ASSUME OutageAssumption, db \in Network, NEW L \in EditedLines, NEW V \in EditedValves
  PROVE  [db EXCEPT !.lines = L, !.valves = V] \in Network
<1>1. L \in SUBSET Line
  BY DEF EditedLines, Network
<1>2. V \in [Line \cup Node -> SUBSET {"open", "closed"}]
  BY DEF EditedValves, Network, OutageAssumption
<1> QED BY <1>1, <1>2 DEF Network

\* A request that goes on leaves the others alone.
LEMMA StepOk ==
  ASSUME CacheInv, NEW r \in Request, NEW q, Step(r, q), EntryOk', RequestOk(q)'
  PROVE  CacheInv'
<1>1. req' = [req EXCEPT ![r] = q] /\ UNCHANGED <<clock, db, edits, till, toDrop, floor>>
  BY DEF Step
<1>2. CacheTypes'
  BY <1>1 DEF CacheInv, CacheTypes
<1>3. ASSUME NEW s \in Request PROVE RequestOk(req[s])'
  <2>1. CASE s = r
    <3>1. req'[s] = q
      BY <1>1, <2>1 DEF CacheInv, CacheTypes
    <3>2. RequestOk(q)'
      OBVIOUS
    <3> QED BY <1>1, <3>1, <3>2 DEF RequestOk, ForceAt, Known
  <2>2. CASE s # r
    <3>1. req'[s] = req[s]
      BY <1>1, <2>2 DEF CacheInv, CacheTypes
    <3>2. RequestOk(req[s])
      BY DEF CacheInv
    <3> QED BY <1>1, <3>1, <3>2 DEF RequestOk, ForceAt, Known
  <2> QED BY <2>1, <2>2
<1> QED BY <1>2, <1>3 DEF CacheInv

LEMMA TickKeeps == ASSUME CacheInv, Tick PROVE CacheInv'
<1>1. clock' = clock + 1 /\ UNCHANGED <<db, edits, till, cache, toDrop, floor, req>>
  BY DEF Tick
<1>2. CacheTypes' /\ EntryOk'
  BY <1>1 DEF CacheInv, CacheTypes, EntryOk, Entry, ForceAt
<1>3. ASSUME NEW r \in Request PROVE RequestOk(req[r])'
  <2>1. RequestOk(req[r]) /\ req'[r] = req[r]
    BY <1>1 DEF CacheInv
  <2> QED BY <1>1, <2>1 DEF RequestOk, ForceAt, Known, CacheInv, CacheTypes, Asked
<1> QED BY <1>2, <1>3 DEF CacheInv

\* The state in force until now was in force at every time up to now.
LEMMA CommitKeeps ==
  ASSUME OutageAssumption, CacheInv, NEW nw \in Network, NEW own \in BOOLEAN, Commit(nw, own)
  PROVE  CacheInv'
<1>1. /\ edits < MaxEdits /\ db' = nw /\ edits' = edits + 1
      /\ till' = [till EXCEPT ![edits] = clock]
      /\ toDrop' \in {toDrop, toDrop + 1}
      /\ UNCHANGED <<clock, cache, floor, req>>
  BY DEF Commit
<1>3. CacheTypes'
  BY <1>1 DEF CacheInv, CacheTypes, OutageAssumption
<1>4. ASSUME NEW v \in Nat, v <= edits
      PROVE  v <= edits' /\ v # edits' /\ till'[v] = IF v = edits THEN clock ELSE till[v]
  BY <1>1, <1>4 DEF CacheInv, CacheTypes, OutageAssumption
<1>5. EntryOk'
  <2>1. CASE cache = NoEntry
    BY <1>1, <2>1 DEF EntryOk
  <2>2. CASE cache # NoEntry
    <3>1. /\ cache \in Entry /\ cache.at <= clock
          /\ \A p \in Part : /\ floor <= cache.of[p] /\ cache.of[p] <= edits
                            /\ ForceAt(cache.of[p], cache.at)
      BY <2>2 DEF CacheInv, EntryOk
    <3>2. ASSUME NEW p \in Part
          PROVE  floor <= cache.of[p] /\ cache.of[p] <= edits' /\ till'[cache.of[p]] >= cache.at
      <4>1. cache.of[p] \in Nat /\ cache.of[p] <= edits /\ floor <= cache.of[p]
            /\ (cache.of[p] = edits \/ till[cache.of[p]] >= cache.at) /\ cache.at <= clock
        BY <3>1 DEF Entry, ForceAt
      <4> QED BY <4>1, <1>4
    <3> QED BY <1>1, <3>1, <3>2 DEF EntryOk, ForceAt
  <2> QED BY <2>1, <2>2
<1>6. ASSUME NEW r \in Request PROVE RequestOk(req[r])'
  <2>1. RequestOk(req[r]) /\ req'[r] = req[r]
    BY <1>1 DEF CacheInv
  <2>2. CASE req[r] = Idle
    BY <2>1, <2>2 DEF RequestOk
  <2>3. CASE req[r] # Idle
    <3> DEFINE q == req[r]
    <3>1. /\ q \in Asked /\ q.now <= clock /\ q.low <= edits
          /\ q.stage \in Part => q.low = floor
          /\ \A p \in Known(q) :
               /\ q.low <= q.of[p] /\ q.of[p] <= edits
               /\ q.stage \in Part => ForceAt(q.of[p], q.now)
               /\ q.stage = "ready" => q.of[p] = edits \/ till[q.of[p]] + TTL > q.now
      BY <2>1, <2>3 DEF RequestOk
    <3>2. Known(q) \subseteq Part
      BY DEF Known, Part
    <3>3. ASSUME NEW p \in Known(q)
          PROVE  /\ q.low <= q.of[p] /\ q.of[p] <= edits'
                 /\ q.stage \in Part => till'[q.of[p]] >= q.now
                 /\ q.stage = "ready" => till'[q.of[p]] + TTL > q.now
      <4>1. q.of[p] \in Nat /\ q.now \in Nat /\ q.now <= clock /\ q.of[p] <= edits /\ q.low <= q.of[p]
        BY <3>1, <3>2 DEF Asked
      <4>2. CASE q.of[p] = edits
        <5>1. till'[q.of[p]] = clock
          BY <4>1, <4>2, <1>4
        <5> QED BY <4>1, <5>1, <1>4 DEF OutageAssumption, CacheInv, CacheTypes
      <4>3. CASE q.of[p] # edits
        <5>1. till'[q.of[p]] = till[q.of[p]]
          BY <4>1, <4>3, <1>4
        <5> QED BY <4>1, <4>3, <5>1, <3>1, <1>4 DEF ForceAt
      <4> QED BY <4>2, <4>3
    <3>4. q.low <= edits'
      BY <1>1, <3>1 DEF Asked, CacheInv, CacheTypes
    <3>5. req'[r] = q
      BY <2>1
    <3>6. RequestOk(q)'
      BY <1>1, <3>1, <3>3, <3>4, <3>5 DEF RequestOk, ForceAt, Known
    <3> QED BY <3>6
  <2> QED BY <2>2, <2>3
<1> QED BY <1>3, <1>5, <1>6 DEF CacheInv

LEMMA DropKeeps == ASSUME CacheInv, Drop PROVE CacheInv'
<1>1. /\ toDrop > 0 /\ toDrop' = toDrop - 1 /\ cache' = NoEntry
      /\ floor' = IF Loading = {} THEN edits ELSE floor
      /\ UNCHANGED <<clock, db, edits, till, req>>
  BY DEF Drop
<1>2. CacheTypes' /\ EntryOk'
  BY <1>1 DEF CacheInv, CacheTypes, EntryOk
<1>3. ASSUME NEW r \in Request PROVE RequestOk(req[r])'
  <2>1. RequestOk(req[r]) /\ req'[r] = req[r]
    BY <1>1 DEF CacheInv
  <2>2. req[r].stage \in Part => floor' = floor
    BY <1>1 DEF Loading
  <2> QED BY <1>1, <2>1, <2>2 DEF RequestOk, ForceAt, Known
<1> QED BY <1>2, <1>3 DEF CacheInv

LEMMA ReceiveKeeps == ASSUME OutageAssumption, CacheInv, NEW r \in Request, Receive(r) PROVE CacheInv'
<1>1. CASE Hit /\ Step(r, [stage |-> "ready", now |-> clock, low |-> floor, net |-> cache.net, of |-> cache.of])
  <2>1. /\ cache \in Entry /\ cache.at <= clock /\ clock - cache.at < TTL
        /\ \A p \in Part : floor <= cache.of[p] /\ cache.of[p] <= edits /\ ForceAt(cache.of[p], cache.at)
    BY <1>1 DEF Hit, CacheInv, EntryOk
  <2>2. PICK q : q = [stage |-> "ready", now |-> clock, low |-> floor, net |-> cache.net, of |-> cache.of]
    OBVIOUS
  <2>3. q \in Asked /\ q.stage = "ready" /\ q.now = clock /\ q.low = floor /\ q.of = cache.of
    BY <2>1, <2>2 DEF Asked, Entry, CacheInv, CacheTypes
  <2>4. ASSUME NEW p \in Part
        PROVE  floor <= q.of[p] /\ q.of[p] <= edits /\ (q.of[p] = edits \/ till[q.of[p]] + TTL > clock)
    <3>1. cache.of[p] \in Nat /\ cache.at \in Nat
      BY <2>1 DEF Entry
    <3>2. cache.of[p] # edits => till[cache.of[p]] \in Nat
      BY <3>1, <2>1 DEF CacheInv, CacheTypes
    <3> QED BY <2>1, <2>3, <3>1, <3>2 DEF ForceAt, CacheInv, CacheTypes, OutageAssumption
  <2>5. UNCHANGED <<clock, db, edits, till, cache, floor>>
    BY <1>1 DEF Step, Receive
  <2>6. "ready" \notin Part
    BY DEF Part
  <2>7. RequestOk(q)'
    BY <2>3, <2>4, <2>5, <2>6 DEF RequestOk, Known, CacheInv, CacheTypes
  <2>8. EntryOk'
    BY <2>5 DEF CacheInv, EntryOk, ForceAt
  <2> QED BY <1>1, <2>2, <2>7, <2>8, StepOk
<1>2. CASE Step(r, [stage |-> "lines", now |-> clock, low |-> floor, net |-> NoNetwork,
                    of |-> [p \in Part |-> 0]])
  <2>2. PICK q : q = [stage |-> "lines", now |-> clock, low |-> floor, net |-> NoNetwork, of |-> [p \in Part |-> 0]]
    OBVIOUS
  <2>3. q \in Asked /\ q.stage = "lines" /\ q.now = clock /\ q.low = floor
    BY <2>2, NoNetworkType DEF Asked, CacheInv, CacheTypes, Part
  <2>5. UNCHANGED <<clock, db, edits, till, cache, floor>>
    BY <1>2 DEF Step, Receive
  <2>7. RequestOk(q)'
    BY <2>3, <2>5 DEF RequestOk, Known, CacheInv, CacheTypes
  <2>8. EntryOk'
    BY <2>5 DEF CacheInv, EntryOk, ForceAt
  <2> QED BY <1>2, <2>2, <2>7, <2>8, StepOk
<1> QED BY <1>1, <1>2 DEF Receive

LEMMA ReadLinesKeeps == ASSUME CacheInv, NEW r \in Request, ReadLines(r) PROVE CacheInv'
<1>1. PICK q : q = [req[r] EXCEPT !.stage = "valves", !.net.lines = db.lines, !.of["lines"] = edits]
  OBVIOUS
<1>2. req[r].stage = "lines" /\ Step(r, q) /\ cache' = cache
  BY <1>1 DEF ReadLines
<1>3. /\ req[r] \in Asked /\ req[r].now <= clock /\ req[r].low <= edits /\ req[r].low = floor
  BY <1>2 DEF CacheInv, RequestOk, Idle, Part
<1>4. q \in Asked /\ q.stage = "valves" /\ q.now = req[r].now /\ q.low = floor /\ q.of["lines"] = edits
  <2> DEFINE nw == [req[r].net EXCEPT !.lines = db.lines]
             of == [req[r].of EXCEPT !["lines"] = edits]
  <2>1. nw \in Network
    BY <1>3 DEF Asked, Network, CacheInv, CacheTypes
  <2>2. of \in [Part -> Nat] /\ of["lines"] = edits /\ \A p \in Part \ {"lines"} : of[p] = req[r].of[p]
    BY <1>3 DEF Asked, Part, CacheInv, CacheTypes
  <2>3. q = [stage |-> "valves", now |-> req[r].now, low |-> req[r].low, net |-> nw, of |-> of]
    BY <1>1, <1>3 DEF Asked
  <2> HIDE DEF nw, of
  <2> QED BY <1>3, <2>1, <2>2, <2>3 DEF Asked, Part
<1>5. UNCHANGED <<clock, db, edits, till, cache, floor>>
  BY <1>2 DEF Step
<1>6. RequestOk(q)'
  BY <1>3, <1>4, <1>5 DEF RequestOk, Known, ForceAt, CacheInv, CacheTypes
<1>7. EntryOk'
  BY <1>5 DEF CacheInv, EntryOk, ForceAt
<1> QED BY <1>2, <1>6, <1>7, StepOk

LEMMA ReadValvesKeeps == ASSUME CacheInv, NEW r \in Request, ReadValves(r) PROVE CacheInv'
<1>1. PICK q : q = [req[r] EXCEPT !.stage = "sources", !.net.valves = db.valves, !.of["valves"] = edits]
  OBVIOUS
<1>2. req[r].stage = "valves" /\ Step(r, q) /\ cache' = cache
  BY <1>1 DEF ReadValves
<1>3. /\ req[r] \in Asked /\ req[r].now <= clock /\ req[r].low <= edits /\ req[r].low = floor
      /\ floor <= req[r].of["lines"] /\ req[r].of["lines"] <= edits /\ ForceAt(req[r].of["lines"], req[r].now)
  BY <1>2 DEF CacheInv, RequestOk, Idle, Part, Known
<1>4. /\ q \in Asked /\ q.stage = "sources" /\ q.now = req[r].now /\ q.low = floor
      /\ q.of["valves"] = edits /\ q.of["lines"] = req[r].of["lines"]
  <2> DEFINE nw == [req[r].net EXCEPT !.valves = db.valves]
             of == [req[r].of EXCEPT !["valves"] = edits]
  <2>1. nw \in Network
    BY <1>3 DEF Asked, Network, CacheInv, CacheTypes
  <2>2. of \in [Part -> Nat] /\ of["valves"] = edits /\ \A p \in Part \ {"valves"} : of[p] = req[r].of[p]
    BY <1>3 DEF Asked, Part, CacheInv, CacheTypes
  <2>3. q = [stage |-> "sources", now |-> req[r].now, low |-> req[r].low, net |-> nw, of |-> of]
    BY <1>1, <1>3 DEF Asked
  <2> HIDE DEF nw, of
  <2> QED BY <1>3, <2>1, <2>2, <2>3 DEF Asked, Part
<1>5. UNCHANGED <<clock, db, edits, till, cache, floor>>
  BY <1>2 DEF Step
<1>6. RequestOk(q)'
  BY <1>3, <1>4, <1>5 DEF RequestOk, Known, ForceAt, CacheInv, CacheTypes
<1>7. EntryOk'
  BY <1>5 DEF CacheInv, EntryOk, ForceAt
<1> QED BY <1>2, <1>6, <1>7, StepOk

LEMMA StoreKeeps == ASSUME OutageAssumption, CacheInv, NEW r \in Request, Store(r) PROVE CacheInv'
<1>1. PICK q : q = Loaded(req[r])
  OBVIOUS
<1>2. req[r].stage = "sources" /\ Step(r, q) /\ cache' = [at |-> q.now, net |-> q.net, of |-> q.of]
  BY <1>1 DEF Store
<1>3. /\ req[r] \in Asked /\ req[r].now <= clock /\ req[r].low <= edits /\ req[r].low = floor
      /\ \A p \in {"lines", "valves"} :
           /\ floor <= req[r].of[p] /\ req[r].of[p] <= edits /\ ForceAt(req[r].of[p], req[r].now)
  BY <1>2 DEF CacheInv, RequestOk, Idle, Part, Known
<1>4. /\ q \in Asked /\ q.stage = "ready" /\ q.now = req[r].now /\ q.low = floor
      /\ q.of["sources"] = edits /\ \A p \in {"lines", "valves"} : q.of[p] = req[r].of[p]
  <2> DEFINE nw == [req[r].net EXCEPT !.sources = db.sources]
             of == [req[r].of EXCEPT !["sources"] = edits]
  <2>1. nw \in Network
    BY <1>3 DEF Asked, Network, CacheInv, CacheTypes
  <2>2. of \in [Part -> Nat] /\ of["sources"] = edits /\ \A p \in Part \ {"sources"} : of[p] = req[r].of[p]
    BY <1>3 DEF Asked, Part, CacheInv, CacheTypes
  <2>3. q = [stage |-> "ready", now |-> req[r].now, low |-> req[r].low, net |-> nw, of |-> of]
    BY <1>1, <1>3 DEF Asked, Loaded
  <2> HIDE DEF nw, of
  <2> QED BY <1>3, <2>1, <2>2, <2>3 DEF Asked, Part
<1>5. UNCHANGED <<clock, db, edits, till, floor>>
  BY <1>2 DEF Step
<1>6. ASSUME NEW p \in Part
      PROVE  /\ q.of[p] \in Nat /\ floor <= q.of[p] /\ q.of[p] <= edits
             /\ q.of[p] = edits \/ (till[q.of[p]] \in Nat /\ till[q.of[p]] >= q.now)
  <2>1. CASE p = "sources"
    BY <1>4, <2>1 DEF CacheInv, CacheTypes
  <2>2. CASE p \in {"lines", "valves"}
    <3>1. q.of[p] \in Nat /\ floor <= q.of[p] /\ q.of[p] <= edits /\ (q.of[p] = edits \/ till[q.of[p]] >= q.now)
      BY <1>3, <1>4, <2>2 DEF Asked, ForceAt
    <3> QED BY <3>1 DEF CacheInv, CacheTypes
  <2> QED BY <2>1, <2>2 DEF Part
<1>7. q.now \in Nat /\ q.now <= clock /\ q.net \in Network /\ q.of \in [Part -> Nat] /\ "ready" \notin Part
  BY <1>3, <1>4 DEF Asked, Part
<1>8. RequestOk(q)'
  BY <1>4, <1>5, <1>6, <1>7 DEF RequestOk, Known, CacheInv, CacheTypes, OutageAssumption
<1>9. EntryOk'
  BY <1>2, <1>5, <1>6, <1>7 DEF EntryOk, Entry, ForceAt
<1> QED BY <1>2, <1>8, <1>9, StepOk

LEMMA BeginKeeps == ASSUME CacheInv, NEW r \in Request, Begin(r) PROVE CacheInv'
<1>1. Step(r, Idle) /\ cache' = cache
  BY DEF Begin
<1>2. UNCHANGED <<clock, db, edits, till, cache, floor>>
  BY <1>1 DEF Step
<1>3. EntryOk' /\ RequestOk(Idle)'
  BY <1>2 DEF CacheInv, EntryOk, ForceAt, RequestOk
<1> QED BY <1>1, <1>3, StepOk

\* The network that a search begins with is one.
LEMMA BeginZone ==
  ASSUME ZoneAssumption, ZoneInv, CacheInv, NEW r \in Request, Begin(r)
  PROVE  ZoneInv'
<1>1. req[r].net \in Network
  BY DEF Begin, CacheInv, RequestOk, Idle, Asked
<1>2. CASE \E l \in Line : BeginLine(req[r].net, l)
  BY <1>1, <1>2, BeginLineKeeps
<1>3. CASE \E n \in Node : BeginNode(req[r].net, n)
  BY <1>1, <1>3, BeginNodeKeeps
<1>4. CASE UNCHANGED zoneVars
  BY <1>4, ZoneUnchanged
<1> QED BY <1>2, <1>3, <1>4 DEF Begin

-----------------------------------------------------------------------------
(* What follows.                                                           *)

IInv == ZoneInv /\ CacheInv

Assumptions == ZoneAssumption /\ OutageAssumption

LEMMA InvariantInit == ASSUME Assumptions, Init PROVE IInv
<1>1. ZoneInv
  BY NoNetworkType DEF Init, ZoneInit, ZoneInv, ZoneTypes, Phases, Flows, Fresh
<1>2. CacheTypes /\ EntryOk
  BY DEF Assumptions, OutageAssumption, Init, CacheTypes, EntryOk
<1>3. \A r \in Request : RequestOk(req[r])
  BY DEF Init, RequestOk
<1> QED BY <1>1, <1>2, <1>3 DEF IInv, CacheInv

LEMMA CacheUnchanged == ASSUME CacheInv, UNCHANGED cacheVars PROVE CacheInv'
<1>1. UNCHANGED <<clock, db, edits, till, cache, toDrop, floor, req>>
  BY DEF cacheVars
<1>2. CacheTypes' /\ EntryOk'
  BY <1>1 DEF CacheInv, CacheTypes, EntryOk, ForceAt
<1>3. \A r \in Request : RequestOk(req[r])'
  BY <1>1 DEF CacheInv, RequestOk, ForceAt, Known
<1> QED BY <1>2, <1>3 DEF CacheInv

LEMMA InvariantStep == ASSUME Assumptions, IInv, [Next]_vars PROVE IInv'
<1> USE DEF IInv, Assumptions
<1>1. CASE Tick
  BY <1>1, TickKeeps, ZoneUnchanged DEF Tick, zoneVars
<1>2. CASE \E L \in EditedLines, V \in EditedValves, own \in BOOLEAN :
             Commit([db EXCEPT !.lines = L, !.valves = V], own)
  <2>1. PICK L \in EditedLines, V \in EditedValves, own \in BOOLEAN :
               Commit([db EXCEPT !.lines = L, !.valves = V], own)
    BY <1>2
  <2>2. PICK nw : nw = [db EXCEPT !.lines = L, !.valves = V]
    OBVIOUS
  <2>3. nw \in Network
    BY <2>2, EditedType DEF CacheInv, CacheTypes
  <2>4. Commit(nw, own)
    BY <2>1, <2>2
  <2>5. ZoneInv'
    BY <2>4, ZoneUnchanged DEF Commit, zoneVars
  <2> QED BY <2>3, <2>4, <2>5, CommitKeeps
<1>3. CASE Drop
  BY <1>3, DropKeeps, ZoneUnchanged DEF Drop, zoneVars
<1>4. ASSUME NEW r \in Request, Receive(r) PROVE IInv'
  BY <1>4, ReceiveKeeps, ZoneUnchanged DEF Receive, zoneVars
<1>5. ASSUME NEW r \in Request, ReadLines(r) PROVE IInv'
  BY <1>5, ReadLinesKeeps, ZoneUnchanged DEF ReadLines, zoneVars
<1>6. ASSUME NEW r \in Request, ReadValves(r) PROVE IInv'
  BY <1>6, ReadValvesKeeps, ZoneUnchanged DEF ReadValves, zoneVars
<1>7. ASSUME NEW r \in Request, Store(r) PROVE IInv'
  BY <1>7, StoreKeeps, ZoneUnchanged DEF Store, zoneVars
<1>8. ASSUME NEW r \in Request, Begin(r) PROVE IInv'
  BY <1>8, BeginKeeps, BeginZone
<1>9. CASE (Search \/ Answer) /\ UNCHANGED cacheVars
  BY <1>9, SearchKeeps, CacheUnchanged
<1>10. CASE UNCHANGED vars
  BY <1>10, ZoneUnchanged, CacheUnchanged DEF vars
<1> QED BY <1>1, <1>2, <1>3, <1>4, <1>5, <1>6, <1>7, <1>8, <1>9, <1>10 DEF Next, Meanwhile

\* At its end the zone is closed under what carries it on.
LEMMA ZoneMeans == ASSUME ZoneInv PROVE ZoneExact
<1> SUFFICES ASSUME phase = "done"
             PROVE  isolatedNodes = Connected(Start, Plain, Chambers(net))
  BY DEF ZoneExact, Start, Plain, Chambers
<1>1. Zone /\ Pending = {} /\ isolatedNodes \subseteq Node
  BY DEF ZoneInv, ZoneTypes, Pending
<1>2. isolatedNodes \subseteq Connected(Start, Plain, Chambers(net))
  BY <1>1 DEF Zone, Connected
<1>3. Spreads(isolatedNodes, Start, Plain, Chambers(net))
  <2>1. ASSUME NEW l \in Plain, Ends[l] \cap isolatedNodes # {}
        PROVE  Ends[l] \subseteq isolatedNodes \cup Chambers(net)
    <3>1. l \in net.lines /\ l \notin Valved(net)
      BY DEF Plain, Valved
    <3>2. l \in processed
      BY <1>1, <2>1, <3>1 DEF Zone
    <3>3. Ends[l] \subseteq isolatedNodes \cup boundary
      BY <1>1, <3>1, <3>2 DEF Zone
    <3> QED BY <1>1, <3>3 DEF Zone
  <2> QED BY <1>1, <2>1 DEF Spreads, Zone
<1>4. Connected(Start, Plain, Chambers(net)) \subseteq isolatedNodes
  BY <1>1, <1>3 DEF Connected
<1> QED BY <1>2, <1>4

\* The nodes outside the zone and the valves named are closed under what conducts.
LEMMA DryMeans == ASSUME ZoneAssumption, ZoneInv PROVE ZoneDry
<1> DEFINE open == {l \in net.lines : "closed" \notin net.valves[l] /\ ~(l \in taken /\ "open" \in net.valves[l])}
           shut == {n \in taken \cap Node : net.valves[n] # {}}
           start == (net.sources \ isolatedNodes) \ shut
           S == Node \ (isolatedNodes \cup shut)
<1> SUFFICES ASSUME phase = "done" PROVE Connected(start, open, shut) \cap isolatedNodes = {}
  BY DEF ZoneDry
<1>1. Zone /\ Pending = {} /\ net \in Network
  BY DEF ZoneInv, ZoneTypes, Pending
<1>2. net.sources \subseteq Node /\ net.lines \subseteq Line
  BY <1>1, NetworkParts
<1>3. boundary \subseteq shut
  BY <1>1 DEF Zone, Chambers
<1>4. ASSUME NEW l \in open, Ends[l] \cap S # {}
      PROVE  Ends[l] \subseteq S \cup shut
  <2>1. Ends[l] \subseteq Node
    BY <1>2, EndsAreNodes
  <2>2. Ends[l] \cap isolatedNodes = {}
    <3>1. SUFFICES ASSUME Ends[l] \cap isolatedNodes # {} PROVE FALSE
      OBVIOUS
    <3>2. l \in processed
      BY <1>1, <3>1 DEF Zone
    <3>3. CASE l \in Valved(net)
      <4>1. l \in taken
        BY <1>1, <3>2, <3>3 DEF Zone
      <4>2. net.valves[l] # {} /\ net.valves[l] \subseteq {"open", "closed"}
        BY <1>1, <1>2, <3>3, NetworkParts DEF Valved
      <4> QED BY <4>1, <4>2
    <3>4. CASE l \notin Valved(net)
      <4>1. Ends[l] \subseteq isolatedNodes \cup boundary
        BY <1>1, <3>2, <3>4 DEF Zone
      <4> QED BY <4>1, <1>3, <1>4
    <3> QED BY <3>3, <3>4
  <2> QED BY <2>1, <2>2
<1>5. Spreads(S, start, open, shut)
  BY <1>2, <1>4 DEF Spreads
<1> HIDE DEF open, shut, start
<1>6. Connected(start, open, shut) \subseteq S
  BY <1>5 DEF Connected
<1> QED BY <1>6

\* Of the lines that the search leaves out, only the damaged one could lead a
\* search from outside any further: the others touch the zone.
LEMMA LostMeans == ASSUME ZoneAssumption, ZoneInv PROVE LostExact
<1> DEFINE open == {l \in net.lines : "closed" \notin net.valves[l]}
           outside == Sources(net) \ isolatedNodes
           more == open \ {damaged}
           fewer == net.lines \ Blocked
<1> SUFFICES ASSUME phase = "done"
             PROVE  lost = (Connected(Sources(net), open, {}) \ Connected(outside, more, isolatedNodes)) \ isolatedNodes
  BY DEF LostExact
<1>1. Touching /\ net \in Network /\ damaged \in Line \cup Node \cup {None}
      /\ lost = (Supplied \ StillSupplied) \ isolatedNodes
  BY DEF ZoneInv, ZoneTypes, Flows
<1>2. net.lines \subseteq Line
  BY <1>1, NetworkParts
<1>3. Normal = open
  BY <1>2 DEF Normal, Closed
<1>4. fewer \subseteq more
  BY <1>1, <1>2 DEF Touching, Blocked, Closed, ZoneAssumption
<1>5. \A l \in more \ fewer : Ends[l] \cap isolatedNodes # {}
  BY <1>1, <1>2 DEF Touching, Blocked, Closed
<1>6. \A l \in more : \E a, b \in Node : Ends[l] = {a, b}
  BY <1>2 DEF ZoneAssumption
<1>7. outside \cap isolatedNodes = {}
  OBVIOUS
<1> HIDE DEF open, outside, more, fewer
<1>8. Connected(outside, fewer, isolatedNodes) \subseteq Connected(outside, more, isolatedNodes)
  BY <1>4 DEF Connected, Spreads
<1>9. Connected(outside, more, isolatedNodes) \subseteq Connected(outside, fewer, isolatedNodes)
  <2>1. ASSUME NEW S \in SUBSET Node, Spreads(S, outside, fewer, isolatedNodes)
        PROVE  Spreads(S \ isolatedNodes, outside, more, isolatedNodes)
    <3>1. ASSUME NEW l \in more, Ends[l] \cap (S \ isolatedNodes) # {}
          PROVE  Ends[l] \subseteq (S \ isolatedNodes) \cup isolatedNodes
      <4>1. CASE l \in fewer
        BY <2>1, <3>1, <4>1 DEF Spreads
      <4>2. CASE l \notin fewer
        <5>1. Ends[l] \cap isolatedNodes # {}
          BY <1>5, <4>2
        <5>2. PICK a, b \in Node : Ends[l] = {a, b}
          BY <1>6
        <5> QED BY <3>1, <5>1, <5>2
      <4> QED BY <4>1, <4>2
    <3> QED BY <1>7, <2>1, <3>1 DEF Spreads
  <2>2. ASSUME NEW m \in Connected(outside, more, isolatedNodes),
               NEW S \in SUBSET Node, Spreads(S, outside, fewer, isolatedNodes)
        PROVE  m \in S
    <3>1. Spreads(S \ isolatedNodes, outside, more, isolatedNodes) /\ S \ isolatedNodes \in SUBSET Node
      BY <2>1, <2>2
    <3> QED BY <3>1 DEF Connected
  <2> QED BY <2>2 DEF Connected
<1>10. Supplied = Connected(Sources(net), open, {})
  BY <1>3 DEF Supplied
<1>11. StillSupplied = Connected(outside, fewer, isolatedNodes)
  BY DEF StillSupplied, outside, fewer
<1> QED BY <1>1, <1>8, <1>9, <1>10, <1>11

LEMMA CacheMeans == ASSUME CacheInv PROVE NetworkFresh /\ DropReaches
<1>1. SUFFICES ASSUME NEW r \in Request, req[r].stage = "ready", NEW p \in Part
               PROVE  /\ req[r].of[p] = edits \/ till[req[r].of[p]] + TTL > req[r].now
                      /\ req[r].of[p] >= req[r].low
  BY DEF NetworkFresh, DropReaches
<1>2. req[r] # Idle /\ Known(req[r]) = Part
  BY <1>1 DEF Idle, Known
<1>3. /\ req[r] \in Asked /\ req[r].low <= req[r].of[p]
      /\ req[r].of[p] = edits \/ till[req[r].of[p]] + TTL > req[r].now
  BY <1>1, <1>2 DEF CacheInv, RequestOk
<1> QED BY <1>3 DEF Asked

\* For every network, wherever its valves are: the simulation isolates exactly
\* what the damage reaches without passing a valve (simulate_outage's loop).
THEOREM ZonesAreExact == ASSUME Assumptions PROVE Spec => []ZoneExact
<1>1. Init => IInv
  BY InvariantInit
<1>2. IInv /\ [Next]_vars => IInv'
  BY InvariantStep
<1>3. IInv => ZoneExact
  BY ZoneMeans DEF IInv
<1> QED BY <1>1, <1>2, <1>3, PTL DEF Spec

\* For every network: the valves that the answer names keep the water out of the
\* zone, from every source that is not in it.
THEOREM ZonesAreDry == ASSUME Assumptions PROVE Spec => []ZoneDry
<1>1. Init => IInv
  BY InvariantInit
<1>2. IInv /\ [Next]_vars => IInv'
  BY InvariantStep
<1>3. IInv => ZoneDry
  BY DryMeans DEF IInv, Assumptions
<1> QED BY <1>1, <1>2, <1>3, PTL DEF Spec

\* For every network: the nodes said to be lost are those that the rest of the
\* network cannot supply, although downstream_without_supply blocks more lines.
THEOREM LostAreExact == ASSUME Assumptions PROVE Spec => []LostExact
<1>1. Init => IInv
  BY InvariantInit
<1>2. IInv /\ [Next]_vars => IInv'
  BY InvariantStep
<1>3. IInv => LostExact
  BY LostMeans DEF IInv, Assumptions
<1> QED BY <1>1, <1>2, <1>3, PTL DEF Spec

\* For any number of requests and edits and every TTL: each part of the network
\* a search is based on was in force less than TTL before the request.
THEOREM NetworksAreFresh == ASSUME Assumptions PROVE Spec => []NetworkFresh
<1>1. Init => IInv
  BY InvariantInit
<1>2. IInv /\ [Next]_vars => IInv'
  BY InvariantStep
<1>3. IInv => NetworkFresh
  BY CacheMeans DEF IInv
<1> QED BY <1>1, <1>2, <1>3, PTL DEF Spec

\* For any number of requests: once an edit has dropped the network with no load
\* under way, no later request sees an older one.
THEOREM DropsReach == ASSUME Assumptions PROVE Spec => []DropReaches
<1>1. Init => IInv
  BY InvariantInit
<1>2. IInv /\ [Next]_vars => IInv'
  BY InvariantStep
<1>3. IInv => DropReaches
  BY CacheMeans DEF IInv
<1> QED BY <1>1, <1>2, <1>3, PTL DEF Spec
=============================================================================
