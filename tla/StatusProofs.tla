---------------------------- MODULE StatusProofs ----------------------------
(***************************************************************************)
(* What the live check of accounts promises, for any accounts, processes    *)
(* and numbers of requests: the age of a status, the reach of a drop and    *)
(* the last administrator.                                                  *)
(***************************************************************************)
EXTENDS LiveStatus, TLAPS

-----------------------------------------------------------------------------
(* Types. *)

\* What each stage of a request says of its record.
LEMMA StageTypes ==
  ASSUME TypeOK, NEW r \in Request
  PROVE  /\ At(r, {"load", "store", "admitted", "refused"}) => req[r] \in Check
         /\ At(r, {"count", "write", "drop"}) => req[r] \in Change
BY DEF TypeOK, At, Check, Change, Idle

LEMMA FirstRowType == \A a \in Account : FirstRow(a) \in Row
BY DEF FirstRow, Row, Role

\* A row that is written has the table's shape.
LEMMA WrittenType ==
  ASSUME NEW op \in Ops, NEW old \in Row, NEW current \in Row
  PROVE  Written(op, old, current) \in Row /\ Written(op, old, current).no = current.no + 1
<1> DEFINE live == op # "delete"
           role == IF NewRole(op, old) # old.role THEN NewRole(op, old) ELSE current.role
           active == IF NewActive(op, old) # old.active THEN NewActive(op, old) ELSE current.active
<1>1. NewRole(op, old) \in Role
  BY DEF NewRole, Row, Role
<1>2. NewActive(op, old) \in BOOLEAN
  BY DEF NewActive, Row
<1>3. current.role \in Role /\ current.active \in BOOLEAN /\ current.no + 1 \in Nat
  BY DEF Row
<1>4. role \in Role /\ active \in BOOLEAN /\ live \in BOOLEAN
  BY <1>1, <1>2, <1>3, Zenon
<1>5. Written(op, old, current) = [no |-> current.no + 1, live |-> live, role |-> role, active |-> active]
  BY Zenon DEF Written
<1> HIDE DEF live, role, active
<1> QED BY <1>3, <1>4, <1>5 DEF Row

\* A request that goes on with a status is a request of the check still.
LEMMA DecidedType ==
  ASSUME NEW q \in Check, NEW s \in {"load", "store", "admitted", "refused"}, NEW st \in Row
  PROVE  /\ [q EXCEPT !.stage = s, !.status = st, !.known = TRUE] \in Check
         /\ [q EXCEPT !.stage = s] \in Check
BY DEF Check

\* A request that has just arrived.
LEMMA ArrivedType ==
  ASSUME NEW p \in Process, NEW a \in Account, NEW op \in Ops, NEW b \in Account,
         NEW low \in Nat, NEW st \in Row, clock \in Nat
  PROVE  [stage |-> "load", proc |-> p, who |-> a, op |-> op, target |-> b, now |-> clock,
          low |-> low, status |-> st, known |-> FALSE] \in Check
BY DEF Check

LEMMA DecisionType == \A row1 \in Row : Decision(row1) \in {"admitted", "refused"}
BY DEF Decision

\* A step keeps the types of all variables.
LEMMA TypeInductive ==
  ASSUME StatusAssumption, TypeOK, [Next]_vars
  PROVE  TypeOK'
<1> USE DEF TypeOK, Step
<1>1. CASE Tick
  BY <1>1 DEF Tick, StatusAssumption
<1>2. ASSUME NEW r \in Request, NEW p \in Process, NEW a \in Account, NEW b \in Account,
             NEW op \in Ops, Receive(r, p, a, op, b)
      PROVE  TypeOK'
  <2>1. /\ clock \in Nat /\ floor[p][a] \in Nat /\ FirstRow(a) \in Row
    BY FirstRowType, StatusAssumption DEF StatusAssumption
  <2>2. cache[p][a] = NoEntry \/ (cache[p][a] \in Entry /\ Decision(cache[p][a].row) \in {"admitted", "refused"})
    BY DecisionType DEF Entry
  <2>3. received' \in 0 .. MaxRequests
    BY <1>2, StatusAssumption DEF Receive, StatusAssumption
  <2> DEFINE q == [stage |-> "load", proc |-> p, who |-> a, op |-> op, target |-> b, now |-> clock,
                   low |-> floor[p][a], status |-> FirstRow(a), known |-> FALSE]
             h == [q EXCEPT !.stage = Decision(cache[p][a].row), !.status = cache[p][a].row, !.known = TRUE]
  <2>6. q \in Check
    BY <2>1, ArrivedType
  <2>7. req' = [req EXCEPT ![r] = q] \/ (Hit(cache[p][a]) /\ req' = [req EXCEPT ![r] = h])
    BY <1>2, Zenon DEF Receive
  <2>8. Hit(cache[p][a]) => h \in Check
    <3>1. Hit(cache[p][a]) => /\ cache[p][a].row \in Row
                              /\ Decision(cache[p][a].row) \in {"admitted", "refused"}
      BY <2>2 DEF Hit, Entry
    <3> HIDE DEF q
    <3> QED BY <3>1, <2>6, DecidedType
  <2> HIDE DEF q, h
  <2>4. req' \in [Request -> Check \cup Change \cup {Idle}]
    BY <2>6, <2>7, <2>8
  <2>5. UNCHANGED <<clock, row, till, cache, floor, overlap>>
    BY <1>2 DEF Receive
  <2> QED BY <2>3, <2>4, <2>5
<1>3. ASSUME NEW r \in Request, Load(r) PROVE TypeOK'
  <2>1. req[r] \in Check /\ row[req[r].who] \in Row
    BY <1>3, StageTypes DEF Load, At, Check
  <2>2. [req[r] EXCEPT !.stage = "store", !.status = row[req[r].who], !.known = TRUE] \in Check
    BY <2>1, DecidedType
  <2> QED BY <1>3, <2>2 DEF Load
<1>4. ASSUME NEW r \in Request, LoadFails(r) PROVE TypeOK'
  <2>1. req[r] \in Check
    BY <1>4, StageTypes DEF LoadFails, At
  <2>2. [req[r] EXCEPT !.stage = "admitted"] \in Check
    BY <2>1, DecidedType DEF Check
  <2> QED BY <1>4, <2>2 DEF LoadFails
<1>5. ASSUME NEW r \in Request, Store(r) PROVE TypeOK'
  <2>1. req[r] \in Check /\ Decision(req[r].status) \in {"admitted", "refused"}
    <3>1. req[r] \in Check
      BY <1>5, StageTypes DEF Store, At
    <3> QED BY <3>1, DecisionType DEF Check
  <2>2. [at |-> req[r].now, row |-> req[r].status] \in Entry
    BY <2>1 DEF Check, Entry
  <2>3. [req[r] EXCEPT !.stage = Decision(req[r].status)] \in Check
    BY <2>1, DecidedType DEF Check
  <2> QED BY <1>5, <2>1, <2>2, <2>3 DEF Store, Check
<1>6. ASSUME NEW r \in Request, Finish(r) PROVE TypeOK'
  BY <1>6 DEF Finish
<1>7. ASSUME NEW r \in Request, ReadRow(r) PROVE TypeOK'
  <2>1. req[r] \in Check
    BY <1>7, StageTypes DEF ReadRow, At
  <2>2. \A s \in {"count", "write"} :
          [stage |-> s, proc |-> req[r].proc, op |-> req[r].op, target |-> req[r].target,
           old |-> row[req[r].target]] \in Change
    BY <2>1 DEF Check, Change
  <2>3. req' \in [Request -> Check \cup Change \cup {Idle}]
    BY <1>7, <2>2 DEF ReadRow
  <2> QED BY <1>7, <2>3 DEF ReadRow
<1>8. ASSUME NEW r \in Request, CountAdmins(r) PROVE TypeOK'
  <2>1. req[r] \in Change
    BY <1>8, StageTypes DEF CountAdmins, At
  <2>2. [req[r] EXCEPT !.stage = "write"] \in Change
    BY <2>1 DEF Change
  <2> QED BY <1>8, <2>2 DEF CountAdmins
<1>9. ASSUME NEW r \in Request, Write(r) PROVE TypeOK'
  <2>1. req[r] \in Change /\ req[r].target \in Account /\ req[r].op \in Ops /\ req[r].old \in Row
    BY <1>9, StageTypes DEF Write, At, Change
  <2>2. Written(req[r].op, req[r].old, row[req[r].target]) \in Row
    BY <2>1, WrittenType
  <2>3. [req[r] EXCEPT !.stage = "drop"] \in Change
    BY <2>1 DEF Change
  <2>4. clock \in Nat /\ till[req[r].target] \in [0 .. MaxEdits -> Nat]
    BY <2>1, StatusAssumption DEF StatusAssumption
  <2>5. row' \in [Account -> Row]
    <3>1. \/ row' = row
          \/ row' = [row EXCEPT ![req[r].target] = Written(req[r].op, req[r].old, row[req[r].target])]
      BY <1>9, Zenon DEF Write
    <3> QED BY <2>1, <2>2, <3>1
  <2>6. till' \in [Account -> [0 .. MaxEdits -> Nat]]
    <3>1. \/ till' = till
          \/ till' = [till EXCEPT ![req[r].target][row[req[r].target].no] = clock]
      BY <1>9, Zenon DEF Write
    <3> DEFINE a == req[r].target
               m == [till[a] EXCEPT ![row[a].no] = clock]
    <3>2. till' = till \/ till' = [till EXCEPT ![a] = m]
      BY <3>1
    <3>3. m \in [0 .. MaxEdits -> Nat]
      BY <2>4
    <3>4. a \in Account
      BY <2>1
    <3> HIDE DEF a, m
    <3> QED BY <3>2, <3>3, <3>4
  <2>7. req' \in [Request -> Check \cup Change \cup {Idle}]
    <3>1. req' = [req EXCEPT ![r] = Idle] \/ req' = [req EXCEPT ![r] = [req[r] EXCEPT !.stage = "drop"]]
      BY <1>9, Zenon DEF Write
    <3> QED BY <2>3, <3>1
  <2> QED BY <1>9, <2>5, <2>6, <2>7 DEF Write
<1>10. ASSUME NEW r \in Request, Drop(r) PROVE TypeOK'
  <2>1. req[r] \in Change /\ req[r].target \in Account /\ req[r].proc \in Process
    BY <1>10, StageTypes DEF Drop, At, Change
  <2>2. row[req[r].target].no \in Nat
    BY <2>1 DEF Row
  <2> QED BY <1>10, <2>1, <2>2 DEF Drop
<1>11. CASE UNCHANGED vars
  BY <1>11 DEF vars
<1> QED BY <1>1, <1>2, <1>3, <1>4, <1>5, <1>6, <1>7, <1>8, <1>9, <1>10, <1>11 DEF Next

\* Types hold at first.
LEMMA TypeInit == ASSUME StatusAssumption, Init PROVE TypeOK
<1>1. row \in [Account -> Row] /\ till \in [Account -> [0 .. MaxEdits -> Nat]]
  BY FirstRowType DEF Init
<1>2. 0 \in 0 .. MaxTime /\ 0 \in 0 .. MaxRequests
  BY DEF StatusAssumption
<1> QED BY <1>1, <1>2 DEF Init, TypeOK

\* Every row that is read, cached, decided on or written has the shape of the
\* table users, and every request is at one of the code's awaits.
THEOREM StatusTypes == ASSUME StatusAssumption PROVE Spec => []TypeOK
<1>1. Init => TypeOK
  BY TypeInit, StatusAssumption
<1>2. TypeOK /\ [Next]_vars => TypeOK'
  BY TypeInductive, StatusAssumption
<1> QED BY <1>1, <1>2, PTL DEF Spec

-----------------------------------------------------------------------------
(* The age of a status.                                                    *)

\* Row n of account a is the current one or was replaced at t or later.
Since(a, n, t) == n <= row[a].no /\ (n = row[a].no \/ till[a][n] >= t)

EntryAged(a, e) == e # NoEntry => e.at <= clock /\ Since(a, e.row.no, e.at)

RequestAged(q) ==
  /\ q.stage \in {"load", "store"} => q.now <= clock
  /\ q.stage = "load" => ~q.known
  /\ q.stage = "store" => Since(q.who, q.status.no, q.now)
  /\ q.stage \in {"admitted", "refused"} /\ q.known =>
       q.now <= clock /\ Since(q.who, q.status.no, q.now + 1 - TTL)

Ages ==
  /\ \A a \in Account : row[a].no <= MaxEdits
  /\ \A p \in Process, a \in Account : EntryAged(a, cache[p][a])
  /\ \A r \in Request : RequestAged(req[r])

\* The time and the rows of a step, whichever action it is.
LEMMA StepOfRows ==
  ASSUME StatusAssumption, TypeOK, [Next]_vars
  PROVE  /\ clock' >= clock
         /\ \/ UNCHANGED <<row, till>>
            \/ \E a \in Account : \E w \in Row :
                 /\ row[a].no < MaxEdits /\ w.no = row[a].no + 1
                 /\ row' = [row EXCEPT ![a] = w]
                 /\ till' = [till EXCEPT ![a][row[a].no] = clock]
<1>0. clock \in Nat
  BY DEF TypeOK, StatusAssumption
<1>1. CASE Tick
  BY <1>0, <1>1 DEF Tick
<1>2. CASE \E r \in Request, p \in Process, a, b \in Account, op \in Ops : Receive(r, p, a, op, b)
  BY <1>0, <1>2 DEF Receive, Step
<1>3. CASE \E r \in Request : Load(r) \/ LoadFails(r) \/ Store(r) \/ Finish(r)
  BY <1>0, <1>3 DEF Load, LoadFails, Store, Finish, Step
<1>4. CASE \E r \in Request : ReadRow(r) \/ CountAdmins(r) \/ Drop(r)
  BY <1>0, <1>4 DEF ReadRow, CountAdmins, Drop, Step
<1>5. ASSUME NEW r \in Request, Write(r)
      PROVE  /\ clock' = clock
             /\ \/ UNCHANGED <<row, till>>
                \/ \E a \in Account : \E w \in Row :
                     /\ row[a].no < MaxEdits /\ w.no = row[a].no + 1
                     /\ row' = [row EXCEPT ![a] = w]
                     /\ till' = [till EXCEPT ![a][row[a].no] = clock]
  <2> DEFINE a == req[r].target
             w == Written(req[r].op, req[r].old, row[a])
  <2>1. req[r].target \in Account /\ req[r].op \in Ops /\ req[r].old \in Row /\ row[a] \in Row
    BY <1>5, StageTypes DEF Write, At, Change, TypeOK
  <2>2. w \in Row /\ w.no = row[a].no + 1
    BY <2>1, WrittenType
  <2>3. clock' = clock
    BY <1>5 DEF Write, Step
  <2>4. \/ UNCHANGED <<row, till>>
        \/ /\ row[a].no < MaxEdits
           /\ row' = [row EXCEPT ![a] = w]
           /\ till' = [till EXCEPT ![a][row[a].no] = clock]
    BY <1>5, Zenon DEF Write
  <2> HIDE DEF w
  <2> QED BY <2>1, <2>2, <2>3, <2>4
<1>6. CASE UNCHANGED vars
  BY <1>0, <1>6 DEF vars
<1> QED BY <1>0, <1>1, <1>2, <1>3, <1>4, <1>5, <1>6 DEF Next

\* What is known of a row's end survives every step: a row that is replaced now
\* was in force at every time up to now.
LEMMA SinceKept ==
  ASSUME StatusAssumption, TypeOK, Ages, [Next]_vars,
         NEW a \in Account, NEW n \in Nat, NEW t \in Int, t <= clock, Since(a, n, t)
  PROVE  Since(a, n, t)'
<1>0. clock \in Nat /\ MaxEdits \in Nat /\ row[a].no \in Nat /\ till[a] \in [0 .. MaxEdits -> Nat]
      /\ row \in [Account -> Row] /\ till \in [Account -> [0 .. MaxEdits -> Nat]]
  BY DEF TypeOK, StatusAssumption, Row
<1>1. CASE UNCHANGED <<row, till>>
  BY <1>1 DEF Since
<1>2. ASSUME NEW b \in Account, NEW w \in Row,
             row[b].no < MaxEdits, w.no = row[b].no + 1,
             row' = [row EXCEPT ![b] = w],
             till' = [till EXCEPT ![b][row[b].no] = clock]
      PROVE  Since(a, n, t)'
  <2>1. CASE a # b
    BY <1>0, <1>2, <2>1 DEF Since
  <2>2. CASE a = b
    <3>1. row'[a].no = row[a].no + 1
      BY <1>0, <1>2, <2>2
    <3>2. till'[a] = [till[a] EXCEPT ![row[a].no] = clock]
      BY <1>0, <1>2, <2>2
    <3>3. row[a].no \in 0 .. MaxEdits
      BY <1>0, <1>2, <2>2
    <3>4. CASE n = row[a].no
      BY <1>0, <3>1, <3>2, <3>3, <3>4 DEF Since
    <3>5. CASE n # row[a].no
      BY <1>0, <3>1, <3>2, <3>3, <3>5 DEF Since
    <3> QED BY <3>4, <3>5
  <2> QED BY <2>1, <2>2
<1> QED BY <1>1, <1>2, StepOfRows

\* An entry, and a request that does not move, stay as old as they are.
LEMMA AgesKept ==
  ASSUME StatusAssumption, TypeOK, Ages, [Next]_vars
  PROVE  /\ \A a \in Account, e \in Entry \cup {NoEntry} : EntryAged(a, e) => EntryAged(a, e)'
         /\ \A q \in Check : RequestAged(q) => RequestAged(q)'
         /\ \A q \in Change \cup {Idle} : RequestAged(q)'
<1>0. clock \in Nat /\ clock' \in Nat /\ clock' >= clock /\ TTL \in Nat \ {0}
  BY TypeInductive, StepOfRows DEF TypeOK, StatusAssumption
<1>1. ASSUME NEW a \in Account, NEW e \in Entry \cup {NoEntry}, EntryAged(a, e)
      PROVE  EntryAged(a, e)'
  <2>1. CASE e = NoEntry
    BY <2>1 DEF EntryAged
  <2>2. CASE e # NoEntry
    <3>1. e.at \in Int /\ e.row.no \in Nat /\ e.at <= clock /\ Since(a, e.row.no, e.at)
      BY <1>1, <2>2 DEF Entry, Row, EntryAged
    <3>2. Since(a, e.row.no, e.at)'
      BY <3>1, SinceKept
    <3> QED BY <1>0, <3>1, <3>2 DEF EntryAged
  <2> QED BY <2>1, <2>2
<1>2. ASSUME NEW q \in Check, RequestAged(q)
      PROVE  RequestAged(q)'
  <2>0. q.now \in Nat /\ q.now + 1 - TTL \in Int /\ q.status.no \in Nat /\ q.who \in Account
    BY <1>0 DEF Check, Row
  <2>1. q.stage = "store" => Since(q.who, q.status.no, q.now)'
    <3>1. q.stage = "store" => q.now <= clock /\ Since(q.who, q.status.no, q.now)
      BY <1>2 DEF RequestAged
    <3> QED BY <2>0, <3>1, SinceKept
  <2>2. q.stage \in {"admitted", "refused"} /\ q.known => Since(q.who, q.status.no, q.now + 1 - TTL)'
    <3>1. q.stage \in {"admitted", "refused"} /\ q.known =>
            q.now + 1 - TTL <= clock /\ Since(q.who, q.status.no, q.now + 1 - TTL)
      BY <1>0, <1>2, <2>0 DEF RequestAged
    <3> QED BY <2>0, <3>1, SinceKept
  <2> QED BY <1>0, <1>2, <2>0, <2>1, <2>2 DEF RequestAged
<1>3. ASSUME NEW q \in Change \cup {Idle}
      PROVE  RequestAged(q)'
  BY <1>3 DEF RequestAged, Change, Idle
<1> QED BY <1>1, <1>2, <1>3

\* A step keeps the ages when every record and entry it leaves was already
\* right where it began.
LEMMA AgesStep ==
  ASSUME StatusAssumption, TypeOK, Ages, [Next]_vars,
         \A s \in Request : \E q \in Check \cup Change \cup {Idle} : req'[s] = q /\ RequestAged(q),
         \A p \in Process, a \in Account :
           \E e \in Entry \cup {NoEntry} : cache'[p][a] = e /\ EntryAged(a, e)
  PROVE  Ages'
<1>1. \A a \in Account : row'[a].no <= MaxEdits
  <2>1. \A a \in Account : row[a].no \in Nat /\ row[a].no <= MaxEdits /\ MaxEdits \in Nat
    BY DEF TypeOK, Row, Ages, StatusAssumption
  <2>2. row \in [Account -> Row]
    BY DEF TypeOK
  <2> QED BY <2>1, <2>2, StepOfRows
<1>2. ASSUME NEW s \in Request PROVE RequestAged(req[s])'
  <2>1. PICK q \in Check \cup Change \cup {Idle} : req'[s] = q /\ RequestAged(q)
    OBVIOUS
  <2>2. RequestAged(q)'
    BY <2>1, AgesKept
  <2> QED BY <2>1, <2>2 DEF RequestAged
<1>3. ASSUME NEW p \in Process, NEW a \in Account PROVE EntryAged(a, cache[p][a])'
  <2>1. PICK e \in Entry \cup {NoEntry} : cache'[p][a] = e /\ EntryAged(a, e)
    OBVIOUS
  <2>2. EntryAged(a, e)'
    BY <2>1, AgesKept
  <2> QED BY <2>1, <2>2 DEF EntryAged
<1> QED BY <1>1, <1>2, <1>3 DEF Ages

\* Every step keeps the ages.
LEMMA AgesInductive ==
  ASSUME StatusAssumption, TypeOK, Ages, [Next]_vars
  PROVE  Ages'
<1>0. /\ clock \in Nat /\ TTL \in Nat \ {0}
      /\ req \in [Request -> Check \cup Change \cup {Idle}]
      /\ cache \in [Process -> [Account -> Entry \cup {NoEntry}]]
      /\ row \in [Account -> Row] /\ till \in [Account -> [0 .. MaxEdits -> Nat]]
  BY DEF TypeOK, StatusAssumption
<1>1. \A s \in Request : RequestAged(req[s])
  BY DEF Ages
<1>2. \A p \in Process, a \in Account : EntryAged(a, cache[p][a])
  BY DEF Ages
<1>3. UNCHANGED cache => \A p \in Process, a \in Account :
        \E e \in Entry \cup {NoEntry} : cache'[p][a] = e /\ EntryAged(a, e)
  BY <1>0, <1>2
<1>4. UNCHANGED req => \A s \in Request :
        \E q \in Check \cup Change \cup {Idle} : req'[s] = q /\ RequestAged(q)
  BY <1>0, <1>1
<1>5. ASSUME NEW r \in Request, NEW v \in Check \cup Change \cup {Idle},
             req' = [req EXCEPT ![r] = v], RequestAged(v)
      PROVE  \A s \in Request : \E q \in Check \cup Change \cup {Idle} : req'[s] = q /\ RequestAged(q)
  BY <1>0, <1>1, <1>5
<1>6. \A v \in Change \cup {Idle} : RequestAged(v)
  BY DEF RequestAged, Change, Idle
<1>7. CASE Tick \/ UNCHANGED vars
  BY <1>3, <1>4, <1>7, AgesStep DEF Tick, vars
<1>8. ASSUME NEW r \in Request, NEW p \in Process, NEW a \in Account, NEW b \in Account,
             NEW op \in Ops, Receive(r, p, a, op, b)
      PROVE  Ages'
  <2> DEFINE q == [stage |-> "load", proc |-> p, who |-> a, op |-> op, target |-> b, now |-> clock,
                   low |-> floor[p][a], status |-> FirstRow(a), known |-> FALSE]
             h == [q EXCEPT !.stage = Decision(cache[p][a].row), !.status = cache[p][a].row, !.known = TRUE]
  <2>1. q \in Check
    BY <1>0, ArrivedType, FirstRowType DEF TypeOK
  <2>2. req' = [req EXCEPT ![r] = q] \/ (Hit(cache[p][a]) /\ req' = [req EXCEPT ![r] = h])
    BY <1>8, Zenon DEF Receive, Step
  <2>3. RequestAged(q)
    BY <1>0 DEF RequestAged
  <2>4. CASE Hit(cache[p][a]) /\ req' = [req EXCEPT ![r] = h]
    <3>1. /\ cache[p][a].row \in Row /\ cache[p][a].at \in Nat /\ clock - cache[p][a].at < TTL
          /\ cache[p][a].at <= clock /\ Since(a, cache[p][a].row.no, cache[p][a].at)
          /\ cache[p][a].row.no \in Nat
      BY <1>0, <1>2, <2>4 DEF EntryAged, Hit, Entry, Row
    <3>2. h \in Check /\ Decision(cache[p][a].row) \in {"admitted", "refused"}
      BY <2>1, <3>1, DecidedType, DecisionType
    <3>3. /\ h.stage \in {"admitted", "refused"} /\ h.who = a /\ h.now = clock
          /\ h.status = cache[p][a].row
      BY <3>2
    <3>4. Since(a, cache[p][a].row.no, clock + 1 - TTL)
      <4>1. ASSUME till[a][cache[p][a].row.no] >= cache[p][a].at, cache[p][a].row.no <= row[a].no
            PROVE  till[a][cache[p][a].row.no] >= clock + 1 - TTL
        <5>1. cache[p][a].row.no \in 0 .. MaxEdits
          BY <1>0, <3>1, <4>1 DEF Ages, StatusAssumption, Row
        <5>2. till[a][cache[p][a].row.no] \in Nat
          BY <1>0, <5>1
        <5>3. cache[p][a].at >= clock + 1 - TTL
          BY <1>0, <3>1
        <5>4. clock + 1 - TTL \in Int
          BY <1>0
        <5> QED BY <3>1, <4>1, <5>2, <5>3, <5>4
      <4> QED BY <3>1, <4>1 DEF Since
    <3> HIDE DEF h
    <3>5. RequestAged(h)
      BY <1>0, <3>3, <3>4 DEF RequestAged
    <3>6. \A s \in Request : \E v \in Check \cup Change \cup {Idle} : req'[s] = v /\ RequestAged(v)
      BY <1>5, <2>4, <3>2, <3>5
    <3> QED BY <1>3, <1>8, <3>6, AgesStep DEF Receive
  <2>5. CASE req' = [req EXCEPT ![r] = q]
    <3> HIDE DEF q
    <3>1. \A s \in Request : \E v \in Check \cup Change \cup {Idle} : req'[s] = v /\ RequestAged(v)
      BY <1>5, <2>1, <2>3, <2>5
    <3> QED BY <1>3, <1>8, <3>1, AgesStep DEF Receive
  <2> QED BY <2>2, <2>4, <2>5
<1>9. ASSUME NEW r \in Request, Load(r) PROVE Ages'
  <2> DEFINE v == [req[r] EXCEPT !.stage = "store", !.status = row[req[r].who], !.known = TRUE]
  <2>1. req[r] \in Check /\ req[r].stage = "load" /\ row[req[r].who] \in Row
    BY <1>0, <1>9, StageTypes DEF Load, At, Check
  <2>2. v \in Check
    BY <2>1, DecidedType
  <2>3. /\ v.stage = "store" /\ v.now = req[r].now /\ v.status = row[req[r].who] /\ v.who = req[r].who
    BY <2>1 DEF Check
  <2>4. req' = [req EXCEPT ![r] = v] /\ UNCHANGED cache
    BY <1>9 DEF Load, Step
  <2> HIDE DEF v
  <2>5. RequestAged(v)
    BY <1>1, <2>1, <2>3 DEF RequestAged, Since, Row
  <2>6. \A s \in Request : \E u \in Check \cup Change \cup {Idle} : req'[s] = u /\ RequestAged(u)
    BY <1>5, <2>2, <2>4, <2>5
  <2> QED BY <1>3, <2>4, <2>6, AgesStep
<1>10. ASSUME NEW r \in Request, LoadFails(r) PROVE Ages'
  <2> DEFINE v == [req[r] EXCEPT !.stage = "admitted"]
  <2>1. req[r] \in Check /\ req[r].stage = "load"
    BY <1>0, <1>10, StageTypes DEF LoadFails, At
  <2>2. v \in Check
    BY <2>1, DecidedType DEF Check
  <2>3. v.stage = "admitted" /\ v.known = req[r].known
    BY <2>1 DEF Check
  <2>4. req' = [req EXCEPT ![r] = v] /\ UNCHANGED cache
    BY <1>10 DEF LoadFails, Step
  <2> HIDE DEF v
  <2>5. RequestAged(v)
    BY <1>1, <2>1, <2>3 DEF RequestAged
  <2>6. \A s \in Request : \E u \in Check \cup Change \cup {Idle} : req'[s] = u /\ RequestAged(u)
    BY <1>5, <2>2, <2>4, <2>5
  <2> QED BY <1>3, <2>4, <2>6, AgesStep
<1>11. ASSUME NEW r \in Request, Store(r) PROVE Ages'
  <2> DEFINE v == [req[r] EXCEPT !.stage = Decision(req[r].status)]
             e == [at |-> req[r].now, row |-> req[r].status]
  <2>1. /\ req[r] \in Check /\ req[r].stage = "store" /\ req[r].status \in Row
        /\ req[r].now \in Nat /\ req[r].who \in Account /\ req[r].proc \in Process
        /\ req[r].status.no \in Nat
    BY <1>0, <1>11, StageTypes DEF Store, At, Check, Row
  <2>2. v \in Check /\ v.stage \in {"admitted", "refused"} /\ v.now = req[r].now
        /\ v.status = req[r].status /\ v.who = req[r].who
    BY <2>1, DecidedType, DecisionType DEF Check
  <2>3. /\ req' = [req EXCEPT ![r] = v]
        /\ cache' = [cache EXCEPT ![req[r].proc][req[r].who] = e]
    BY <1>11 DEF Store, Step
  <2>4. req[r].now <= clock /\ Since(req[r].who, req[r].status.no, req[r].now)
    BY <1>1, <2>1 DEF RequestAged
  <2>5. e \in Entry /\ EntryAged(req[r].who, e)
    BY <2>1, <2>4 DEF Entry, EntryAged
  <2> HIDE DEF v, e
  <2>6. Since(v.who, v.status.no, v.now + 1 - TTL)
    <3>1. ASSUME till[req[r].who][req[r].status.no] >= req[r].now, req[r].status.no <= row[req[r].who].no
          PROVE  till[req[r].who][req[r].status.no] >= req[r].now + 1 - TTL
      <4>1. req[r].status.no \in 0 .. MaxEdits
        BY <1>0, <2>1, <3>1 DEF Ages, StatusAssumption, Row
      <4> QED BY <1>0, <2>1, <3>1, <4>1
    <3> QED BY <2>2, <2>4, <3>1 DEF Since
  <2>7. RequestAged(v)
    BY <2>2, <2>4, <2>6 DEF RequestAged
  <2>8. \A s \in Request : \E u \in Check \cup Change \cup {Idle} : req'[s] = u /\ RequestAged(u)
    BY <1>5, <2>2, <2>3, <2>7
  <2>9. \A p \in Process, a \in Account :
          \E f \in Entry \cup {NoEntry} : cache'[p][a] = f /\ EntryAged(a, f)
    BY <1>0, <1>2, <2>1, <2>3, <2>5
  <2> QED BY <2>8, <2>9, AgesStep
<1>12. ASSUME NEW r \in Request, NEW v \in Change \cup {Idle}, req' = [req EXCEPT ![r] = v], UNCHANGED cache
       PROVE  Ages'
  BY <1>3, <1>5, <1>6, <1>12, AgesStep
<1>13. ASSUME NEW r \in Request, Finish(r) PROVE Ages'
  BY <1>12, <1>13 DEF Finish, Step
<1>14. ASSUME NEW r \in Request, ReadRow(r) PROVE Ages'
  <2>1. req[r] \in Check
    BY <1>14, StageTypes DEF ReadRow, At
  <2>2. \A t \in {"count", "write"} :
          [stage |-> t, proc |-> req[r].proc, op |-> req[r].op, target |-> req[r].target,
           old |-> row[req[r].target]] \in Change
    BY <1>0, <2>1 DEF Check, Change
  <2>3. \E v \in Change \cup {Idle} : req' = [req EXCEPT ![r] = v]
    BY <1>14, <2>2 DEF ReadRow, Step
  <2>4. UNCHANGED cache
    BY <1>14 DEF ReadRow
  <2> QED BY <1>12, <2>3, <2>4
<1>15. ASSUME NEW r \in Request, CountAdmins(r) PROVE Ages'
  <2>1. [req[r] EXCEPT !.stage = "write"] \in Change
    BY <1>15, StageTypes DEF CountAdmins, At, Change
  <2>2. \E v \in Change \cup {Idle} : req' = [req EXCEPT ![r] = v]
    BY <1>15, <2>1 DEF CountAdmins, Step
  <2> QED BY <1>12, <1>15, <2>2 DEF CountAdmins
<1>16. ASSUME NEW r \in Request, Write(r) PROVE Ages'
  <2>1. [req[r] EXCEPT !.stage = "drop"] \in Change
    BY <1>16, StageTypes DEF Write, At, Change
  <2>2. req' = [req EXCEPT ![r] = Idle] \/ req' = [req EXCEPT ![r] = [req[r] EXCEPT !.stage = "drop"]]
    BY <1>16, Zenon DEF Write, Step
  <2>3. \E v \in Change \cup {Idle} : req' = [req EXCEPT ![r] = v]
    BY <2>1, <2>2
  <2>4. UNCHANGED cache
    BY <1>16 DEF Write
  <2> QED BY <1>12, <2>3, <2>4
<1>17. ASSUME NEW r \in Request, Drop(r) PROVE Ages'
  <2>1. req[r].target \in Account /\ req[r].proc \in Process
    BY <1>17, StageTypes DEF Drop, At, Change
  <2>2. \A s \in Request : \E q \in Check \cup Change \cup {Idle} : req'[s] = q /\ RequestAged(q)
    BY <1>5, <1>6, <1>17 DEF Drop, Step
  <2>3. EntryAged(req[r].target, NoEntry)
    BY DEF EntryAged
  <2>4. \A p \in Process, a \in Account :
          \E f \in Entry \cup {NoEntry} : cache'[p][a] = f /\ EntryAged(a, f)
    BY <1>0, <1>2, <1>17, <2>1, <2>3 DEF Drop
  <2> QED BY <2>2, <2>4, AgesStep
<1> QED BY <1>7, <1>8, <1>9, <1>10, <1>11, <1>13, <1>14, <1>15, <1>16, <1>17 DEF Next

\* The ages hold at first and say that the check is fresh.
LEMMA AgesInit == ASSUME StatusAssumption, Init PROVE Ages
BY DEF Init, Ages, EntryAged, RequestAged, Idle, FirstRow, StatusAssumption

LEMMA AgesFresh == ASSUME StatusAssumption, TypeOK, Ages PROVE StatusFresh
<1> SUFFICES ASSUME NEW r \in Request, Decided(r), req[r].status.no # row[req[r].who].no
             PROVE  till[req[r].who][req[r].status.no] + TTL > req[r].now
  BY DEF StatusFresh
<1>1. /\ req[r] \in Check /\ req[r].stage \in {"admitted", "refused"} /\ req[r].known
      /\ req[r].who \in Account /\ req[r].now \in Nat /\ req[r].status.no \in Nat
      /\ row[req[r].who].no \in Nat /\ row[req[r].who].no <= MaxEdits
  BY StageTypes DEF Decided, At, Check, Row, TypeOK, Ages
<1>2. Since(req[r].who, req[r].status.no, req[r].now + 1 - TTL)
  BY <1>1 DEF Ages, RequestAged
<1>3. req[r].status.no \in 0 .. MaxEdits
  BY <1>1, <1>2 DEF Since, StatusAssumption
<1>4. till[req[r].who][req[r].status.no] \in Nat
  BY <1>1, <1>3 DEF TypeOK
<1> QED BY <1>1, <1>2, <1>4 DEF Since, StatusAssumption

\* Whatever processes, accounts, requests and edits there are: no request is
\* decided on a row that had been replaced TTL or more before it came.
THEOREM StatusesFresh == ASSUME StatusAssumption PROVE Spec => []StatusFresh
<1>1. Init => TypeOK /\ Ages
  BY TypeInit, AgesInit, StatusAssumption
<1>2. TypeOK /\ Ages /\ [Next]_vars => (TypeOK /\ Ages)'
  BY TypeInductive, AgesInductive, StatusAssumption
<1>3. TypeOK /\ Ages => StatusFresh
  BY AgesFresh, StatusAssumption
<1> QED BY <1>1, <1>2, <1>3, PTL DEF Spec

-----------------------------------------------------------------------------
(* The reach of a drop.                                                    *)

RequestReaches(q) ==
  /\ q.stage \in {"load", "store"} => q.low = floor[q.proc][q.who]
  /\ q.stage = "load" => ~q.known
  /\ q.stage = "store" => q.status.no >= q.low
  /\ q.stage \in {"admitted", "refused"} /\ q.known => q.status.no >= q.low

\* No process keeps, loads or has decided on a row older than its last drop.
Reach ==
  /\ \A p \in Process, a \in Account : floor[p][a] <= row[a].no
  /\ \A p \in Process, a \in Account :
       cache[p][a] # NoEntry => cache[p][a].row.no >= floor[p][a]
  /\ \A r \in Request : RequestReaches(req[r])

\* Rows only get newer.
LEMMA RowsOnlyNewer ==
  ASSUME StatusAssumption, TypeOK, [Next]_vars
  PROVE  \A a \in Account : row[a].no \in Nat /\ row'[a].no \in Nat /\ row'[a].no >= row[a].no
<1>1. row \in [Account -> Row] /\ \A a \in Account : row[a].no \in Nat
  BY DEF TypeOK, Row
<1> QED BY <1>1, StepOfRows

\* A step that lets the floor alone and moves one request to a record that
\* reaches keeps the reach.
LEMMA ReachStep ==
  ASSUME StatusAssumption, TypeOK, Reach, [Next]_vars, UNCHANGED floor,
         \A s \in Request : \E q \in Check \cup Change \cup {Idle} : req'[s] = q /\ RequestReaches(q),
         \A p \in Process, a \in Account :
           cache'[p][a] # NoEntry => cache'[p][a].row.no >= floor[p][a]
  PROVE  Reach'
<1>1. \A p \in Process, a \in Account : floor'[p][a] <= row'[a].no
  <2>1. \A p \in Process, a \in Account : floor[p][a] \in Nat /\ floor[p][a] <= row[a].no
    BY DEF TypeOK, Reach
  <2> QED BY <2>1, RowsOnlyNewer
<1>2. ASSUME NEW s \in Request PROVE RequestReaches(req[s])'
  BY DEF RequestReaches
<1> QED BY <1>1, <1>2 DEF Reach

\* Every step keeps the reach.
LEMMA ReachInductive ==
  ASSUME StatusAssumption, TypeOK, Reach, [Next]_vars
  PROVE  Reach'
<1>0. /\ req \in [Request -> Check \cup Change \cup {Idle}]
      /\ cache \in [Process -> [Account -> Entry \cup {NoEntry}]]
      /\ floor \in [Process -> [Account -> Nat]]
      /\ row \in [Account -> Row] /\ \A a \in Account : row[a].no \in Nat
      /\ clock \in Nat
  BY DEF TypeOK, Row, StatusAssumption
<1>1. \A s \in Request : RequestReaches(req[s])
  BY DEF Reach
<1>2. \A p \in Process, a \in Account :
        /\ floor[p][a] <= row[a].no
        /\ cache[p][a] # NoEntry => cache[p][a].row.no >= floor[p][a]
  BY DEF Reach
<1>3. ASSUME NEW r \in Request, NEW v \in Check \cup Change \cup {Idle},
             req' = [req EXCEPT ![r] = v], RequestReaches(v)
      PROVE  \A s \in Request : \E q \in Check \cup Change \cup {Idle} : req'[s] = q /\ RequestReaches(q)
  BY <1>0, <1>1, <1>3
<1>4. \A v \in Change \cup {Idle} : RequestReaches(v)
  BY DEF RequestReaches, Change, Idle
<1>5. ASSUME NEW r \in Request, NEW v \in Check \cup Change \cup {Idle},
             req' = [req EXCEPT ![r] = v], RequestReaches(v), UNCHANGED <<cache, floor>>
      PROVE  Reach'
  <2>1. \A s \in Request : \E q \in Check \cup Change \cup {Idle} : req'[s] = q /\ RequestReaches(q)
    BY <1>3, <1>5
  <2> QED BY <1>2, <1>5, <2>1, ReachStep
<1>6. CASE Tick \/ UNCHANGED vars
  <2>1. \A s \in Request : \E q \in Check \cup Change \cup {Idle} : req'[s] = q /\ RequestReaches(q)
    BY <1>0, <1>1, <1>6 DEF Tick, vars
  <2> QED BY <1>2, <1>6, <2>1, ReachStep DEF Tick, vars
<1>7. ASSUME NEW r \in Request, NEW p \in Process, NEW a \in Account, NEW b \in Account,
             NEW op \in Ops, Receive(r, p, a, op, b)
      PROVE  Reach'
  <2> DEFINE q == [stage |-> "load", proc |-> p, who |-> a, op |-> op, target |-> b, now |-> clock,
                   low |-> floor[p][a], status |-> FirstRow(a), known |-> FALSE]
             h == [q EXCEPT !.stage = Decision(cache[p][a].row), !.status = cache[p][a].row, !.known = TRUE]
  <2>1. q \in Check
    BY <1>0, ArrivedType, FirstRowType
  <2>2. req' = [req EXCEPT ![r] = q] \/ (Hit(cache[p][a]) /\ req' = [req EXCEPT ![r] = h])
    BY <1>7, Zenon DEF Receive, Step
  <2>3. RequestReaches(q)
    BY DEF RequestReaches
  <2>4. Hit(cache[p][a]) => h \in Check /\ RequestReaches(h)
    <3>1. SUFFICES ASSUME Hit(cache[p][a]) PROVE h \in Check /\ RequestReaches(h)
      OBVIOUS
    <3>2. cache[p][a].row \in Row /\ cache[p][a].row.no >= floor[p][a]
      BY <1>0, <1>2, <3>1 DEF Hit, Entry
    <3>3. h \in Check /\ Decision(cache[p][a].row) \in {"admitted", "refused"}
      BY <2>1, <3>2, DecidedType, DecisionType
    <3>4. /\ h.stage \in {"admitted", "refused"} /\ h.status = cache[p][a].row /\ h.low = floor[p][a]
      BY <3>3
    <3> HIDE DEF h
    <3> QED BY <3>2, <3>3, <3>4 DEF RequestReaches
  <2>5. UNCHANGED <<cache, floor>>
    BY <1>7 DEF Receive
  <2> HIDE DEF q, h
  <2> QED BY <1>5, <2>1, <2>2, <2>3, <2>4, <2>5
<1>8. ASSUME NEW r \in Request, Load(r) PROVE Reach'
  <2> DEFINE v == [req[r] EXCEPT !.stage = "store", !.status = row[req[r].who], !.known = TRUE]
  <2>1. /\ req[r] \in Check /\ req[r].stage = "load" /\ row[req[r].who] \in Row
        /\ req[r].who \in Account /\ req[r].proc \in Process
    BY <1>0, <1>8, StageTypes DEF Load, At, Check
  <2>2. v \in Check
    BY <2>1, DecidedType
  <2>3. /\ v.stage = "store" /\ v.low = req[r].low /\ v.status = row[req[r].who]
        /\ v.who = req[r].who /\ v.proc = req[r].proc
    BY <2>1 DEF Check
  <2>4. req' = [req EXCEPT ![r] = v] /\ UNCHANGED <<cache, floor>>
    BY <1>8 DEF Load, Step
  <2>5. req[r].low = floor[req[r].proc][req[r].who] /\ req[r].low <= row[req[r].who].no
        /\ req[r].low \in Nat
    BY <1>0, <1>1, <1>2, <2>1 DEF RequestReaches
  <2> HIDE DEF v
  <2>6. RequestReaches(v)
    BY <1>0, <2>1, <2>3, <2>5 DEF RequestReaches
  <2> QED BY <1>5, <2>2, <2>4, <2>6
<1>9. ASSUME NEW r \in Request, LoadFails(r) PROVE Reach'
  <2> DEFINE v == [req[r] EXCEPT !.stage = "admitted"]
  <2>1. req[r] \in Check /\ req[r].stage = "load"
    BY <1>9, StageTypes DEF LoadFails, At
  <2>2. v \in Check
    BY <2>1, DecidedType DEF Check
  <2>3. v.stage = "admitted" /\ v.known = req[r].known
    BY <2>1 DEF Check
  <2>4. req' = [req EXCEPT ![r] = v] /\ UNCHANGED <<cache, floor>>
    BY <1>9 DEF LoadFails, Step
  <2> HIDE DEF v
  <2>5. RequestReaches(v)
    BY <1>1, <2>1, <2>3 DEF RequestReaches
  <2> QED BY <1>5, <2>2, <2>4, <2>5
<1>10. ASSUME NEW r \in Request, Store(r) PROVE Reach'
  <2> DEFINE v == [req[r] EXCEPT !.stage = Decision(req[r].status)]
             e == [at |-> req[r].now, row |-> req[r].status]
  <2>1. /\ req[r] \in Check /\ req[r].stage = "store" /\ req[r].status \in Row
        /\ req[r].who \in Account /\ req[r].proc \in Process
    BY <1>10, StageTypes DEF Store, At, Check
  <2>2. v \in Check /\ v.stage \in {"admitted", "refused"}
        /\ v.status = req[r].status /\ v.low = req[r].low
    BY <2>1, DecidedType, DecisionType DEF Check
  <2>3. /\ req' = [req EXCEPT ![r] = v] /\ UNCHANGED floor
        /\ cache' = [cache EXCEPT ![req[r].proc][req[r].who] = e]
    BY <1>10 DEF Store, Step
  <2>4. req[r].status.no >= req[r].low /\ req[r].low = floor[req[r].proc][req[r].who]
    BY <1>1, <2>1 DEF RequestReaches
  <2>5. e.row.no >= floor[req[r].proc][req[r].who]
    BY <2>4
  <2> HIDE DEF v, e
  <2>6. RequestReaches(v)
    BY <2>2, <2>4 DEF RequestReaches
  <2>7. \A s \in Request : \E u \in Check \cup Change \cup {Idle} : req'[s] = u /\ RequestReaches(u)
    BY <1>3, <2>2, <2>3, <2>6
  <2>8. \A p \in Process, a \in Account : cache'[p][a] # NoEntry => cache'[p][a].row.no >= floor[p][a]
    BY <1>0, <1>2, <2>1, <2>3, <2>5
  <2> QED BY <2>3, <2>7, <2>8, ReachStep
<1>11. ASSUME NEW r \in Request, NEW v \in Change \cup {Idle}, req' = [req EXCEPT ![r] = v],
              UNCHANGED <<cache, floor>>
       PROVE  Reach'
  BY <1>4, <1>5, <1>11
<1>12. ASSUME NEW r \in Request, Finish(r) PROVE Reach'
  BY <1>11, <1>12 DEF Finish, Step
<1>13. ASSUME NEW r \in Request, ReadRow(r) PROVE Reach'
  <2>1. req[r] \in Check
    BY <1>13, StageTypes DEF ReadRow, At
  <2>2. \A t \in {"count", "write"} :
          [stage |-> t, proc |-> req[r].proc, op |-> req[r].op, target |-> req[r].target,
           old |-> row[req[r].target]] \in Change
    BY <1>0, <2>1 DEF Check, Change
  <2>3. \E v \in Change \cup {Idle} : req' = [req EXCEPT ![r] = v]
    BY <1>13, <2>2 DEF ReadRow, Step
  <2>4. UNCHANGED <<cache, floor>>
    BY <1>13 DEF ReadRow
  <2> QED BY <1>11, <2>3, <2>4
<1>14. ASSUME NEW r \in Request, CountAdmins(r) PROVE Reach'
  <2>1. [req[r] EXCEPT !.stage = "write"] \in Change
    BY <1>14, StageTypes DEF CountAdmins, At, Change
  <2>2. \E v \in Change \cup {Idle} : req' = [req EXCEPT ![r] = v]
    BY <1>14, <2>1 DEF CountAdmins, Step
  <2> QED BY <1>11, <1>14, <2>2 DEF CountAdmins
<1>15. ASSUME NEW r \in Request, Write(r) PROVE Reach'
  <2>1. [req[r] EXCEPT !.stage = "drop"] \in Change
    BY <1>15, StageTypes DEF Write, At, Change
  <2>2. req' = [req EXCEPT ![r] = Idle] \/ req' = [req EXCEPT ![r] = [req[r] EXCEPT !.stage = "drop"]]
    BY <1>15, Zenon DEF Write, Step
  <2>3. \E v \in Change \cup {Idle} : req' = [req EXCEPT ![r] = v]
    BY <2>1, <2>2
  <2>4. UNCHANGED <<cache, floor>>
    BY <1>15 DEF Write
  <2> QED BY <1>11, <2>3, <2>4
<1>16. ASSUME NEW r \in Request, Drop(r) PROVE Reach'
  <2> DEFINE p == req[r].proc
             a == req[r].target
             low == IF Loading(p, a) = {} THEN row[a].no ELSE floor[p][a]
  <2>1. a \in Account /\ p \in Process
    BY <1>16, StageTypes DEF Drop, At, Change
  <2>2. /\ cache' = [cache EXCEPT ![p][a] = NoEntry]
        /\ floor' = [floor EXCEPT ![p][a] = low]
        /\ req' = [req EXCEPT ![r] = Idle]
        /\ UNCHANGED row
    BY <1>16 DEF Drop, Step
  <2>3. low <= row[a].no
    BY <1>0, <1>2, <2>1
  <2>4. \A s \in Request : s # r /\ req[s].stage \in {"load", "store"} /\ req[s].proc = p /\ req[s].who = a
          => low = floor[p][a]
    BY DEF Loading, At
  <2> HIDE DEF p, a, low
  <2>5. \A q \in Process, b \in Account : floor'[q][b] = IF q = p /\ b = a THEN low ELSE floor[q][b]
    BY <1>0, <2>1, <2>2
  <2>6. \A q \in Process, b \in Account : cache'[q][b] = IF q = p /\ b = a THEN NoEntry ELSE cache[q][b]
    BY <1>0, <2>1, <2>2
  <2>7. ASSUME NEW s \in Request PROVE RequestReaches(req[s])'
    <3>1. CASE s = r
      BY <1>0, <2>2, <3>1 DEF RequestReaches, Idle
    <3>2. CASE s # r
      <4>1. req'[s] = req[s] /\ RequestReaches(req[s])
        BY <1>0, <1>1, <2>2, <3>2
      <4>2. req[s].stage \in {"load", "store"} => req[s].proc \in Process /\ req[s].who \in Account
        BY StageTypes DEF At, Check
      <4> QED BY <2>4, <2>5, <3>2, <4>1, <4>2 DEF RequestReaches
    <3> QED BY <3>1, <3>2
  <2> QED BY <1>2, <2>2, <2>3, <2>5, <2>6, <2>7 DEF Reach
<1> QED BY <1>6, <1>7, <1>8, <1>9, <1>10, <1>12, <1>13, <1>14, <1>15, <1>16 DEF Next

\* The reach holds at first and is what the property says of the decided.
LEMMA ReachInit == ASSUME StatusAssumption, Init PROVE Reach
BY DEF Init, Reach, RequestReaches, Idle, FirstRow

LEMMA ReachDecided == ASSUME StatusAssumption, TypeOK, Reach PROVE DropReaches
BY StageTypes DEF Reach, RequestReaches, DropReaches, Decided, At

\* For any processes and accounts: a request that comes to a process after it
\* dropped an account it had edited is decided on the edited row or a newer one.
THEOREM DropsReach == ASSUME StatusAssumption PROVE Spec => []DropReaches
<1>1. Init => TypeOK /\ Reach
  BY TypeInit, ReachInit, StatusAssumption
<1>2. TypeOK /\ Reach /\ [Next]_vars => (TypeOK /\ Reach)'
  BY TypeInductive, ReachInductive, StatusAssumption
<1>3. TypeOK /\ Reach => DropReaches
  BY ReachDecided, StatusAssumption
<1> QED BY <1>1, <1>2, <1>3, PTL DEF Spec

-----------------------------------------------------------------------------
(* The last administrator.                                                 *)

\* With one edit at a time, the edit under way has read the row as it still is
\* and, if it takes the rights of an administrator, knows of another.
Seats ==
  ~Master /\ ~overlap =>
    /\ \E a \in Account : IsAdmin(row[a])
    /\ \A r, s \in Editing : r = s
    /\ \A r \in Editing : req[r].old = row[req[r].target]
    /\ \A r \in Request : At(r, {"write"}) /\ LosesAdmin(req[r].op, req[r].old) =>
         OtherAdmins(req[r].target) # {}

\* Writing over the row that was read takes the rights of an administrator only
\* if the edit was seen to take them.
LEMMA WrittenKeepsAdmin ==
  ASSUME NEW op \in Ops, NEW old \in Row, IsAdmin(old), ~LosesAdmin(op, old)
  PROVE  IsAdmin(Written(op, old, old))
BY DEF IsAdmin, InForce, LosesAdmin, Written, Row

\* A step that starts or ends no edit and writes no row.
LEMMA SeatsUntouched ==
  ASSUME Seats, UNCHANGED <<row, overlap>>,
         \A s \in Request : At(s, {"count", "write"})' => req'[s] = req[s]
  PROVE  Seats'
<1>1. \A s \in Editing' : s \in Editing /\ req'[s] = req[s]
  BY DEF Editing, At
<1>2. \A s \in Request : At(s, {"write"})' => At(s, {"write"}) /\ req'[s] = req[s]
  BY DEF At
<1>3. \A a : OtherAdmins(a)' = OtherAdmins(a)
  BY DEF OtherAdmins, IsAdmin, InForce
<1> QED BY <1>1, <1>2, <1>3 DEF Seats, IsAdmin, InForce, LosesAdmin, NewRole, NewActive, Editing

\* Every step keeps the seats.
LEMMA SeatsInductive ==
  ASSUME StatusAssumption, TypeOK, Seats, [Next]_vars
  PROVE  Seats'
<1>0. /\ req \in [Request -> Check \cup Change \cup {Idle}]
      /\ row \in [Account -> Row]
  BY DEF TypeOK
<1>1. CASE Tick \/ UNCHANGED vars
  BY <1>1, SeatsUntouched DEF Tick, vars
<1>2. ASSUME NEW r \in Request, NEW p \in Process, NEW a \in Account, NEW b \in Account,
             NEW op \in Ops, Receive(r, p, a, op, b)
      PROVE  Seats'
  <2> DEFINE q == [stage |-> "load", proc |-> p, who |-> a, op |-> op, target |-> b, now |-> clock,
                   low |-> floor[p][a], status |-> FirstRow(a), known |-> FALSE]
             h == [q EXCEPT !.stage = Decision(cache[p][a].row), !.status = cache[p][a].row, !.known = TRUE]
  <2>0. req' = [req EXCEPT ![r] = q] \/ req' = [req EXCEPT ![r] = h]
    BY <1>2, Zenon DEF Receive, Step
  <2>4. q.stage = "load" /\ h.stage \in {"admitted", "refused"}
    BY DEF Decision
  <2> HIDE DEF q, h
  <2>1. \E v : req' = [req EXCEPT ![r] = v] /\ v.stage \in {"load", "admitted", "refused"}
    BY <2>0, <2>4
  <2>2. UNCHANGED <<row, overlap>>
    BY <1>2 DEF Receive
  <2>3. \A s \in Request : At(s, {"count", "write"})' => req'[s] = req[s]
    BY <1>0, <2>1 DEF At
  <2> QED BY <2>2, <2>3, SeatsUntouched
<1>3. ASSUME NEW r \in Request, Load(r) \/ LoadFails(r) \/ Store(r) \/ Finish(r) \/ Drop(r)
      PROVE  Seats'
  <2>1. At(r, {"load", "store"}) => req[r] \in Check
    BY StageTypes DEF At
  <2>2. UNCHANGED <<row, overlap>>
    BY <1>3 DEF Load, LoadFails, Store, Finish, Drop
  <2>3. CASE Finish(r) \/ Drop(r)
    BY <1>0, <2>2, <2>3, SeatsUntouched DEF Finish, Drop, Step, At, Idle
  <2>4. CASE Load(r)
    <3>1. [req[r] EXCEPT !.stage = "store", !.status = row[req[r].who], !.known = TRUE].stage = "store"
      BY <2>1, <2>4 DEF Load, At, Check
    <3> QED BY <1>0, <2>2, <2>4, <3>1, SeatsUntouched DEF Load, Step, At
  <2>5. CASE LoadFails(r)
    <3>1. [req[r] EXCEPT !.stage = "admitted"].stage = "admitted"
      BY <2>1, <2>5 DEF LoadFails, At, Check
    <3> QED BY <1>0, <2>2, <2>5, <3>1, SeatsUntouched DEF LoadFails, Step, At
  <2>6. CASE Store(r)
    <3>1. [req[r] EXCEPT !.stage = Decision(req[r].status)].stage \in {"admitted", "refused"}
      BY <2>1, <2>6 DEF Store, At, Check, Decision
    <3> QED BY <1>0, <2>2, <2>6, <3>1, SeatsUntouched DEF Store, Step, At
  <2> QED BY <1>3, <2>3, <2>4, <2>5, <2>6
<1>4. ASSUME NEW r \in Request, ReadRow(r), ~Master, ~overlap'
      PROVE  Seats'
  <2> DEFINE q == req[r]
             old == row[req[r].target]
             v == [stage |-> IF LosesAdmin(q.op, old) /\ ~Master THEN "count" ELSE "write",
                   proc |-> q.proc, op |-> q.op, target |-> q.target, old |-> old]
  <2>1. ~overlap /\ Editing = {} /\ UNCHANGED row
    BY <1>4 DEF ReadRow
  <2>2. req' = [req EXCEPT ![r] = Idle] \/ req' = [req EXCEPT ![r] = v]
    BY <1>4, Zenon DEF ReadRow, Step
  <2>3. /\ v.old = row[v.target]
        /\ v.stage = "write" => ~LosesAdmin(v.op, v.old)
    BY <1>4
  <2> HIDE DEF v
  <2>4. \A s \in Request : At(s, {"count", "write"})' => s = r /\ req'[s] = v
    BY <1>0, <2>1, <2>2 DEF At, Editing, Idle
  <2>5. \A s \in Request : At(s, {"write"})' => s = r /\ req'[s] = v /\ v.stage = "write"
    BY <2>4 DEF At
  <2>6. \E a \in Account : IsAdmin(row[a])'
    BY <1>4, <2>1 DEF Seats, IsAdmin, InForce
  <2>7. \A s \in Request : At(s, {"write"})' => ~LosesAdmin(req[s].op, req[s].old)'
    BY <2>3, <2>5 DEF LosesAdmin, IsAdmin, InForce, NewRole, NewActive
  <2>8. \A s, t \in Editing' : s = t
    BY <2>4 DEF Editing
  <2>9. \A s \in Editing' : req'[s].old = row'[req'[s].target]
    BY <2>1, <2>3, <2>4 DEF Editing
  <2> QED BY <2>6, <2>7, <2>8, <2>9 DEF Seats
<1>5. ASSUME NEW r \in Request, CountAdmins(r), ~Master, ~overlap'
      PROVE  Seats'
  <2> DEFINE v == [req[r] EXCEPT !.stage = "write"]
  <2>1. req[r] \in Change /\ ~overlap /\ UNCHANGED row /\ r \in Editing
    BY <1>5, StageTypes DEF CountAdmins, At, Editing
  <2>2. \/ req' = [req EXCEPT ![r] = Idle]
        \/ req' = [req EXCEPT ![r] = v] /\ OtherAdmins(req[r].target) # {}
    BY <1>5 DEF CountAdmins, Step
  <2>3. v.stage = "write" /\ v.old = req[r].old /\ v.target = req[r].target
    BY <2>1 DEF Change
  <2> HIDE DEF v
  <2>4. \A s \in Request : At(s, {"count", "write"})' =>
          s = r /\ req'[s] = v /\ OtherAdmins(v.target) # {}
    BY <1>0, <1>5, <2>1, <2>2, <2>3 DEF At, Editing, Idle, Seats
  <2>5. req[r].old = row[req[r].target]
    BY <1>5, <2>1 DEF Seats
  <2>6. \E a \in Account : IsAdmin(row[a])'
    BY <1>5, <2>1 DEF Seats, IsAdmin, InForce
  <2>7. \A s \in Request : At(s, {"write"})' => OtherAdmins(req[s].target)' # {}
    BY <2>1, <2>4 DEF At, OtherAdmins, IsAdmin, InForce
  <2>8. \A s, t \in Editing' : s = t
    BY <2>4 DEF Editing
  <2>9. \A s \in Editing' : req'[s].old = row'[req'[s].target]
    BY <2>1, <2>3, <2>4, <2>5 DEF Editing
  <2> QED BY <2>6, <2>7, <2>8, <2>9 DEF Seats
<1>6. ASSUME NEW r \in Request, Write(r), ~Master, ~overlap'
      PROVE  Seats'
  <2> DEFINE a == req[r].target
             w == Written(req[r].op, req[r].old, row[a])
  <2>1. /\ req[r] \in Change /\ a \in Account /\ req[r].op \in Ops /\ req[r].old \in Row
        /\ ~overlap /\ r \in Editing /\ At(r, {"write"})
    BY <1>6, StageTypes DEF Write, At, Editing, Change
  <2>2. /\ \E b \in Account : IsAdmin(row[b])
        /\ \A s \in Editing : s = r
        /\ req[r].old = row[a]
        /\ LosesAdmin(req[r].op, req[r].old) => OtherAdmins(a) # {}
    BY <1>6, <2>1 DEF Seats
  <2>3. /\ req' = [req EXCEPT ![r] = Idle] \/ req' = [req EXCEPT ![r] = [req[r] EXCEPT !.stage = "drop"]]
        /\ UNCHANGED row \/ row' = [row EXCEPT ![a] = w]
    BY <1>6, Zenon DEF Write, Step
  <2>4. Editing' = {} /\ \A s \in Request : ~At(s, {"write"})'
    BY <1>0, <2>1, <2>2, <2>3 DEF Editing, At, Idle, Change
  <2>5. \E b \in Account : IsAdmin(row'[b])
    <3>1. CASE UNCHANGED row
      BY <2>2, <3>1
    <3>2. CASE row' = [row EXCEPT ![a] = w]
      <4>1. CASE LosesAdmin(req[r].op, req[r].old)
        <5>1. PICK b \in Account \ {a} : IsAdmin(row[b])
          BY <2>2, <4>1 DEF OtherAdmins
        <5>2. row'[b] = row[b]
          BY <1>0, <3>2, <5>1
        <5> QED BY <5>1, <5>2
      <4>2. CASE ~LosesAdmin(req[r].op, req[r].old)
        <5>1. PICK b \in Account : IsAdmin(row[b])
          BY <2>2
        <5>2. CASE b = a
          <6>1. IsAdmin(w)
            BY <2>1, <2>2, <4>2, <5>1, <5>2, WrittenKeepsAdmin
          <6> HIDE DEF w
          <6>2. row'[a] = w
            BY <1>0, <2>1, <3>2
          <6> QED BY <2>1, <6>1, <6>2
        <5>3. CASE b # a
          <6>1. row'[b] = row[b]
            BY <1>0, <3>2, <5>1, <5>3
          <6> QED BY <5>1, <6>1
        <5> QED BY <5>2, <5>3
      <4> QED BY <4>1, <4>2
    <3> QED BY <2>3, <3>1, <3>2
  <2> QED BY <2>4, <2>5 DEF Seats, IsAdmin, InForce
<1>7. ASSUME Master \/ overlap' PROVE Seats'
  BY <1>7 DEF Seats
<1> QED BY <1>1, <1>2, <1>3, <1>4, <1>5, <1>6, <1>7 DEF Next

LEMMA SeatsInit ==
  ASSUME StatusAssumption, Init, Master \/ Admins # {}
  PROVE  Seats
<1>1. Admins # {} => \E a \in Account : IsAdmin(row[a])
  BY DEF Init, StatusAssumption, FirstRow, IsAdmin, InForce
<1>2. Editing = {} /\ \A r \in Request : ~At(r, {"write"})
  BY DEF Init, Editing, At, Idle
<1> QED BY <1>1, <1>2 DEF Seats

\* Where there is an administrator at first, or a master password, any edits by
\* anybody leave one, as long as no two of them overlap.
THEOREM AdminsRemain ==
  ASSUME StatusAssumption, Master \/ Admins # {} PROVE Spec => []AdminRemains
<1>1. Init => TypeOK /\ Seats
  BY TypeInit, SeatsInit, StatusAssumption
<1>2. TypeOK /\ Seats /\ [Next]_vars => (TypeOK /\ Seats)'
  BY TypeInductive, SeatsInductive, StatusAssumption
<1>3. Seats => AdminRemains
  BY DEF Seats, AdminRemains
<1> QED BY <1>1, <1>2, <1>3, PTL DEF Spec
=============================================================================
