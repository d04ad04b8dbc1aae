----------------------------- MODULE GuardProofs -----------------------------
(***************************************************************************)
(* What the login guard promises, for any logins, limits, window and number *)
(* of requests.                                                             *)
(***************************************************************************)
EXTENDS LoginGuard, FiniteSetTheorems, WellFoundedInduction, TLAPS

-----------------------------------------------------------------------------
(* Queues that expire from the front.                                      *)

\* What First finds.
IsFirst(q, time, i) ==
  /\ i \in 1 .. Len(q) + 1
  /\ \A j \in 1 .. i - 1 : ~Within(q[j], time)
  /\ i <= Len(q) => Within(q[i], time)

\* A set of numbers that has a member has a least one.
LEMMA LeastNumber ==
  ASSUME NEW S \in SUBSET Nat, S # {}
  PROVE  \E n \in S : \A m \in S : n <= m
<1>1. \E n \in S : \A m \in S : ~(<<m, n>> \in OpToRel(<, Nat))
  BY NatLessThanWellFounded, WFMin
<1>2. PICK n \in S : \A m \in S : ~(<<m, n>> \in OpToRel(<, Nat))
  BY <1>1
<1>3. ASSUME NEW m \in S PROVE n <= m
  <2>1. m \in Nat /\ n \in Nat
    OBVIOUS
  <2>2. ~(m < n)
    BY <1>2, <2>1 DEF OpToRel
  <2> QED BY <2>1, <2>2
<1> QED BY <1>3

LEMMA FirstIsOne ==
  ASSUME NEW q \in Seq(Nat), NEW time \in Nat
  PROVE  /\ IsFirst(q, time, First(q, time))
         /\ \A i : IsFirst(q, time, i) => i = First(q, time)
<1> DEFINE S == {i \in 1 .. Len(q) + 1 : i <= Len(q) => Within(q[i], time)}
<1>1. Len(q) \in Nat /\ S \in SUBSET Nat /\ Len(q) + 1 \in S
  OBVIOUS
<1>2. PICK n \in S : \A m \in S : n <= m
  BY <1>1, LeastNumber
<1>3. IsFirst(q, time, n)
  <2>1. \A j \in 1 .. n - 1 : j \notin S /\ j \in 1 .. Len(q) + 1
    BY <1>1, <1>2
  <2> QED BY <2>1, <1>1 DEF IsFirst
<1>4. First(q, time) = CHOOSE i \in 1 .. Len(q) + 1 : IsFirst(q, time, i)
  BY DEF First, IsFirst
<1>5. IsFirst(q, time, First(q, time))
  BY <1>3, <1>4 DEF IsFirst
<1>6. ASSUME NEW i, NEW j, IsFirst(q, time, i), IsFirst(q, time, j) PROVE ~(i < j)
  BY <1>6, <1>1 DEF IsFirst
<1>7. ASSUME NEW i, IsFirst(q, time, i) PROVE i = First(q, time)
  <2>1. i \in Nat /\ First(q, time) \in Nat
    BY <1>1, <1>5, <1>7 DEF IsFirst
  <2>2. ~(i < First(q, time)) /\ ~(First(q, time) < i)
    BY <1>5, <1>6, <1>7, Zenon
  <2> QED BY <2>1, <2>2
<1> QED BY <1>5, <1>7

\* Queues are in the order of the times of their failures.
Queue(q, time) ==
  /\ q \in Seq(Nat)
  /\ \A i \in DOMAIN q : q[i] <= time
  /\ \A i, j \in DOMAIN q : i <= j => q[i] <= q[j]

LEMMA RecentIs ==
  ASSUME NEW q \in Seq(Nat), NEW time \in Nat
  PROVE  LET f == First(q, time)
             r == Recent(q, time)
         IN /\ f \in 1 .. Len(q) + 1
            /\ r \in Seq(Nat) /\ Len(r) = Len(q) + 1 - f
            /\ \A i \in 1 .. Len(r) : r[i] = q[i + f - 1]
            /\ r # <<>> => Within(r[1], time)
<1> DEFINE f == First(q, time)
           r == Recent(q, time)
<1>1. IsFirst(q, time, f)
  BY FirstIsOne
<1>2. f \in 1 .. Len(q) + 1 /\ Len(q) \in Nat
  BY <1>1 DEF IsFirst
<1>3. r = SubSeq(q, f, Len(q))
  BY DEF Recent
<1>4. r \in Seq(Nat) /\ Len(r) = Len(q) + 1 - f /\ \A i \in 1 .. Len(r) : r[i] = q[i + f - 1]
  <2> HIDE DEF f, r
  <2> QED BY <1>2, <1>3
<1>5. r # <<>> => Within(r[1], time)
  <2> SUFFICES ASSUME r # <<>> PROVE Within(r[1], time)
    OBVIOUS
  <2>1. Len(r) >= 1 /\ f <= Len(q)
    BY <1>2, <1>4
  <2>2. r[1] = q[f]
    BY <1>2, <1>4, <2>1
  <2> QED BY <1>1, <2>1, <2>2 DEF IsFirst
<1> QED BY <1>2, <1>4, <1>5

LEMMA SubSeqIs ==
  ASSUME NEW q \in Seq(Nat), NEW h \in 1 .. Len(q) + 1
  PROVE  /\ SubSeq(q, h, Len(q)) \in Seq(Nat) /\ Len(SubSeq(q, h, Len(q))) = Len(q) - h + 1
         /\ \A i \in 1 .. Len(SubSeq(q, h, Len(q))) : SubSeq(q, h, Len(q))[i] = q[i + h - 1]
<1>1. Len(q) \in Nat
  OBVIOUS
<1> QED BY <1>1

LEMMA SameQueue ==
  ASSUME NEW a \in Seq(Nat), NEW b \in Seq(Nat), Len(a) = Len(b),
         \A i \in 1 .. Len(a) : a[i] = b[i]
  PROVE  a = b
OBVIOUS

\* What is recent later is what is recent later of what is recent now.
LEMMA RecentTwice ==
  ASSUME NEW q \in Seq(Nat), NEW time \in Nat, NEW later \in Nat, time <= later
  PROVE  Recent(Recent(q, time), later) = Recent(q, later)
<1> DEFINE f == First(q, time)
           r == Recent(q, time)
           g == First(r, later)
<1>1. IsFirst(q, time, f) /\ Len(q) \in Nat
  BY FirstIsOne
<1>2. r \in Seq(Nat) /\ Len(r) = Len(q) + 1 - f /\ \A i \in 1 .. Len(r) : r[i] = q[i + f - 1]
  BY RecentIs
<1>3. IsFirst(r, later, g)
  BY <1>2, FirstIsOne
<1>4. f \in 1 .. Len(q) + 1 /\ g \in 1 .. Len(r) + 1
  BY <1>1, <1>3 DEF IsFirst
<1> HIDE DEF f, r, g
<1>5. IsFirst(q, later, f + g - 1)
  <2>1. ASSUME NEW j \in 1 .. f + g - 2 PROVE ~Within(q[j], later)
    <3>1. CASE j < f
      <4>1. ~Within(q[j], time) /\ q[j] \in Nat
        BY <1>1, <1>4, <3>1 DEF IsFirst
      <4> QED BY <4>1, GuardAssumption DEF Within
    <3>2. CASE j >= f
      <4>1. j - f + 1 \in 1 .. g - 1 /\ j - f + 1 \in 1 .. Len(r)
        BY <1>1, <1>2, <1>4, <3>2
      <4>2. r[j - f + 1] = q[j]
        BY <1>2, <1>4, <4>1
      <4> QED BY <1>3, <4>1, <4>2 DEF IsFirst
    <3> QED BY <3>1, <3>2, <1>4
  <2>2. ASSUME f + g - 1 <= Len(q) PROVE Within(q[f + g - 1], later)
    <3>1. g \in 1 .. Len(r)
      BY <1>1, <1>2, <1>4, <2>2
    <3>2. r[g] = q[f + g - 1]
      BY <1>2, <1>4, <3>1
    <3> QED BY <1>3, <1>2, <3>1, <3>2 DEF IsFirst
  <2>3. f + g - 1 \in 1 .. Len(q) + 1
    BY <1>1, <1>2, <1>4
  <2>4. (f + g - 1) - 1 = f + g - 2
    BY <1>4
  <2> QED BY <2>1, <2>2, <2>3, <2>4 DEF IsFirst
<1>6. First(q, later) = f + g - 1
  BY <1>5, FirstIsOne
<1>7. r = SubSeq(q, f, Len(q)) /\ Recent(r, later) = SubSeq(r, g, Len(r))
  BY DEF Recent, r, f, g
<1>8. Recent(q, later) = SubSeq(q, f + g - 1, Len(q))
  BY <1>6 DEF Recent
<1>9. SubSeq(r, g, Len(r)) = SubSeq(q, f + g - 1, Len(q))
  <2> DEFINE a == SubSeq(r, g, Len(r))
             b == SubSeq(q, f + g - 1, Len(q))
  <2>1. a \in Seq(Nat) /\ Len(a) = Len(r) - g + 1 /\ \A i \in 1 .. Len(a) : a[i] = r[i + g - 1]
    BY <1>2, <1>4, SubSeqIs
  <2>2. b \in Seq(Nat) /\ Len(b) = Len(q) - (f + g - 1) + 1 /\ \A i \in 1 .. Len(b) : b[i] = q[i + (f + g - 1) - 1]
    <3>1. f + g - 1 \in 1 .. Len(q) + 1
      BY <1>1, <1>2, <1>4
    <3> QED BY <3>1, SubSeqIs
  <2> HIDE DEF a, b
  <2>3. Len(a) = Len(b) /\ Len(a) \in Nat
    BY <1>1, <1>2, <1>4, <2>1, <2>2
  <2>4. ASSUME NEW i \in 1 .. Len(a) PROVE a[i] = b[i]
    <3>1. i + g - 1 \in 1 .. Len(r)
      BY <1>2, <1>4, <2>1, <2>3
    <3>2. a[i] = q[(i + g - 1) + f - 1]
      BY <1>2, <2>1, <3>1
    <3>3. (i + g - 1) + f - 1 = i + (f + g - 1) - 1
      BY <1>4, <2>3
    <3> QED BY <2>2, <2>3, <3>2, <3>3
  <2>5. a = b
    BY <2>1, <2>2, <2>3, <2>4, SameQueue
  <2> QED BY <2>5 DEF a, b
<1> QED BY <1>7, <1>8, <1>9 DEF r

\* A new failure is recent.
LEMMA RecentAppended ==
  ASSUME NEW q \in Seq(Nat), NEW time \in Nat
  PROVE  Recent(Append(Recent(q, time), time), time) = Append(Recent(q, time), time)
<1> DEFINE r == Recent(q, time)
           a == Append(r, time)
<1>1. r \in Seq(Nat) /\ (r # <<>> => Within(r[1], time))
  BY RecentIs
<1> HIDE DEF r
<1>2. a \in Seq(Nat) /\ Len(a) = Len(r) + 1 /\ Len(r) \in Nat
  BY <1>1
<1>3. a[1] = IF r = <<>> THEN time ELSE r[1]
  BY <1>1
<1>4. Within(a[1], time)
  BY <1>1, <1>3, GuardAssumption DEF Within
<1>5. IsFirst(a, time, 1)
  BY <1>2, <1>4 DEF IsFirst
<1> HIDE DEF a
<1>6. First(a, time) = 1
  BY <1>2, <1>5, FirstIsOne
<1>7. SubSeq(a, 1, Len(a)) = a
  BY <1>2
<1> QED BY <1>6, <1>7 DEF Recent, a, r

\* When the newest failure of a queue has expired, all have.
LEMMA ForgottenIsEmpty ==
  ASSUME NEW time \in Nat, NEW q, Queue(q, time), q = <<>> \/ ~Within(q[Len(q)], time)
  PROVE  Recent(q, time) = <<>>
<1> DEFINE f == First(q, time)
<1>1. q \in Seq(Nat) /\ Len(q) \in Nat /\ IsFirst(q, time, f)
  BY FirstIsOne DEF Queue
<1>2. f \in 1 .. Len(q) + 1
  BY <1>1 DEF IsFirst
<1>3. ~(f <= Len(q))
  <2> SUFFICES ASSUME f <= Len(q) PROVE FALSE
    OBVIOUS
  <2>1. Within(q[f], time) /\ f \in DOMAIN q /\ Len(q) \in DOMAIN q /\ q # <<>>
    BY <1>1, <1>2 DEF IsFirst
  <2>2. q[f] <= q[Len(q)] /\ q[f] \in Nat /\ q[Len(q)] \in Nat
    BY <1>1, <2>1 DEF Queue
  <2> QED BY <2>1, <2>2, GuardAssumption DEF Within
<1>4. Recent(q, time) \in Seq(Nat) /\ Len(Recent(q, time)) = Len(q) + 1 - f
  BY <1>1, RecentIs
<1> HIDE DEF f
<1>5. Len(Recent(q, time)) = 0
  BY <1>1, <1>2, <1>3, <1>4
<1> QED BY <1>4, <1>5

LEMMA QueueKept ==
  ASSUME NEW time \in Nat, NEW later \in Nat, time <= later, NEW q, Queue(q, time)
  PROVE  /\ Queue(q, later)
         /\ Queue(Recent(q, later), time)
         /\ Queue(Append(q, time), time)
<1>1. q \in Seq(Nat) /\ Len(q) \in Nat /\ \A i \in 1 .. Len(q) : q[i] \in Nat /\ q[i] <= time
  BY DEF Queue
<1>2. Queue(q, later)
  BY <1>1 DEF Queue
<1>3. Queue(Recent(q, later), time)
  <2> DEFINE f == First(q, later)
             r == Recent(q, later)
  <2>1. /\ f \in 1 .. Len(q) + 1
        /\ r \in Seq(Nat) /\ Len(r) = Len(q) + 1 - f
        /\ \A i \in 1 .. Len(r) : r[i] = q[i + f - 1]
    BY <1>1, RecentIs
  <2> HIDE DEF f, r
  <2>2. ASSUME NEW i \in DOMAIN r PROVE i + f - 1 \in DOMAIN q /\ r[i] = q[i + f - 1]
    <3>1. i \in 1 .. Len(r) /\ DOMAIN q = 1 .. Len(q)
      BY <1>1, <2>1
    <3>2. Len(q) \in Nat /\ Len(r) \in Nat /\ i \in Nat /\ f \in Nat
      BY <1>1, <2>1, <3>1
    <3>3. i >= 1 /\ i <= Len(q) + 1 - f /\ f >= 1
      BY <2>1, <3>1, <3>2
    <3>4. i + f - 1 \in 1 .. Len(q)
      BY <3>2, <3>3
    <3> QED BY <2>1, <3>1, <3>4
  <2>3. \A i, j \in DOMAIN r : i <= j => i + f - 1 <= j + f - 1
    BY <2>1
  <2>4. Queue(r, time)
    BY <2>1, <2>2, <2>3 DEF Queue
  <2> QED BY <2>4 DEF r
<1>4. Queue(Append(q, time), time)
  <2> DEFINE a == Append(q, time)
  <2>1. a \in Seq(Nat) /\ DOMAIN a = 1 .. Len(q) + 1
    BY <1>1
  <2>2. \A i \in DOMAIN a : a[i] = IF i <= Len(q) THEN q[i] ELSE time
    BY <1>1
  <2>3. \A i \in DOMAIN a : a[i] \in Nat /\ a[i] <= time
    BY <1>1, <2>1, <2>2
  <2>4. \A i, j \in DOMAIN a : i <= j => a[i] <= a[j]
    BY <1>1, <2>1, <2>2, <2>3 DEF Queue
  <2> QED BY <2>1, <2>3, <2>4 DEF Queue
<1> QED BY <1>2, <1>3, <1>4

-----------------------------------------------------------------------------
(* The inductive invariant.                                                *)

Types ==
  /\ now \in Nat
  /\ DOMAIN fails = Key /\ \A k \in Key : fails[k] = None \/ Queue(fails[k], now)
  /\ verifying \in [Req -> Login \cup {None}]
  /\ DOMAIN happened = Key /\ \A k \in Key : Queue(happened[k], now)
  /\ promised \in [Key -> Nat \cup {None}]

\* happened forgets what has expired at once, fails only when it is looked at.
Counted == \A k \in Key : Recent(happened[k], now) = happened[k] /\ Pruned(fails[k]) = happened[k]

\* Whoever was refused and has met no failure since: the limit is not overshot,
\* and if it is reached still the oldest failure will have expired in time.
Kept ==
  \A k \in Key :
    promised[k] # None =>
      /\ Len(happened[k]) <= Limit[k]
      /\ Len(happened[k]) = Limit[k] => promised[k] > happened[k][1] + Window

GuardInv == Types /\ Counted /\ OvershootBounded /\ Kept

\* What a step makes of the counters.
Step(keep) ==
  /\ Types' /\ Counted'
  /\ now' = now
  /\ \A k \in Key : happened'[k] = IF k \in keep THEN happened[k] ELSE <<>>

LEMMA PrunedTyped ==
  ASSUME Types, NEW k \in Key
  PROVE  /\ Pruned(fails[k]) \in Seq(Nat) /\ Queue(Pruned(fails[k]), now)
         /\ Pruned(fails[k]) # None
         /\ Recent(Pruned(fails[k]), now) = Pruned(fails[k])
<1>1. CASE fails[k] = None
  <2>1. Pruned(fails[k]) = <<>> /\ <<>> \in Seq(Nat)
    BY <1>1 DEF Pruned
  <2>2. Queue(<<>>, now)
    BY <2>1 DEF Queue
  <2> QED BY <2>1, <2>2, ForgottenIsEmpty, GuardAssumption DEF Types
<1>2. CASE fails[k] # None
  <2>1. Queue(fails[k], now) /\ now \in Nat /\ fails[k] \in Seq(Nat)
    BY <1>2 DEF Types, Queue
  <2>2. Pruned(fails[k]) = Recent(fails[k], now)
    BY <1>2 DEF Pruned
  <2>3. Queue(Recent(fails[k], now), now)
    BY <2>1, QueueKept
  <2>4. Recent(Recent(fails[k], now), now) = Recent(fails[k], now)
    BY <2>1, RecentTwice
  <2> QED BY <2>2, <2>3, <2>4, GuardAssumption DEF Queue
<1> QED BY <1>1, <1>2

\* A key keeps its recent failures when it is pruned.
LEMMA PruningKeeps ==
  ASSUME Types, Counted, NEW keys \in SUBSET Key, fails' = [k \in Key |-> IF k \in keys THEN Pruned(fails[k]) ELSE fails[k]],
         UNCHANGED <<now, happened>>, verifying' \in [Req -> Login \cup {None}], promised' \in [Key -> Nat \cup {None}]
  PROVE  Step(Key)
<1>1. DOMAIN fails' = Key /\ \A k \in Key : fails'[k] = IF k \in keys THEN Pruned(fails[k]) ELSE fails[k]
  OBVIOUS
<1>2. ASSUME NEW k \in Key
      PROVE  /\ fails'[k] = None \/ Queue(fails'[k], now)
             /\ Pruned(fails'[k]) = Pruned(fails[k])
  <2>1. CASE k \in keys
    <3>1. fails'[k] = Pruned(fails[k])
      BY <1>1, <2>1
    <3> QED BY <3>1, PrunedTyped DEF Pruned
  <2>2. CASE k \notin keys
    <3>1. fails'[k] = fails[k]
      BY <1>1, <2>2
    <3> QED BY <3>1 DEF Types
  <2> QED BY <2>1, <2>2
<1>3. Types'
  BY <1>1, <1>2 DEF Types
<1>4. \A k \in Key : Pruned(fails[k])' = Pruned(fails'[k])
  BY DEF Pruned
<1>5. Counted'
  BY <1>2, <1>4 DEF Counted
<1> QED BY <1>3, <1>5 DEF Step

\* Cleaning the table forgets no recent failure.
LEMMA CleaningKeeps ==
  ASSUME now \in Nat, NEW table, DOMAIN table = Key,
         \A k \in Key : table[k] = None \/ Queue(table[k], now)
  PROVE  /\ DOMAIN Cleaned(table) = Key
         /\ \A k \in Key : /\ Cleaned(table)[k] = None \/ Queue(Cleaned(table)[k], now)
                          /\ Pruned(Cleaned(table)[k]) = Pruned(table[k])
<1> DEFINE few == Cardinality({k \in Key : table[k] # None}) <= MaxKeys
           gone(k) == table[k] # None /\ Forgotten(table[k])
<1>1. CASE few
  BY <1>1, Zenon DEF Cleaned
<1>2. CASE ~few
  <2>1. Cleaned(table) = [k \in Key |-> IF gone(k) THEN None ELSE table[k]]
    BY <1>2, Zenon DEF Cleaned
  <2>2. DOMAIN Cleaned(table) = Key /\ \A k \in Key : Cleaned(table)[k] = IF gone(k) THEN None ELSE table[k]
    BY <2>1, Zenon
  <2>3. ASSUME NEW k \in Key, gone(k) PROVE Pruned(table[k]) = <<>>
    BY <2>3, ForgottenIsEmpty DEF Pruned, Forgotten
  <2> QED BY <2>2, <2>3, Zenon DEF Pruned
<1> QED BY <1>1, <1>2

-----------------------------------------------------------------------------
(* The actions.                                                            *)

LEMMA GuardInit == Init => GuardInv
<1> SUFFICES ASSUME Init PROVE GuardInv
  OBVIOUS
<1>1. Queue(<<>>, now) /\ now \in Nat
  BY DEF Queue, Init
<1>2. Types
  BY <1>1 DEF Init, Types
<1>3. Recent(<<>>, now) = <<>>
  BY <1>1, ForgottenIsEmpty
<1>4. Counted
  BY <1>3 DEF Counted, Init, Pruned
<1>5. OvershootBounded
  <2> SUFFICES ASSUME NEW k \in Key
               PROVE  Len(Recent(happened[k], now)) + Cardinality(UnderWay(k)) < Limit[k] + Cardinality(Req)
    BY DEF OvershootBounded
  <2>1. Len(Recent(happened[k], now)) = 0
    BY <1>3 DEF Init
  <2>2. UnderWay(k) = {}
    <3>1. \A r \in Req : verifying[r] = None
      BY DEF Init
    <3>2. None \notin Key
      BY GuardAssumption DEF Key
    <3> QED BY <3>1, <3>2 DEF UnderWay
  <2>3. Cardinality(UnderWay(k)) = 0 /\ Cardinality(Req) \in Nat /\ Limit[k] \in Nat \ {0}
    BY <2>2, FS_EmptySet, FS_CardinalityType, GuardAssumption
  <2> QED BY <2>1, <2>3
<1>6. Kept
  BY DEF Init, Kept
<1> QED BY <1>2, <1>4, <1>5, <1>6 DEF GuardInv

LEMMA UnderWayFinite ==
  ASSUME NEW k \in Key
  PROVE  /\ IsFiniteSet(UnderWay(k)) /\ Cardinality(UnderWay(k)) \in Nat
         /\ Cardinality(UnderWay(k)) <= Cardinality(Req) /\ Cardinality(Req) \in Nat
<1>1. UnderWay(k) \subseteq Req
  BY DEF UnderWay
<1> QED BY <1>1, FS_Subset, FS_CardinalityType, GuardAssumption

\* The length of the queue whose counter a key shows.
LEMMA Lengths ==
  ASSUME Types, NEW k \in Key
  PROVE  Len(happened[k]) \in Nat /\ happened[k] \in Seq(Nat) /\ Limit[k] \in Nat /\ Limit[k] >= 1
<1>1. happened[k] \in Seq(Nat)
  BY DEF Types, Queue
<1>2. Limit[k] \in Nat \ {0}
  BY GuardAssumption
<1> QED BY <1>1, <1>2

\* In a state that counts truly, the counters can be spoken of by happened.
LEMMA OvershootIs ==
  ASSUME Counted
  PROVE  OvershootBounded <=> \A k \in Key : Len(happened[k]) + Cardinality(UnderWay(k)) < Limit[k] + Cardinality(Req)
BY DEF Counted, OvershootBounded

LEMMA ClosedIs ==
  ASSUME Counted, NEW k \in Key
  PROVE  Closed(k) <=> Len(happened[k]) >= Limit[k]
BY DEF Counted, Closed

\* Requests that stop verifying only leave room.
LEMMA LeavingIsSafe ==
  ASSUME Types, Types', Counted, Counted', OvershootBounded,
         \A k \in Key : Len(happened'[k]) <= Len(happened[k]),
         \A k \in Key : UnderWay(k)' \subseteq UnderWay(k)
  PROVE  OvershootBounded'
<1> SUFFICES ASSUME NEW k \in Key
             PROVE  Len(happened'[k]) + Cardinality(UnderWay(k)') < Limit[k] + Cardinality(Req)
  BY DEF OvershootBounded, Counted
<1>1. Len(happened[k]) + Cardinality(UnderWay(k)) < Limit[k] + Cardinality(Req)
  BY OvershootIs
<1>2. Len(happened[k]) \in Nat /\ Limit[k] \in Nat
  BY Lengths
<1>3. Len(happened'[k]) \in Nat
  <2>1. happened'[k] \in Seq(Nat)
    BY DEF Types, Queue
  <2> QED BY <2>1
<1>4. Cardinality(UnderWay(k)) \in Nat /\ Cardinality(Req) \in Nat /\ IsFiniteSet(UnderWay(k))
  BY UnderWayFinite
<1>5. Cardinality(UnderWay(k)') \in Nat /\ Cardinality(UnderWay(k)') <= Cardinality(UnderWay(k))
  BY <1>4, FS_Subset, FS_CardinalityType
<1>6. Len(happened'[k]) <= Len(happened[k])
  OBVIOUS
<1> QED BY <1>1, <1>2, <1>3, <1>4, <1>5, <1>6

LEMMA TickKeeps == GuardInv /\ Tick => GuardInv'
<1> SUFFICES ASSUME GuardInv, Tick PROVE GuardInv'
  OBVIOUS
<1>1. now \in Nat /\ now' = now + 1 /\ now' \in Nat /\ now <= now'
  BY DEF GuardInv, Types, Tick
<1>2. Types /\ Counted /\ OvershootBounded /\ Kept /\ UNCHANGED <<fails, verifying, promised>>
  BY DEF GuardInv, Tick
<1>3. DOMAIN happened' = Key /\ \A k \in Key : happened'[k] = Recent(happened[k], now')
  BY DEF Tick
<1>4. \A k \in Key : Queue(happened[k], now) /\ happened[k] \in Seq(Nat) /\ Len(happened[k]) \in Nat
  BY <1>2 DEF Types, Queue
<1>5. Types'
  <2>1. \A k \in Key : Queue(happened'[k], now')
    <3> SUFFICES ASSUME NEW k \in Key PROVE Queue(happened'[k], now')
      OBVIOUS
    <3>1. Queue(happened'[k], now)
      BY <1>1, <1>3, <1>4, QueueKept
    <3> QED BY <1>1, <3>1, QueueKept
  <2>2. \A k \in Key : fails'[k] = None \/ Queue(fails'[k], now')
    <3> SUFFICES ASSUME NEW k \in Key, fails[k] # None PROVE Queue(fails[k], now')
      BY <1>2
    <3>1. Queue(fails[k], now)
      BY <1>2 DEF Types
    <3> QED BY <1>1, <3>1, QueueKept
  <2> QED BY <1>1, <1>2, <1>3, <2>1, <2>2 DEF Types
<1>6. Counted'
  <2> SUFFICES ASSUME NEW k \in Key
               PROVE  Recent(happened'[k], now') = happened'[k] /\ Pruned(fails[k])' = happened'[k]
    BY DEF Counted
  <2>1. Recent(happened'[k], now') = happened'[k]
    BY <1>1, <1>3, <1>4, RecentTwice
  <2>2. CASE fails[k] = None
    <3>1. happened[k] = <<>>
      BY <1>2, <2>2 DEF Counted, Pruned
    <3>2. Queue(<<>>, now')
      BY DEF Queue
    <3>3. Recent(<<>>, now') = <<>>
      BY <1>1, <3>2, ForgottenIsEmpty
    <3> QED BY <1>2, <1>3, <2>1, <2>2, <3>1, <3>3 DEF Pruned
  <2>3. CASE fails[k] # None
    <3>1. happened[k] = Recent(fails[k], now) /\ fails[k] \in Seq(Nat)
      BY <1>2, <2>3 DEF Counted, Pruned, Types, Queue
    <3>2. Recent(Recent(fails[k], now), now') = Recent(fails[k], now')
      BY <1>1, <3>1, RecentTwice
    <3>3. Pruned(fails[k])' = Recent(fails[k], now')
      BY <1>2, <2>3 DEF Pruned
    <3> QED BY <1>3, <2>1, <3>1, <3>2, <3>3
  <2> QED BY <2>2, <2>3
<1>7. ASSUME NEW k \in Key
      PROVE  /\ Len(happened'[k]) \in Nat /\ Len(happened'[k]) <= Len(happened[k])
             /\ Len(happened'[k]) = Len(happened[k]) /\ Len(happened[k]) >= 1 => happened'[k][1] = happened[k][1]
  <2> DEFINE q == happened[k]
             f == First(q, now')
             r == Recent(q, now')
  <2>1. f \in 1 .. Len(q) + 1 /\ r \in Seq(Nat) /\ Len(r) = Len(q) + 1 - f /\ \A i \in 1 .. Len(r) : r[i] = q[i + f - 1]
    BY <1>1, <1>4, RecentIs
  <2>2. Len(q) \in Nat /\ happened'[k] = r
    BY <1>3, <1>4
  <2> HIDE DEF q, f, r
  <2>3. Len(r) \in Nat /\ Len(r) <= Len(q)
    BY <2>1, <2>2
  <2>4. ASSUME Len(r) = Len(q), Len(q) >= 1 PROVE r[1] = q[1]
    <3>1. f = 1 /\ 1 \in 1 .. Len(r)
      BY <2>1, <2>2, <2>4
    <3> QED BY <2>1, <3>1
  <2> QED BY <2>2, <2>3, <2>4 DEF q
<1>8. OvershootBounded'
  <2>1. \A k \in Key : UnderWay(k)' \subseteq UnderWay(k)
    BY <1>2 DEF UnderWay
  <2> QED BY <1>2, <1>5, <1>6, <1>7, <2>1, LeavingIsSafe
<1>9. Kept'
  <2> SUFFICES ASSUME NEW k \in Key, promised'[k] # None
               PROVE  /\ Len(happened'[k]) <= Limit[k]
                      /\ Len(happened'[k]) = Limit[k] => promised'[k] > happened'[k][1] + Window
    BY DEF Kept
  <2>1. /\ Len(happened[k]) <= Limit[k]
        /\ Len(happened[k]) = Limit[k] => promised'[k] > happened[k][1] + Window
    BY <1>2 DEF Kept
  <2>2. Limit[k] \in Nat /\ Limit[k] >= 1 /\ Len(happened[k]) \in Nat
    BY <1>2, Lengths
  <2>3. Len(happened'[k]) = Limit[k] => Len(happened'[k]) = Len(happened[k]) /\ Len(happened[k]) >= 1
    BY <1>7, <2>1, <2>2
  <2> QED BY <1>7, <2>1, <2>2, <2>3
<1> QED BY <1>5, <1>6, <1>8, <1>9 DEF GuardInv

\* Refused, a client is told to come back after the oldest failure has expired.
LEMMA AdviceIsLater ==
  ASSUME NEW q \in Seq(Nat), q # <<>>, now \in Nat, q[1] <= now, Within(q[1], now)
  PROVE  /\ now + Advice(q) * Minute \in Nat
         /\ now + Advice(q) * Minute > q[1] + Window
<1> DEFINE left == Window - (now - q[1])
<1>1. q[1] \in Nat /\ Window \in Nat /\ Minute \in Nat /\ Minute > 0
  BY GuardAssumption
<1>2. left \in Nat
  BY <1>1 DEF Within
<1>3. left < (left \div Minute + 1) * Minute /\ (left \div Minute + 1) * Minute \in Nat
  <2> HIDE DEF left
  <2> QED BY <1>1, <1>2
<1> DEFINE a == Advice(q) * Minute
<1>4. a \in Nat /\ a > left
  BY <1>3 DEF Advice
<1>5. now + left = q[1] + Window
  BY <1>1
<1> HIDE DEF left, a
<1>6. now + a \in Nat /\ now + a > now + left
  BY <1>2, <1>4
<1> QED BY <1>5, <1>6 DEF a

\* A refusal, once the queues that were looked at are pruned.
LEMMA RefuseKeeps ==
  ASSUME GuardInv, NEW keys \in SUBSET Key, NEW c \in Key, Closed(c), Refuse(c),
         fails' = [k \in Key |-> IF k \in keys THEN Pruned(fails[k]) ELSE fails[k]]
  PROVE  GuardInv'
<1>1. Types /\ Counted /\ OvershootBounded /\ Kept /\ now \in Nat
  BY DEF GuardInv, Types
<1> DEFINE q == Pruned(fails[c])
<1>2. q = happened[c] /\ q \in Seq(Nat) /\ Queue(q, now) /\ Recent(q, now) = q /\ Limit[c] \in Nat /\ Limit[c] >= 1 /\ Len(q) \in Nat
  BY <1>1, PrunedTyped, Lengths DEF Counted
<1>3. UNCHANGED <<now, verifying, happened>>
      /\ promised' = [promised EXCEPT ![c] = IF Len(q) = Limit[c] THEN now + Advice(q) * Minute ELSE None]
  BY DEF Refuse
<1> HIDE DEF q
<1>4. ASSUME Len(q) = Limit[c]
      PROVE  now + Advice(q) * Minute \in Nat /\ now + Advice(q) * Minute > q[1] + Window
  <2>1. q # <<>> /\ 1 \in DOMAIN q
    BY <1>2, <1>4
  <2>2. Within(q[1], now)
    BY <1>1, <1>2, <2>1, RecentIs, Zenon
  <2>3. q[1] <= now
    BY <1>2, <2>1 DEF Queue
  <2> QED BY <1>1, <1>2, <2>1, <2>2, <2>3, AdviceIsLater
<1>5. promised' \in [Key -> Nat \cup {None}]
  BY <1>1, <1>3, <1>4 DEF Types
<1>6. Step(Key)
  <2>1. verifying' \in [Req -> Login \cup {None}]
    BY <1>1, <1>3 DEF Types
  <2> QED BY <1>1, <1>3, <1>5, <2>1, PruningKeeps
<1>7. Types' /\ Counted'
  BY <1>6 DEF Step
<1>8. OvershootBounded'
  BY <1>1, <1>3, <1>7 DEF OvershootBounded, UnderWay, Counted
<1>9. Kept'
  <2> SUFFICES ASSUME NEW k \in Key, promised'[k] # None
               PROVE  /\ Len(happened[k]) <= Limit[k]
                      /\ Len(happened[k]) = Limit[k] => promised'[k] > happened[k][1] + Window
    BY <1>3 DEF Kept
  <2>1. CASE k = c
    <3>1. promised'[c] = IF Len(q) = Limit[c] THEN now + Advice(q) * Minute ELSE None
      BY <1>1, <1>3 DEF Types
    <3>2. Len(q) = Limit[c] /\ promised'[c] = now + Advice(q) * Minute
      BY <2>1, <3>1
    <3> QED BY <1>2, <1>4, <2>1, <3>2
  <2>2. CASE k # c
    <3>1. promised'[k] = promised[k]
      BY <1>1, <1>3, <2>2 DEF Types
    <3> QED BY <1>1, <3>1 DEF Kept
  <2> QED BY <2>1, <2>2
<1> QED BY <1>7, <1>8, <1>9 DEF GuardInv

LEMMA CheckKeeps ==
  ASSUME GuardInv, NEW r \in Req, NEW l \in Login, Check(r, l)
  PROVE  GuardInv'
<1>1. Types /\ Counted /\ OvershootBounded /\ Kept
  BY DEF GuardInv
<1>2. l \in Key /\ Address \in Key /\ {l} \in SUBSET Key /\ {l, Address} \in SUBSET Key /\ l # Address
  BY GuardAssumption DEF Key
<1>3. CASE Closed(l) /\ fails' = [fails EXCEPT ![l] = Pruned(@)] /\ Refuse(l)
  <2>1. fails' = [k \in Key |-> IF k \in {l} THEN Pruned(fails[k]) ELSE fails[k]]
    <3>1. DOMAIN fails = Key
      BY <1>1 DEF Types
    <3>2. fails' = [k \in DOMAIN fails |-> IF k = l THEN Pruned(fails[l]) ELSE fails[k]]
      BY <1>3
    <3> QED BY <3>1, <3>2
  <2> QED BY <1>2, <1>3, <2>1, RefuseKeeps
<1> DEFINE both == fails' = [k \in Key |-> IF k \in {l, Address} THEN Pruned(fails[k]) ELSE fails[k]]
<1>4. CASE both /\ Closed(Address) /\ Refuse(Address)
  BY <1>2, <1>4, RefuseKeeps
<1>5. CASE both /\ ~Closed(l) /\ ~Closed(Address) /\ verifying' = [verifying EXCEPT ![r] = l] /\ UNCHANGED <<now, happened, promised>>
  <2>1. verifying' \in [Req -> Login \cup {None}] /\ verifying'[r] = l /\ \A s \in Req \ {r} : verifying'[s] = verifying[s]
    BY <1>1, <1>5 DEF Types
  <2>2. promised' \in [Key -> Nat \cup {None}]
    BY <1>1, <1>5 DEF Types
  <2>3. Step(Key)
    BY <1>1, <1>2, <1>5, <2>1, <2>2, PruningKeeps
  <2>4. Types' /\ Counted'
    BY <2>3 DEF Step
  <2>5. OvershootBounded'
    <3> SUFFICES ASSUME NEW k \in Key
                 PROVE  Len(happened[k]) + Cardinality(UnderWay(k)') < Limit[k] + Cardinality(Req)
      BY <1>5, <2>4 DEF OvershootBounded, Counted
    <3>1. Len(happened[k]) \in Nat /\ Limit[k] \in Nat
      BY <1>1, Lengths
    <3>2. UnderWay(k)' \subseteq Req
      BY DEF UnderWay
    <3>3. Cardinality(UnderWay(k)') \in Nat /\ Cardinality(Req) \in Nat /\ Cardinality(UnderWay(k)') <= Cardinality(Req)
      BY <3>2, FS_Subset, FS_CardinalityType, GuardAssumption
    <3>4. CASE k \in {l, Address}
      <4>1. ~(Len(happened[k]) >= Limit[k])
        BY <1>1, <1>5, <3>4, ClosedIs
      <4> QED BY <3>1, <3>3, <4>1
    <3>5. CASE k \notin {l, Address}
      <4>1. UnderWay(k)' = {s \in Req : verifying'[s] = k} /\ UnderWay(k) = {s \in Req : verifying[s] = k}
        BY <3>5 DEF UnderWay
      <4>2. verifying'[r] # k
        BY <2>1, <3>5
      <4>3. UnderWay(k)' \subseteq UnderWay(k)
        BY <2>1, <4>1, <4>2
      <4>4. Cardinality(UnderWay(k)') <= Cardinality(UnderWay(k)) /\ Cardinality(UnderWay(k)) \in Nat
        BY <4>3, UnderWayFinite, FS_Subset
      <4>5. Len(happened[k]) + Cardinality(UnderWay(k)) < Limit[k] + Cardinality(Req)
        BY <1>1, OvershootIs
      <4> QED BY <3>1, <3>3, <4>4, <4>5
    <3> QED BY <3>4, <3>5
  <2>6. Kept'
    BY <1>1, <1>5 DEF Kept
  <2> QED BY <2>4, <2>5, <2>6 DEF GuardInv
<1> QED BY <1>3, <1>4, <1>5 DEF Check

\* A key that is not of the two keys of a request does not see it.
LEMMA OtherKeys ==
  ASSUME Types, NEW r \in Req, verifying[r] # None, verifying' = [verifying EXCEPT ![r] = None]
  PROVE  /\ verifying[r] \in Login
         /\ \A k \in Key : UnderWay(k)' = UnderWay(k) \ (IF k \in {verifying[r], Address} THEN {r} ELSE {})
         /\ r \in UnderWay(verifying[r]) /\ r \in UnderWay(Address)
<1>1. verifying[r] \in Login /\ verifying'[r] = None /\ \A s \in Req \ {r} : verifying'[s] = verifying[s]
  BY DEF Types
<1>2. ASSUME NEW k \in Key PROVE UnderWay(k)' = UnderWay(k) \ (IF k \in {verifying[r], Address} THEN {r} ELSE {})
  <2>1. k # None
    BY GuardAssumption DEF Key
  <2> QED BY <1>1, <2>1 DEF UnderWay
<1>3. r \in UnderWay(verifying[r]) /\ r \in UnderWay(Address)
  BY <1>1 DEF UnderWay
<1> QED BY <1>1, <1>2, <1>3

LEMMA FailureKeeps ==
  ASSUME GuardInv, NEW r \in Req, Failure(r)
  PROVE  GuardInv'
<1> DEFINE keys == {verifying[r], Address}
           table == [k \in Key |-> IF k \in keys THEN Append(Pruned(fails[k]), now) ELSE fails[k]]
<1>1. Types /\ Counted /\ OvershootBounded /\ Kept /\ now \in Nat
  BY DEF GuardInv, Types
<1>2. /\ verifying[r] # None /\ now' = now
      /\ fails' = Cleaned(table)
      /\ happened' = [k \in Key |-> IF k \in keys THEN Append(happened[k], now) ELSE happened[k]]
      /\ promised' = [k \in Key |-> IF k \in keys THEN None ELSE promised[k]]
      /\ verifying' = [verifying EXCEPT ![r] = None]
  BY DEF Failure
<1>3. /\ verifying[r] \in Login
      /\ \A k \in Key : UnderWay(k)' = UnderWay(k) \ (IF k \in keys THEN {r} ELSE {})
      /\ \A k \in keys : r \in UnderWay(k)
  BY <1>1, <1>2, OtherKeys
<1> HIDE DEF table, keys
<1>4. DOMAIN table = Key /\ \A k \in Key : table[k] = IF k \in keys THEN Append(Pruned(fails[k]), now) ELSE fails[k]
  BY DEF table
<1>5. \A k \in Key : Append(Pruned(fails[k]), now) # None
  <2> SUFFICES ASSUME NEW k \in Key PROVE Append(Pruned(fails[k]), now) # None
    OBVIOUS
  <2>1. Append(Pruned(fails[k]), now) \in Seq(Nat)
    BY <1>1, PrunedTyped
  <2> QED BY <2>1, GuardAssumption
<1>6. ASSUME NEW k \in Key
      PROVE  /\ table[k] = None \/ Queue(table[k], now)
             /\ Pruned(table[k]) = happened'[k]
             /\ Queue(happened'[k], now) /\ Recent(happened'[k], now) = happened'[k]
  <2>1. happened[k] = Pruned(fails[k]) /\ Recent(happened[k], now) = happened[k] /\ Queue(happened[k], now) /\ happened[k] \in Seq(Nat)
    BY <1>1, PrunedTyped DEF Counted
  <2>2. CASE k \in keys
    <3>1. table[k] = Append(happened[k], now) /\ happened'[k] = Append(happened[k], now) /\ table[k] # None
      BY <1>2, <1>4, <1>5, <2>1, <2>2
    <3>2. Queue(Append(happened[k], now), now)
      BY <1>1, <2>1, QueueKept
    <3>3. Recent(Append(happened[k], now), now) = Append(happened[k], now)
      BY <1>1, <2>1, RecentAppended
    <3>4. Pruned(table[k]) = Recent(table[k], now)
      BY <3>1 DEF Pruned
    <3> QED BY <3>1, <3>2, <3>3, <3>4
  <2>3. CASE k \notin keys
    <3>1. table[k] = fails[k] /\ happened'[k] = happened[k]
      BY <1>2, <1>4, <2>3
    <3>2. Pruned(table[k]) = Pruned(fails[k])
      BY <3>1
    <3>3. fails[k] = None \/ Queue(fails[k], now)
      BY <1>1 DEF Types
    <3>4. Pruned(table[k]) = happened'[k]
      BY <2>1, <3>1, <3>2, Zenon
    <3> QED BY <2>1, <3>1, <3>3, <3>4
  <2> QED BY <2>2, <2>3
<1>7. /\ DOMAIN fails' = Key
      /\ \A k \in Key : /\ fails'[k] = None \/ Queue(fails'[k], now)
                       /\ Pruned(fails'[k]) = happened'[k]
  <2>1. \A k \in Key : table[k] = None \/ Queue(table[k], now)
    BY <1>6
  <2>2. /\ DOMAIN Cleaned(table) = Key
        /\ \A k \in Key : /\ Cleaned(table)[k] = None \/ Queue(Cleaned(table)[k], now)
                         /\ Pruned(Cleaned(table)[k]) = Pruned(table[k])
    BY <1>1, <1>4, <2>1, CleaningKeeps
  <2> QED BY <1>2, <1>6, <2>2, Zenon
<1>8. Types'
  <2>1. verifying' \in [Req -> Login \cup {None}] /\ promised' \in [Key -> Nat \cup {None}]
    BY <1>1, <1>2 DEF Types
  <2>2. DOMAIN happened' = Key
    BY <1>2
  <2> QED BY <1>1, <1>2, <1>6, <1>7, <2>1, <2>2 DEF Types
<1>9. Counted'
  <2>1. \A k \in Key : Pruned(fails[k])' = Pruned(fails'[k])
    BY <1>2 DEF Pruned
  <2> QED BY <1>2, <1>6, <1>7, <2>1 DEF Counted
<1>10. OvershootBounded'
  <2> SUFFICES ASSUME NEW k \in Key
               PROVE  Len(happened'[k]) + Cardinality(UnderWay(k)') < Limit[k] + Cardinality(Req)
    BY <1>9 DEF OvershootBounded, Counted
  <2>1. Len(happened[k]) + Cardinality(UnderWay(k)) < Limit[k] + Cardinality(Req)
    BY <1>1, OvershootIs
  <2>2. Len(happened[k]) \in Nat /\ happened[k] \in Seq(Nat) /\ Limit[k] \in Nat
    BY <1>1, Lengths
  <2>3. Cardinality(UnderWay(k)) \in Nat /\ Cardinality(Req) \in Nat /\ IsFiniteSet(UnderWay(k))
    BY UnderWayFinite
  <2>4. CASE k \in keys
    <3>1. Len(happened'[k]) = Len(happened[k]) + 1
      BY <1>1, <1>2, <2>2, <2>4
    <3>2. Cardinality(UnderWay(k)') = Cardinality(UnderWay(k)) - 1
      <4>1. UnderWay(k)' = UnderWay(k) \ {r} /\ r \in UnderWay(k)
        BY <1>3, <2>4
      <4> QED BY <2>3, <4>1, FS_RemoveElement
    <3> QED BY <2>1, <2>2, <2>3, <3>1, <3>2
  <2>5. CASE k \notin keys
    <3>1. happened'[k] = happened[k] /\ UnderWay(k)' = UnderWay(k)
      BY <1>2, <1>3, <2>5
    <3> QED BY <2>1, <3>1
  <2> QED BY <2>4, <2>5
<1>11. Kept'
  <2> SUFFICES ASSUME NEW k \in Key, promised'[k] # None
               PROVE  /\ Len(happened'[k]) <= Limit[k]
                      /\ Len(happened'[k]) = Limit[k] => promised'[k] > happened'[k][1] + Window
    BY DEF Kept
  <2>1. promised'[k] = promised[k] /\ happened'[k] = happened[k]
    BY <1>2
  <2> QED BY <1>1, <2>1 DEF Kept
<1> QED BY <1>8, <1>9, <1>10, <1>11 DEF GuardInv

LEMMA SuccessKeeps ==
  ASSUME GuardInv, NEW r \in Req, Success(r)
  PROVE  GuardInv'
<1>1. Types /\ Counted /\ OvershootBounded /\ Kept /\ now \in Nat
  BY DEF GuardInv, Types
<1>2. /\ verifying[r] # None /\ UNCHANGED <<now, promised>>
      /\ fails' = [k \in Key |-> IF k = verifying[r] THEN None ELSE fails[k]]
      /\ happened' = [happened EXCEPT ![verifying[r]] = <<>>]
      /\ verifying' = [verifying EXCEPT ![r] = None]
  BY DEF Success
<1>3. verifying[r] \in Login /\ \A k \in Key : UnderWay(k)' \subseteq UnderWay(k)
  BY <1>1, <1>2, OtherKeys
<1>4. DOMAIN happened' = Key /\ \A k \in Key : happened'[k] = IF k = verifying[r] THEN <<>> ELSE happened[k]
  BY <1>1, <1>2 DEF Types
<1>5. Queue(<<>>, now) /\ Recent(<<>>, now) = <<>>
  <2>1. Queue(<<>>, now)
    BY DEF Queue
  <2> QED BY <1>1, <2>1, ForgottenIsEmpty
<1>6. Types'
  <2>1. verifying' \in [Req -> Login \cup {None}]
    BY <1>1, <1>2 DEF Types
  <2> QED BY <1>1, <1>2, <1>4, <1>5, <2>1 DEF Types
<1>7. Counted'
  <2> SUFFICES ASSUME NEW k \in Key
               PROVE  Recent(happened'[k], now) = happened'[k] /\ Pruned(fails[k])' = happened'[k]
    BY <1>2 DEF Counted
  <2>1. CASE k = verifying[r]
    <3>1. fails'[k] = None /\ happened'[k] = <<>>
      BY <1>2, <1>4, <2>1
    <3> QED BY <1>5, <3>1 DEF Pruned
  <2>2. CASE k # verifying[r]
    <3>1. fails'[k] = fails[k] /\ happened'[k] = happened[k]
      BY <1>2, <1>4, <2>2
    <3> QED BY <1>1, <1>2, <3>1 DEF Counted, Pruned
  <2> QED BY <2>1, <2>2
<1>8. OvershootBounded'
  <2>1. \A k \in Key : Len(happened'[k]) <= Len(happened[k])
    <3> SUFFICES ASSUME NEW k \in Key PROVE Len(happened'[k]) <= Len(happened[k])
      OBVIOUS
    <3>1. Len(happened[k]) \in Nat /\ Len(<<>>) = 0
      BY <1>1, Lengths
    <3> QED BY <1>4, <3>1
  <2> QED BY <1>1, <1>3, <1>6, <1>7, <2>1, LeavingIsSafe
<1>9. Kept'
  <2> SUFFICES ASSUME NEW k \in Key, promised'[k] # None
               PROVE  /\ Len(happened'[k]) <= Limit[k]
                      /\ Len(happened'[k]) = Limit[k] => promised'[k] > happened'[k][1] + Window
    BY DEF Kept
  <2>1. Limit[k] \in Nat /\ Limit[k] >= 1
    BY <1>1, Lengths
  <2>2. CASE k = verifying[r]
    <3>1. Len(happened'[k]) = 0
      BY <1>4, <2>2
    <3> QED BY <2>1, <3>1
  <2>3. CASE k # verifying[r]
    BY <1>1, <1>2, <1>4, <2>3 DEF Kept
  <2> QED BY <2>2, <2>3
<1> QED BY <1>6, <1>7, <1>8, <1>9 DEF GuardInv

LEMMA NeitherKeeps ==
  ASSUME GuardInv, NEW r \in Req, Neither(r)
  PROVE  GuardInv'
<1>1. Types /\ Counted /\ OvershootBounded /\ Kept
  BY DEF GuardInv
<1>2. verifying[r] # None /\ verifying' = [verifying EXCEPT ![r] = None] /\ UNCHANGED <<now, fails, happened, promised>>
  BY DEF Neither
<1>3. Types'
  BY <1>1, <1>2 DEF Types
<1>4. Counted'
  BY <1>1, <1>2 DEF Counted, Pruned
<1>5. \A k \in Key : UnderWay(k)' \subseteq UnderWay(k)
  BY <1>1, <1>2, OtherKeys
<1>6. OvershootBounded'
  <2>1. \A k \in Key : Len(happened'[k]) <= Len(happened[k])
    BY <1>1, <1>2, Lengths
  <2> QED BY <1>1, <1>3, <1>4, <1>5, <2>1, LeavingIsSafe
<1>7. Kept'
  BY <1>1, <1>2 DEF Kept
<1> QED BY <1>3, <1>4, <1>6, <1>7 DEF GuardInv

-----------------------------------------------------------------------------
(* The theorems.                                                           *)

LEMMA GuardStep == GuardInv /\ [Next]_vars => GuardInv'
<1> SUFFICES ASSUME GuardInv, [Next]_vars PROVE GuardInv'
  OBVIOUS
<1>1. CASE Tick
  BY <1>1, TickKeeps
<1>2. CASE \E r \in Req : (\E l \in Login : Check(r, l)) \/ Failure(r) \/ Success(r) \/ Neither(r)
  BY <1>2, CheckKeeps, FailureKeeps, SuccessKeeps, NeitherKeeps
<1>3. CASE UNCHANGED vars
  <2>1. Types' /\ Kept'
    BY <1>3 DEF GuardInv, Types, Kept, vars
  <2>2. Counted' /\ OvershootBounded'
    BY <1>3 DEF GuardInv, Counted, Pruned, OvershootBounded, UnderWay, vars
  <2> QED BY <2>1, <2>2 DEF GuardInv
<1> QED BY <1>1, <1>2, <1>3 DEF Next

LEMMA GuardAlways == Spec => []GuardInv
BY GuardInit, GuardStep, PTL DEF Spec

\* For any number of logins and requests and whatever the limits, the window and
\* the size from which the table is cleaned: lazily expired, cleaned and reset,
\* the table of login_guard.py counts for a key exactly the answers 401 of the
\* window since the login's last success.
THEOREM CountsAreTrue == Spec => []CountsTrue
<1>1. GuardInv => CountsTrue
  BY DEF GuardInv, Counted, CountsTrue
<1> QED BY <1>1, GuardAlways, PTL

\* The requests whose password is being verified while a key closes are the only
\* ones by which its failures exceed the limit, all but one of those under way.
THEOREM OvershootIsBounded == Spec => []OvershootBounded
<1>1. GuardInv => OvershootBounded
  BY DEF GuardInv
<1> QED BY <1>1, GuardAlways, PTL

\* The minutes told with the answer 429 are enough: the key is open then.
THEOREM AdviceIsEnough == Spec => []AdviceSuffices
<1>1. GuardInv => AdviceSuffices
  <2> SUFFICES ASSUME GuardInv, NEW k \in Key, promised[k] # None, now >= promised[k]
               PROVE  ~Closed(k)
    BY DEF AdviceSuffices
  <2>1. Types /\ Counted /\ now \in Nat
    BY DEF GuardInv, Types
  <2>2. /\ Len(happened[k]) <= Limit[k]
        /\ Len(happened[k]) = Limit[k] => promised[k] > happened[k][1] + Window
    BY DEF GuardInv, Kept
  <2>3. happened[k] \in Seq(Nat) /\ Len(happened[k]) \in Nat /\ Limit[k] \in Nat /\ Limit[k] >= 1
    BY <2>1, Lengths
  <2>4. Len(happened[k]) # Limit[k]
    <3> SUFFICES ASSUME Len(happened[k]) = Limit[k] PROVE FALSE
      OBVIOUS
    <3>1. happened[k] # <<>> /\ happened[k][1] \in Nat
      BY <2>3
    <3>2. Within(happened[k][1], now)
      BY <2>1, <2>3, <3>1, RecentIs, Zenon DEF Counted
    <3>3. now > happened[k][1] + Window /\ promised[k] \in Nat /\ Window \in Nat
      BY <2>1, <2>2, <3>1, GuardAssumption DEF Types
    <3> QED BY <2>1, <3>1, <3>2, <3>3 DEF Within
  <2>5. ~(Len(happened[k]) >= Limit[k])
    BY <2>2, <2>3, <2>4
  <2> QED BY <2>1, <2>5, ClosedIs
<1> QED BY <1>1, GuardAlways, PTL
=============================================================================
