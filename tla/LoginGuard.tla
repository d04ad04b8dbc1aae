----------------------------- MODULE LoginGuard -----------------------------
(***************************************************************************)
(* The counters of failed sign-ins (login_guard.py) and the requests that   *)
(* use them (routers/auth_routes.py: auth_login), in one process of the API *)
(* and from one address: the counters of processes and of addresses have    *)
(* nothing in common.                                                       *)
(*                                                                          *)
(* check, record_failure and record_success run between two awaits, one     *)
(* action each; the password is verified in between.  A key of the table is *)
(* a login, or Address for all logins of the address together.              *)
(***************************************************************************)
EXTENDS Integers, Sequences, FiniteSets

CONSTANTS
  Login,   \* logins, case folded
  Address, \* the key of the address itself
  Req,     \* requests that the process can have under way at once
  Limit,   \* Limit[k]: the failures that close a key: max_per_login, max_per_ip
  Window,  \* window_seconds
  Minute,  \* the length of a minute, in the same unit
  MaxKeys, \* the number of keys above which the table is cleaned
  MaxTime, \* bound of the clock
  None     \* no key in the table, no request, no promise

Key == Login \cup {Address}

ASSUME GuardAssumption ==
  /\ Address \notin Login
  /\ Limit \in [Key -> Nat \ {0}] /\ Window \in Nat /\ Minute \in Nat \ {0}
  /\ MaxKeys \in Nat /\ MaxTime \in Nat /\ IsFiniteSet(Req)
  /\ None \notin Login /\ None # Address /\ None \notin Nat /\ None \notin Seq(Nat)

VARIABLES
  now,      \* time.monotonic
  fails,    \* _fails: the queue of a key, oldest failure first
  verifying,\* verifying[r]: the login whose password the request verifies
  happened, \* happened[k]: the times of the answers 401 that count for a key
  promised  \* promised[k]: when a refused client was told to come back

vars == <<now, fails, verifying, happened, promised>>

Within(t, time) == time - t <= Window

\* The place of the first element of a queue that has not expired, or the place
\* after its end.
First(q, time) ==
  CHOOSE i \in 1 .. Len(q) + 1 :
    /\ \A j \in 1 .. i - 1 : ~Within(q[j], time)
    /\ i <= Len(q) => Within(q[i], time)

\* _recent: the expired failures leave the queue from its front.
Recent(q, time) == SubSeq(q, First(q, time), Len(q))

Pruned(q) == IF q = None THEN <<>> ELSE Recent(q, now)

\* Mutant: the time that is left is rounded down.
AdviceDown(q) == IF Window - (now - q[1]) < Minute THEN 1 ELSE (Window - (now - q[1])) \div Minute

\* The minutes a refused client is told to wait, from the oldest failure.
Advice(q) == (Window - (now - q[1])) \div Minute + 1

-----------------------------------------------------------------------------

Init ==
  /\ now = 0
  /\ fails = [k \in Key |-> None]
  /\ verifying = [r \in Req |-> None]
  /\ happened = [k \in Key |-> <<>>]
  /\ promised = [k \in Key |-> None]

\* Time passes; what happened longer ago than the window counts for nothing.
Tick ==
  /\ now < MaxTime
  /\ now' = now + 1
  /\ happened' = [k \in Key |-> Recent(happened[k], now')]
  /\ UNCHANGED <<fails, verifying, promised>>

\* The answer 429: with no more failures than the limit and none to come, the
\* key is open when the minutes have passed.
Refuse(k) ==
  LET q == Pruned(fails[k])
  IN /\ promised' = [promised EXCEPT ![k] = IF Len(q) = Limit[k] THEN now + Advice(q) * Minute ELSE None]
     /\ UNCHANGED <<now, verifying, happened>>

\* Mutant: one failure more than the limit is let through.
ClosedLate(k) == Len(Pruned(fails[k])) > Limit[k]

Closed(k) == Len(Pruned(fails[k])) >= Limit[k]

\* check: the key of the login, then that of the address.
Check(r, l) ==
  /\ verifying[r] = None
  /\ \/ /\ Closed(l)
        /\ fails' = [fails EXCEPT ![l] = Pruned(@)]
        /\ Refuse(l)
     \/ /\ ~Closed(l)
        /\ fails' = [k \in Key |-> IF k \in {l, Address} THEN Pruned(fails[k]) ELSE fails[k]]
        /\ \/ Closed(Address) /\ Refuse(Address)
           \/ /\ ~Closed(Address)
              /\ verifying' = [verifying EXCEPT ![r] = l]
              /\ UNCHANGED <<now, happened, promised>>

\* Mutant: a key is forgotten when its oldest failure has expired.
ForgottenByOldest(q) == q = <<>> \/ ~Within(q[1], now)

\* A key without a recent failure.
Forgotten(q) == q = <<>> \/ ~Within(q[Len(q)], now)

\* More keys than MaxKeys: those without a recent failure go.
Cleaned(table) ==
  IF Cardinality({k \in Key : table[k] # None}) <= MaxKeys THEN table
  ELSE [k \in Key |-> IF table[k] # None /\ Forgotten(table[k]) THEN None ELSE table[k]]

\* record_failure, after an answer 401.
Failure(r) ==
  LET keys == {verifying[r], Address}
  IN /\ verifying[r] # None
     /\ fails' = Cleaned([k \in Key |-> IF k \in keys THEN Append(Pruned(fails[k]), now) ELSE fails[k]])
     /\ happened' = [k \in Key |-> IF k \in keys THEN Append(happened[k], now) ELSE happened[k]]
     /\ promised' = [k \in Key |-> IF k \in keys THEN None ELSE promised[k]]
     /\ verifying' = [verifying EXCEPT ![r] = None]
     /\ UNCHANGED now

\* record_success: the address keeps its failures.
Success(r) ==
  /\ verifying[r] # None
  /\ fails' = [k \in Key |-> IF k = verifying[r] THEN None ELSE fails[k]]
  /\ happened' = [happened EXCEPT ![verifying[r]] = <<>>]
  /\ verifying' = [verifying EXCEPT ![r] = None]
  /\ UNCHANGED <<now, promised>>

\* An answer 403 or 503, or a client that has gone: nothing is recorded.
Neither(r) ==
  /\ verifying[r] # None
  /\ verifying' = [verifying EXCEPT ![r] = None]
  /\ UNCHANGED <<now, fails, happened, promised>>

Next ==
  \/ Tick
  \/ \E r \in Req : \/ \E l \in Login : Check(r, l)
                    \/ Failure(r) \/ Success(r) \/ Neither(r)

Spec == Init /\ [][Next]_vars

-----------------------------------------------------------------------------

\* The table, expired lazily and cleaned when it is large, counts for every key
\* the answers 401 of the window since the login's last success, and no others.
CountsTrue == \A k \in Key : Pruned(fails[k]) = Recent(happened[k], now)

UnderWay(k) == {r \in Req : verifying[r] = k \/ (k = Address /\ verifying[r] # None)}

\* Requests that verify at the same time may fail after the limit is reached,
\* but no more of them than can be under way beside the one that reaches it.
OvershootBounded == \A k \in Key : Len(Recent(happened[k], now)) + Cardinality(UnderWay(k)) < Limit[k] + Cardinality(Req)

\* A client that was refused and waits as long as the answer said finds the key
\* open, if the limit had not been overshot and nobody has failed since.
AdviceSuffices == \A k \in Key : promised[k] # None /\ now >= promised[k] => ~Closed(k)
=============================================================================
