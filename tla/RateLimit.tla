------------------------------ MODULE RateLimit ------------------------------
(***************************************************************************)
(* The limiter in front of a GraphQL field (lib/graphql/RateLimit.ts): one *)
(* counter of one visitor and one field in Redis.  A request reads the     *)
(* counter, decides, and then writes it; the write also puts the expiry    *)
(* back to the whole window.  Requests of the visitor run in several       *)
(* workers at once.                                                        *)
(***************************************************************************)
EXTENDS Integers, FiniteSets

CONSTANTS
  Slots,   \* requests of the visitor that can be in flight at once
  Limit,   \* the decorator's max
  Window   \* the decorator's window, in ticks of the clock

LimiterAssumption ==
  /\ IsFiniteSet(Slots)
  /\ Limit \in Nat
  /\ Window \in Nat \ {0}

VARIABLES
  record,  \* the counter, 0 when Redis has no such key
  ttl,     \* ticks until the key expires
  pc,      \* what each request does next
  passed   \* history: fields resolved since the key was last missing

vars == <<record, ttl, pc, passed>>

Points == {"idle", "read", "incr", "set"}

Goto(s, point) == pc' = [pc EXCEPT ![s] = point]

Arrive(s) ==
  /\ pc[s] = "idle"
  /\ Goto(s, "read")
  /\ UNCHANGED <<record, ttl, passed>>

\* Slip: the comparison is off by one more.
ReadLate(s) ==
  /\ pc[s] = "read"
  /\ Goto(s, IF record = 0 THEN "set" ELSE IF record > Limit + 1 THEN "idle" ELSE "incr")
  /\ UNCHANGED <<record, ttl, passed>>

\* A refused request throws here and writes nothing.
Read(s) ==
  /\ pc[s] = "read"
  /\ \/ record = 0 /\ Goto(s, "set")
     \/ record > Limit /\ Goto(s, "idle")
     \/ record \in 1..Limit /\ Goto(s, "incr")
  /\ UNCHANGED <<record, ttl, passed>>

\* The counter may have gone since it was read: INCR then creates it.
Incr(s) ==
  /\ pc[s] = "incr"
  /\ Goto(s, "idle")
  /\ record' = record + 1
  /\ ttl' = Window
  /\ passed' = passed + 1

\* Slip: the first request does not count itself.
SetZero(s) ==
  /\ pc[s] = "set"
  /\ Goto(s, "idle")
  /\ record' = 0
  /\ ttl' = Window
  /\ passed' = passed + 1

\* The key may have come since it was read: SET then throws the count away.
Set(s) ==
  /\ pc[s] = "set"
  /\ Goto(s, "idle")
  /\ record' = 1
  /\ ttl' = Window
  /\ passed' = passed + 1

\* The worker died, or Redis did not answer: the field is not resolved.
Fail(s) ==
  /\ pc[s] # "idle"
  /\ Goto(s, "idle")
  /\ UNCHANGED <<record, ttl, passed>>

\* A second passes; Redis drops the key when its time is over.
Tick ==
  /\ record > 0
  /\ ttl' = ttl - 1
  /\ \/ /\ ttl > 1
        /\ UNCHANGED <<record, passed>>
     \/ /\ ttl = 1
        /\ record' = 0 /\ passed' = 0
  /\ UNCHANGED pc

Init ==
  /\ record = 0 /\ ttl = 0
  /\ pc = [s \in Slots |-> "idle"]
  /\ passed = 0

Step(s) == Read(s) \/ Incr(s) \/ Set(s)

Next == Tick \/ \E s \in Slots : Arrive(s) \/ Step(s) \/ Fail(s)

Spec == Init /\ [][Next]_vars

------------------------------------------------------------------------------
TypeOK ==
  /\ record \in Nat
  /\ ttl \in 0..Window
  /\ (record > 0) <=> (ttl > 0)
  /\ pc \in [Slots -> Points]
  /\ passed \in Nat

\* However the requests of one visitor overlap, the limit is weakened by a bounded
\* amount and never switched off.  One request at a time: Limit + 1 pass between two
\* moments without a counter, since the counter is compared before it is incremented and
\* with ">".  With n at once, each of them may have read the missing counter and throw
\* the count away later, and after the k-th time k of them can read the counter
\* before the others write it: the sum of Limit + k for k up to n, and no more.
Bounded ==
  LET n == Cardinality(Slots) IN 2 * passed <= n * (2 * Limit + n + 1)

==============================================================================
