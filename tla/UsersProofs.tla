---------------------------- MODULE UsersProofs ----------------------------
(***************************************************************************)
(* What MCUsers checks on small instances of RateLimit, Notes, Cluster and *)
(* Presence, for every number of visitors, editors, saves, workers,        *)
(* restarts, connections and sockets:                                      *)
(*   LimitHolds             the bound of the limiter                       *)
(*   VersionsKeepTheirPace  the versions of a note                         *)
(*   EditorsAgree           what editors show when nothing is on its way   *)
(*   WorkersAreKept         how many workers there are, and one main one   *)
(*   PresenceIsKept         the devices, the connections and the status    *)
(***************************************************************************)
EXTENDS MCUsers, SequenceTheorems, FiniteSetTheorems, WellFoundedInduction, TLAPS

-----------------------------------------------------------------------------
(* The limiter.                                                            *)

\* The requests that will not throw the count away, and those that will raise it.
Keeping(p) == {s \in Slots : p[s] # "set"}
Raising(p) == {s \in Slots : p[s] = "incr"}
Keepers(p) == Cardinality(Keeping(p))
Raised(p) == Cardinality(Raising(p))

\* What earlier runs of the counter can have let through when m requests no longer hold
\* a missing counter, doubled.
Earlier(m) == (m - 1) * (2 * Limit + m)

\* While there is a counter: it and those about to raise it stay under the limit by the
\* requests that could read it at once, and all but the counter's own count passed in
\* the runs that a write of 1 ended.
Tally ==
  /\ record = 0 => passed = 0
  /\ record > 0 =>
       /\ Keepers(pc) >= 1
       /\ record + Raised(pc) <= Limit + Keepers(pc)
       /\ 2 * (passed - record) <= Earlier(Keepers(pc))

Inv == R!TypeOK /\ Tally

\* The instance counts as we do.
LEMMA SlotsCount == R!Cardinality(Slots) = Cardinality(Slots)
  BY DEF R!Cardinality, Cardinality

LEMMA Sizes ==
  ASSUME R!LimiterAssumption, NEW p
  PROVE  /\ IsFiniteSet(Keeping(p)) /\ IsFiniteSet(Raising(p))
         /\ Keepers(p) \in Nat /\ Raised(p) \in Nat /\ Cardinality(Slots) \in Nat
         /\ Raised(p) <= Keepers(p) /\ Keepers(p) <= Cardinality(Slots)
<1>1. IsFiniteSet(Slots)
  BY DEF R!LimiterAssumption, R!IsFiniteSet, IsFiniteSet
<1>2. Keeping(p) \subseteq Slots /\ Raising(p) \subseteq Keeping(p)
  BY DEF Keeping, Raising
<1>3. IsFiniteSet(Keeping(p)) /\ Keepers(p) <= Cardinality(Slots)
  BY <1>1, <1>2, FS_Subset DEF Keepers
<1>4. IsFiniteSet(Raising(p)) /\ Raised(p) <= Keepers(p)
  BY <1>2, <1>3, FS_Subset DEF Keepers, Raised
<1>5. QED
  BY <1>1, <1>3, <1>4, FS_CardinalityType DEF Keepers, Raised

\* What a slot's move does to the two counts.
LEMMA Leaves ==
  ASSUME R!LimiterAssumption, R!TypeOK, NEW s \in Slots, NEW point \in R!Points \ {"set", "incr"},
         R!Goto(s, point)
  PROVE  /\ pc[s] = "set" => Keepers(pc') = Keepers(pc) + 1 /\ Raised(pc') = Raised(pc)
         /\ pc[s] = "incr" => Keepers(pc') = Keepers(pc) /\ Raised(pc') = Raised(pc) - 1
         /\ pc[s] \in {"idle", "read"} => Keepers(pc') = Keepers(pc) /\ Raised(pc') = Raised(pc)
<1>1. pc \in [Slots -> R!Points] /\ pc' = [pc EXCEPT ![s] = point]
  BY DEF R!TypeOK, R!Goto
<1>2. IsFiniteSet(Keeping(pc)) /\ IsFiniteSet(Raising(pc)) /\ Keepers(pc) \in Nat /\ Raised(pc) \in Nat
  BY Sizes
<1>3. ASSUME pc[s] = "set" PROVE Keepers(pc') = Keepers(pc) + 1 /\ Raised(pc') = Raised(pc)
  <2>1. Keeping(pc') = Keeping(pc) \cup {s} /\ s \notin Keeping(pc) /\ Raising(pc') = Raising(pc)
    BY <1>1, <1>3 DEF Keeping, Raising, R!Points
  <2>2. QED
    BY <2>1, <1>2, FS_AddElement DEF Keepers, Raised
<1>4. ASSUME pc[s] = "incr" PROVE Keepers(pc') = Keepers(pc) /\ Raised(pc') = Raised(pc) - 1
  <2>1. Keeping(pc') = Keeping(pc) /\ Raising(pc') = Raising(pc) \ {s} /\ s \in Raising(pc)
    BY <1>1, <1>4 DEF Keeping, Raising, R!Points
  <2>2. QED
    BY <2>1, <1>2, FS_RemoveElement DEF Keepers, Raised
<1>5. ASSUME pc[s] \in {"idle", "read"} PROVE Keepers(pc') = Keepers(pc) /\ Raised(pc') = Raised(pc)
  <2>1. Keeping(pc') = Keeping(pc) /\ Raising(pc') = Raising(pc)
    BY <1>1, <1>5 DEF Keeping, Raising, R!Points
  <2>2. QED
    BY <2>1 DEF Keepers, Raised
<1>6. QED
  BY <1>3, <1>4, <1>5

\* A run that a write of 1 ends adds to the account of the earlier runs.
LEMMA NextRun ==
  ASSUME R!LimiterAssumption, NEW m \in Nat \ {0}, NEW r \in Nat, NEW p \in Nat, r <= Limit + m,
         2 * (p - r) <= Earlier(m)
  PROVE  2 * p <= Earlier(m + 1)
<1>1. Limit \in Nat
  BY DEF R!LimiterAssumption
<1>2. Earlier(m + 1) = Earlier(m) + 2 * (Limit + m)
  BY <1>1 DEF Earlier
<1>3. Earlier(m) \in Int
  BY <1>1 DEF Earlier
<1>4. QED
  BY <1>1, <1>2, <1>3

LEMMA Grows ==
  ASSUME R!LimiterAssumption, NEW m \in Nat \ {0}, NEW n \in Nat, m <= n
  PROVE  /\ 0 <= Earlier(m)
         /\ Earlier(m) <= Earlier(n)
<1>1. Limit \in Nat
  BY DEF R!LimiterAssumption
<1>2. PICK k \in Nat : n = m + k
  BY DEF Earlier
<1>3. Earlier(n) = Earlier(m) + k * (2 * Limit + m + k) + (m - 1) * k
  BY <1>1, <1>2 DEF Earlier
<1>4. /\ k * (2 * Limit + m + k) \in Nat /\ (m - 1) * k \in Nat
      /\ (m - 1) * (2 * Limit + m) \in Nat
  BY <1>1
<1>5. QED
  BY <1>3, <1>4 DEF Earlier

-----------------------------------------------------------------------------
LEMMA InitInv ==
  ASSUME R!LimiterAssumption PROVE R!Init => Inv
  BY DEF R!Init, Inv, R!TypeOK, Tally, R!Points, R!LimiterAssumption

LEMMA TypeStep ==
  ASSUME R!LimiterAssumption PROVE R!TypeOK /\ [R!Next]_(R!vars) => R!TypeOK'
<1>1. SUFFICES ASSUME R!TypeOK, [R!Next]_(R!vars) PROVE R!TypeOK'
  OBVIOUS
<1>2. Window \in Nat \ {0} /\ Limit \in Nat
  BY DEF R!LimiterAssumption
<1>3. CASE R!Tick
  BY <1>1, <1>2, <1>3 DEF R!Tick, R!TypeOK
<1>4. ASSUME NEW s \in Slots, R!Arrive(s) \/ R!Read(s) \/ R!Fail(s) PROVE R!TypeOK'
  BY <1>1, <1>2, <1>4 DEF R!Arrive, R!Read, R!Fail, R!Goto, R!TypeOK, R!Points
<1>5. ASSUME NEW s \in Slots, R!Incr(s) \/ R!Set(s) PROVE R!TypeOK'
  BY <1>1, <1>2, <1>5 DEF R!Incr, R!Set, R!Goto, R!TypeOK, R!Points
<1>6. CASE UNCHANGED R!vars
  BY <1>1, <1>6 DEF R!vars, R!TypeOK
<1>7. QED
  BY <1>1, <1>3, <1>4, <1>5, <1>6 DEF R!Next, R!Step

LEMMA TallyStep ==
  ASSUME R!LimiterAssumption PROVE Inv /\ [R!Next]_(R!vars) => Tally'
<1>1. SUFFICES ASSUME R!TypeOK, Tally, R!TypeOK', [R!Next]_(R!vars) PROVE Tally'
  BY TypeStep DEF Inv
<1>2. Limit \in Nat /\ record \in Nat /\ passed \in Nat
  BY <1>1 DEF R!TypeOK, R!LimiterAssumption
<1>0. pc \in [Slots -> R!Points]
  BY <1>1 DEF R!TypeOK
<1>3. Keepers(pc) \in Nat /\ Raised(pc) \in Nat /\ Raised(pc) <= Keepers(pc)
  BY Sizes
<1>4. Keepers(pc') \in Nat /\ Raised(pc') \in Nat /\ Raised(pc') <= Keepers(pc')
  BY Sizes
<1>5. Earlier(Keepers(pc)) \in Int
  BY <1>2, <1>3 DEF Earlier
<1>6. CASE UNCHANGED R!vars
  BY <1>1, <1>6 DEF R!vars, Tally, Keepers, Raised, Keeping, Raising, Earlier
<1>7. CASE R!Tick
  <2>1. Keepers(pc') = Keepers(pc) /\ Raised(pc') = Raised(pc)
    BY <1>7 DEF R!Tick, Keepers, Raised, Keeping, Raising
  <2>2. CASE ttl > 1 /\ UNCHANGED <<record, passed>>
    BY <1>1, <2>1, <2>2 DEF Tally, Earlier
  <2>3. CASE record' = 0 /\ passed' = 0
    BY <2>3 DEF Tally
  <2>4. QED
    BY <1>7, <2>2, <2>3 DEF R!Tick
<1>8. ASSUME NEW s \in Slots, R!Arrive(s) PROVE Tally'
  <2>1. Keepers(pc') = Keepers(pc) /\ Raised(pc') = Raised(pc)
    BY <1>1, <1>8, Leaves DEF R!Arrive, R!Points
  <2>2. QED
    BY <1>1, <1>8, <2>1 DEF Tally, R!Arrive, Earlier
<1>9. ASSUME NEW s \in Slots, R!Read(s) PROVE Tally'
  <2>1. record' = record /\ passed' = passed
    BY <1>9 DEF R!Read
  <2>2. CASE record = 0
    BY <1>1, <2>1, <2>2 DEF Tally
  <2>3. CASE record > Limit
    <3>1. R!Goto(s, "idle") /\ pc[s] = "read"
      BY <1>2, <1>9, <2>3 DEF R!Read
    <3>2. Keepers(pc') = Keepers(pc) /\ Raised(pc') = Raised(pc)
      BY <1>1, <3>1, Leaves DEF R!Points
    <3>3. QED
      BY <1>1, <2>1, <3>2 DEF Tally, Earlier
  <2>4. CASE record > 0 /\ record <= Limit
    <3>1. pc' = [pc EXCEPT ![s] = "incr"] /\ pc[s] = "read"
      BY <1>2, <1>9, <2>4 DEF R!Read, R!Goto
    <3>2. Keeping(pc') = Keeping(pc)
      BY <1>0, <3>1 DEF Keeping
    <3>3. Keepers(pc') = Keepers(pc)
      BY <3>2 DEF Keepers
    <3>4. record + Raised(pc') <= Limit + Keepers(pc)
      <4>1. Raised(pc') \in Nat /\ Raised(pc') <= Keepers(pc)
        BY <1>4, <3>3
      <4>2. QED
        BY <1>2, <1>3, <2>4, <4>1
    <3>5. QED
      BY <1>1, <2>1, <2>4, <3>3, <3>4 DEF Tally, Earlier
  <2>5. QED
    BY <1>2, <2>2, <2>3, <2>4
<1>10. ASSUME NEW s \in Slots, R!Incr(s) PROVE Tally'
  <2>1. record' = record + 1 /\ passed' = passed + 1 /\ pc[s] = "incr" /\ R!Goto(s, "idle")
    BY <1>10 DEF R!Incr
  <2>2. Keepers(pc') = Keepers(pc) /\ Raised(pc') = Raised(pc) - 1
    BY <1>1, <2>1, Leaves DEF R!Points
  <2>3. Keepers(pc) >= 1
    BY <1>3, <1>4, <2>2
  <2>4. record' + Raised(pc') <= Limit + Keepers(pc)
    BY <1>1, <1>2, <1>3, <2>1, <2>2 DEF Tally
  <2>5. passed' - record' = passed - record
    BY <1>2, <2>1
  <2>6. 2 * (passed - record) <= Earlier(Keepers(pc))
    <3>1. CASE record = 0
      <4>1. passed = 0 /\ 0 <= Earlier(Keepers(pc))
        BY <1>1, <1>3, <2>3, <3>1, Grows DEF Tally
      <4>2. QED
        BY <3>1, <4>1
    <3>2. CASE record > 0
      BY <1>1, <3>2 DEF Tally
    <3>3. QED
      BY <1>2, <3>1, <3>2
  <2>7. record' > 0
    BY <1>2, <2>1
  <2>8. Earlier(Keepers(pc))' = Earlier(Keepers(pc))
    BY <2>2 DEF Earlier
  <2>9. QED
    BY <2>2, <2>3, <2>4, <2>5, <2>6, <2>7, <2>8 DEF Tally
<1>11. ASSUME NEW s \in Slots, R!Set(s) PROVE Tally'
  <2>1. record' = 1 /\ passed' = passed + 1 /\ pc[s] = "set" /\ R!Goto(s, "idle")
    BY <1>11 DEF R!Set
  <2>2. Keepers(pc') = Keepers(pc) + 1 /\ Raised(pc') = Raised(pc)
    BY <1>1, <2>1, Leaves DEF R!Points
  <2>3. Keepers(pc') >= 1 /\ record' + Raised(pc') <= Limit + Keepers(pc')
    BY <1>2, <1>3, <2>1, <2>2
  <2>4. passed' - record' = passed
    BY <1>2, <2>1
  <2>5. 2 * passed <= Earlier(Keepers(pc'))
    <3>1. CASE record = 0
      <4>1. passed = 0 /\ 0 <= Earlier(Keepers(pc'))
        BY <1>1, <1>4, <2>3, <3>1, Grows DEF Tally
      <4>2. QED
        BY <4>1
    <3>2. CASE record > 0
      <4>1. Keepers(pc) >= 1 /\ record <= Limit + Keepers(pc) /\ 2 * (passed - record) <= Earlier(Keepers(pc))
        BY <1>1, <1>2, <1>3, <3>2 DEF Tally
      <4>2. QED
        BY <1>2, <1>3, <2>2, <4>1, NextRun
    <3>3. QED
      BY <1>2, <3>1, <3>2
  <2>6. Earlier(Keepers(pc))' = Earlier(Keepers(pc'))
    BY DEF Earlier
  <2>7. QED
    BY <2>1, <2>3, <2>4, <2>5, <2>6 DEF Tally
<1>12. ASSUME NEW s \in Slots, R!Fail(s) PROVE Tally'
  <2>1. record' = record /\ passed' = passed /\ R!Goto(s, "idle")
    BY <1>12 DEF R!Fail
  <2>2. /\ pc[s] = "set" => Keepers(pc') = Keepers(pc) + 1 /\ Raised(pc') = Raised(pc)
        /\ pc[s] = "incr" => Keepers(pc') = Keepers(pc) /\ Raised(pc') = Raised(pc) - 1
        /\ pc[s] \in {"idle", "read"} => Keepers(pc') = Keepers(pc) /\ Raised(pc') = Raised(pc)
    BY <1>1, <2>1, Leaves DEF R!Points
  <2>3. Keepers(pc) <= Keepers(pc') /\ Raised(pc') - Raised(pc) <= Keepers(pc') - Keepers(pc)
    BY <1>0, <1>3, <1>12, <2>2 DEF R!Points, R!Fail
  <2>4. CASE record = 0
    BY <1>1, <2>1, <2>4 DEF Tally
  <2>5. CASE record > 0
    <3>1. /\ Keepers(pc) >= 1 /\ record + Raised(pc) <= Limit + Keepers(pc)
          /\ 2 * (passed - record) <= Earlier(Keepers(pc))
      BY <1>1, <2>5 DEF Tally
    <3>2. Keepers(pc') >= 1 /\ record' + Raised(pc') <= Limit + Keepers(pc')
      BY <1>2, <1>3, <1>4, <2>1, <2>3, <3>1
    <3>3. Earlier(Keepers(pc)) <= Earlier(Keepers(pc')) /\ Earlier(Keepers(pc')) \in Int
      BY <1>2, <1>3, <1>4, <2>3, <3>1, Grows DEF Earlier
    <3>4. 2 * (passed' - record') <= Earlier(Keepers(pc'))
      BY <1>2, <1>5, <2>1, <3>1, <3>3
    <3>5. Earlier(Keepers(pc))' = Earlier(Keepers(pc'))
      BY DEF Earlier
    <3>6. QED
      BY <2>1, <2>5, <3>2, <3>4, <3>5 DEF Tally
  <2>6. QED
    BY <1>2, <2>4, <2>5
<1>13. QED
  BY <1>1, <1>6, <1>7, <1>8, <1>9, <1>10, <1>11, <1>12 DEF R!Next, R!Step

LEMMA InvGivesBounded ==
  ASSUME R!LimiterAssumption PROVE Inv => R!Bounded
<1>1. SUFFICES ASSUME Inv PROVE R!Bounded
  OBVIOUS
<1>2. /\ Limit \in Nat /\ record \in Nat /\ passed \in Nat
      /\ Keepers(pc) \in Nat /\ Raised(pc) \in Nat /\ Cardinality(Slots) \in Nat
      /\ Keepers(pc) <= Cardinality(Slots)
  BY <1>1, Sizes DEF Inv, R!TypeOK, R!LimiterAssumption
<1>3. DEFINE n == Cardinality(Slots)
<1>4. Earlier(n + 1) = n * (2 * Limit + n + 1)
  BY <1>2 DEF Earlier
<1>5. CASE record = 0
  <2>1. passed = 0
    BY <1>1, <1>5 DEF Inv, Tally
  <2>2. n * (2 * Limit + n + 1) \in Nat
    BY <1>2
  <2>3. QED
    BY <2>1, <2>2, SlotsCount DEF R!Bounded
<1>6. CASE record > 0
  <2>1. Keepers(pc) >= 1 /\ record <= Limit + Keepers(pc) /\ 2 * (passed - record) <= Earlier(Keepers(pc))
    BY <1>1, <1>2, <1>6 DEF Inv, Tally
  <2>2. 2 * passed <= Earlier(Keepers(pc) + 1)
    BY <1>2, <2>1, NextRun
  <2>3. Earlier(Keepers(pc) + 1) <= Earlier(n + 1)
    BY <1>2, Grows
  <2>4. Earlier(Keepers(pc) + 1) \in Int /\ Earlier(n + 1) \in Int
    BY <1>2 DEF Earlier
  <2>5. QED
    BY <1>2, <1>4, <2>2, <2>3, <2>4, SlotsCount DEF R!Bounded
<1>7. QED
  BY <1>2, <1>5, <1>6

\* Whatever the number of workers that serve one visitor, and wherever a request fails,
\* the limiter lets through at most the sum of Limit + k for k up to that number
\* before the counter has expired.
THEOREM LimitHolds == ASSUME R!LimiterAssumption PROVE R!Spec => []Bounded
<1>1. R!Init => Inv
  BY InitInv
<1>2. Inv /\ [R!Next]_(R!vars) => Inv'
  BY TypeStep, TallyStep DEF Inv
<1>3. Inv => Bounded
  BY InvGivesBounded DEF Bounded
<1> QED
  BY <1>1, <1>2, <1>3, PTL DEF R!Spec

-----------------------------------------------------------------------------
(* Numbers.                                                                *)

\* A set of naturals has a least member, and a bounded one a greatest.
LEMMA Smallest ==
  ASSUME NEW T \in SUBSET Nat, T # {}
  PROVE  \E x \in T : \A y \in T : x <= y
<1> DEFINE Less == OpToRel(<, Nat)
<1>1. IsWellFoundedOn(Less, Nat)
  BY NatLessThanWellFounded
<1>2. \A x, y \in Nat : <<y, x>> \in Less <=> y < x
  BY DEF OpToRel
<1> HIDE DEF Less
<1>3. PICK x \in T : \A y \in T : ~(<<y, x>> \in Less)
  BY <1>1, WFMin
<1>4. ASSUME NEW y \in T PROVE x <= y
  <2>1. x \in Nat /\ y \in Nat /\ <<y, x>> \notin Less
    BY <1>3
  <2> QED
    BY <1>2, <2>1
<1> QED
  BY <1>4

LEMMA Largest ==
  ASSUME NEW n \in Nat, NEW S \in SUBSET (0 .. n), S # {}
  PROVE  \E x \in S : \A y \in S : y <= x
<1> DEFINE T == {k \in Nat : \E x \in S : k = n - x}
<1>1. PICK z \in S : TRUE
  OBVIOUS
<1>2. T # {} /\ T \in SUBSET Nat
  <2>1. n - z \in T
    OBVIOUS
  <2> QED
    BY <2>1
<1>3. PICK k \in T : \A m \in T : k <= m
  <2> HIDE DEF T
  <2> QED
    BY <1>2, Smallest
<1>4. PICK x \in S : k = n - x
  BY <1>3
<1>5. ASSUME NEW y \in S PROVE y <= x
  <2>1. n - y \in T
    OBVIOUS
  <2> HIDE DEF T
  <2>2. k <= n - y
    BY <1>3, <2>1
  <2> QED
    BY <1>4, <2>2
<1> QED
  BY <1>5

\* Euclid's division, and what it says of the ids.
Splits(n, d, q, r) == n = d * q + r

LEMMA Division ==
  ASSUME NEW n \in Nat, NEW d \in Nat \ {0}
  PROVE  \E q \in Nat, r \in 0 .. (d - 1) : Splits(n, d, q, r) /\ q = n \div d /\ r = n % d
  BY Z3 DEF Splits

LEMMA Remainder ==
  ASSUME NEW n \in Nat, NEW d \in Nat \ {0}, NEW q \in Nat, NEW r \in 0 .. (d - 1), Splits(n, d, q, r)
  PROVE  n % d = r
  BY SMT DEF Splits

LEMMA SameRemainder ==
  ASSUME NEW n \in Nat, NEW d \in Nat \ {0} PROVE (n + d) % d = n % d
<1>1. PICK q \in Nat, r \in 0 .. (d - 1) : Splits(n, d, q, r) /\ r = n % d
  BY Division
<1>2. Splits(n + d, d, q + 1, r) /\ q + 1 \in Nat /\ n + d \in Nat
  BY <1>1 DEF Splits
<1> QED
  BY <1>1, <1>2, Remainder

-----------------------------------------------------------------------------
(* The notes.                                                              *)

Calls == [pc : {"idle", "read", "check", "keep", "store"}, by : {N!Never} \cup Editors, text : Nat,
          manual : BOOLEAN, last : {N!Never} \cup N!Times, at : {N!Never} \cup N!Times, id : Nat]

NoteTypes ==
  /\ time \in N!Times /\ note \in Nat /\ changes \in Nat /\ saves \in Nat
  /\ versions \subseteq [at : N!Times, text : Nat, id : Nat]
  /\ job \in [NoteSlots -> Calls]
  /\ shown \in [Editors -> Nat] /\ changed \in [Editors -> BOOLEAN]

\* A version that is not newer than t, and not too old.
Near(t) == \E v \in versions : v.at <= t /\ t - v.at <= AutoAge

Deciding(j) == j.pc \in {"check", "keep"}

\* What a save has read of the versions still holds, but for its twins.
Informed(j) ==
  /\ j.at <= time
  /\ j.pc = "check" /\ j.last # N!Never => \E v \in versions : v.at = j.last
  /\ j.pc = "keep" => j.at # N!Never
  /\ j.pc = "store" /\ j.at # N!Never => Near(j.at)
  /\ Deciding(j) /\ j.id \notin twins =>
       /\ \A v \in versions : v.id \notin twins => j.last # N!Never /\ v.at <= j.last
       /\ j.pc = "keep" /\ j.last # N!Never => j.at - j.last > Manual

OnlyOneDecides == \A r, s \in NoteSlots :
  Deciding(job[r]) /\ Deciding(job[s]) /\ job[r].id \notin twins /\ job[s].id \notin twins => r = s

\* No text is from the future, and a call that is over is no one's.
Past ==
  /\ note <= changes
  /\ \A c \in Editors : shown[c] <= changes
  /\ \A s \in NoteSlots : job[s].text <= changes /\ (job[s].pc = "idle" => job[s].by = N!Never)
  /\ \A v \in versions : v.at <= time /\ v.text <= changes

\* An editor that is not behind: its own save is the only one in flight.
Ahead(c) ==
  /\ N!InFlight = {} => changed[c] \/ shown[c] = note
  /\ \A s \in NoteSlots : job[s].pc # "idle" =>
       /\ job[s].by = c /\ N!InFlight = {s}
       /\ job[s].text = shown[c] \/ (changed[c] /\ note # shown[c])

NoteInv ==
  /\ NoteTypes /\ Past /\ N!VersionsAreSpaced /\ OnlyOneDecides
  /\ \A s \in NoteSlots : Informed(job[s])
  /\ \A c \in Editors : c \in behind \/ Ahead(c)


LEMMA LatestIsLatest ==
  ASSUME N!NotesAssumption, NoteTypes, versions # {}
  PROVE  N!Latest \in N!Times /\ (\E v \in versions : v.at = N!Latest)
         /\ \A v \in versions : v.at <= N!Latest
<1> DEFINE S == {v.at : v \in versions}
<1>1. S \in SUBSET (0 .. MaxTime) /\ S # {} /\ MaxTime \in Nat
  BY DEF NoteTypes, N!Times, N!NotesAssumption
<1>2. \E x \in S : \A y \in S : y <= x
  BY <1>1, Largest
<1>3. N!Latest = CHOOSE x \in S : \A y \in S : x >= y
  BY DEF N!Latest, N!Max
<1>4. \E x \in S : \A y \in S : x >= y
  BY <1>1, <1>2
<1>5. N!Latest \in S /\ \A y \in S : N!Latest >= y
  BY <1>3, <1>4
<1> QED
  BY <1>1, <1>5 DEF N!Times

\* What happens in an editor does not touch the versions.
LEMMA ServerRests ==
  ASSUME N!NotesAssumption, NoteInv, NoteTypes', Past', UNCHANGED <<versions, done, twins>>,
         time' >= time,
         \A s \in NoteSlots : \/ job'[s] = job[s]
                              \/ ~Deciding(job'[s]) /\ job'[s].at = N!Never
  PROVE  N!VersionsAreSpaced' /\ OnlyOneDecides' /\ \A s \in NoteSlots : Informed(job[s])'
<1>1. N!VersionsAreSpaced'
  BY DEF NoteInv, N!VersionsAreSpaced, N!VersionsKeepUp, N!VersionsApart
<1>2. OnlyOneDecides'
  BY DEF NoteInv, OnlyOneDecides
<1>3. ASSUME NEW s \in NoteSlots PROVE Informed(job[s])'
  <2>1. time \in Nat /\ time' \in Nat
    BY DEF NoteInv, NoteTypes, N!NotesAssumption, N!Times
  <2>2. CASE job'[s] = job[s]
    <3>1. job[s].at <= time' /\ Informed(job[s])
      BY <2>1 DEF NoteInv, Informed, NoteTypes, Calls, N!Never, N!Times
    <3> QED
      BY <2>2, <3>1 DEF Informed, Near
  <2>3. CASE ~Deciding(job'[s]) /\ job'[s].at = N!Never
    BY <2>1, <2>3 DEF Informed, Deciding, N!Never
  <2> QED
    BY <2>2, <2>3
<1> QED
  BY <1>1, <1>2, <1>3

\* A step of an editor: what it may do with the calls and the notes.
LEMMA EditorsKeep ==
  ASSUME N!NotesAssumption, NoteInv, NoteTypes', Past', UNCHANGED <<versions, done, twins>>,
         time' >= time,
         \A s \in NoteSlots : job'[s] = job[s] \/ (~Deciding(job'[s]) /\ job'[s].at = N!Never),
         \A c \in Editors : c \in behind' \/ Ahead(c)'
  PROVE  NoteInv'
  BY ServerRests DEF NoteInv

LEMMA ChangeKeeps ==
  ASSUME N!NotesAssumption, NoteInv, NEW c \in Editors, N!Change(c) PROVE NoteInv'
<1>1. /\ changes' = changes + 1 /\ shown' = [shown EXCEPT ![c] = changes + 1]
      /\ changed' = [changed EXCEPT ![c] = TRUE]
      /\ UNCHANGED <<time, note, versions, job, saves, behind, done, twins>>
  BY DEF N!Change, N!server, N!history
<1>2. NoteTypes'
  BY <1>1 DEF NoteInv, NoteTypes
<1>3. Past'
  BY <1>1, <1>2 DEF NoteInv, NoteTypes, Past, Calls
<1>4. ASSUME NEW d \in Editors, d \notin behind PROVE Ahead(d)'
  <2>1. Ahead(d) /\ N!InFlight' = N!InFlight
    BY <1>1, <1>4 DEF NoteInv, N!InFlight
  <2>2. CASE d = c
    <3>1. changed'[d] /\ shown'[d] = changes + 1 /\ note # changes + 1
      BY <1>1, <2>2 DEF NoteInv, NoteTypes, Past
    <3> QED
      BY <1>1, <2>1, <3>1 DEF Ahead
  <2>3. CASE d # c
    <3>1. changed'[d] = changed[d] /\ shown'[d] = shown[d]
      BY <1>1, <2>3 DEF NoteInv, NoteTypes
    <3> QED
      BY <1>1, <2>1, <3>1 DEF Ahead
  <2> QED
    BY <2>2, <2>3
<1>5. time' >= time
  BY <1>1 DEF NoteInv, NoteTypes, N!Times, N!NotesAssumption
<1> QED
  BY <1>1, <1>2, <1>3, <1>4, <1>5, EditorsKeep

LEMMA OpenKeeps ==
  ASSUME N!NotesAssumption, NoteInv, NEW c \in Editors, N!Open(c) PROVE NoteInv'
<1>1. /\ shown' = [shown EXCEPT ![c] = note]
      /\ behind' = IF N!InFlight = {} THEN behind \ {c} ELSE behind \cup {c}
      /\ UNCHANGED <<time, note, versions, job, changed, changes, saves, done, twins>>
  BY DEF N!Open, N!server
<1>2. NoteTypes'
  BY <1>1 DEF NoteInv, NoteTypes
<1>3. Past'
  BY <1>1, <1>2 DEF NoteInv, NoteTypes, Past
<1>4. ASSUME NEW d \in Editors, d \notin behind' PROVE Ahead(d)'
  <2>1. N!InFlight' = N!InFlight
    BY <1>1 DEF N!InFlight
  <2>2. CASE d = c
    <3>1. N!InFlight = {} /\ shown'[d] = note
      BY <1>1, <1>4, <2>2 DEF NoteInv, NoteTypes
    <3> QED
      BY <1>1, <2>1, <3>1 DEF Ahead, N!InFlight
  <2>3. CASE d # c
    <3>1. Ahead(d) /\ shown'[d] = shown[d]
      BY <1>1, <1>4, <2>3 DEF NoteInv, NoteTypes
    <3> QED
      BY <1>1, <2>1, <3>1 DEF Ahead
  <2> QED
    BY <2>2, <2>3
<1>5. time' >= time
  BY <1>1 DEF NoteInv, NoteTypes, N!Times, N!NotesAssumption
<1> QED
  BY <1>1, <1>2, <1>3, <1>4, <1>5, EditorsKeep

LEMMA RestsKeep ==
  ASSUME N!NotesAssumption, NoteInv, N!Tick \/ (\E c \in Editors : N!Cool(c)) \/ UNCHANGED N!vars
  PROVE  NoteInv'
<1>1. /\ UNCHANGED <<note, versions, job, shown, changed, changes, saves, behind, done, twins>>
      /\ time' = time \/ (time < MaxTime /\ time' = time + 1)
  BY DEF N!Tick, N!Cool, N!vars, N!server, N!editor, N!history
<1>2. NoteTypes' /\ time' >= time
  BY <1>1 DEF NoteInv, NoteTypes, N!Times, N!NotesAssumption
<1>3. Past'
  <2>1. \A v \in versions : v.at \in Int /\ v.at <= time
    BY DEF NoteInv, NoteTypes, Past, N!Times
  <2>2. \A v \in versions : v.at <= time'
    BY <1>1, <2>1 DEF NoteInv, NoteTypes, N!Times
  <2> QED
    BY <1>1, <2>2 DEF NoteInv, Past
<1>4. \A c \in Editors : Ahead(c) => Ahead(c)'
  BY <1>1 DEF Ahead, N!InFlight
<1> QED
  BY <1>1, <1>2, <1>3, <1>4, EditorsKeep DEF NoteInv

\* A call that arrives.
LEMMA Arrival ==
  ASSUME N!NotesAssumption, NoteInv, NEW s \in NoteSlots, job[s].pc = "idle",
         NEW j \in Calls, NEW n \in Nat, job' = [job EXCEPT ![s] = [j EXCEPT !.id = n]],
         ~Deciding(j), j.pc # "idle", j.at = N!Never, j.text <= changes
  PROVE  /\ job' \in [NoteSlots -> Calls]
         /\ \A r \in NoteSlots : job'[r].text <= changes
               /\ (job'[r].pc = "idle" => job'[r].by = N!Never)
         /\ \A r \in NoteSlots : job'[r] = job[r] \/ (~Deciding(job'[r]) /\ job'[r].at = N!Never)
         /\ job'[s].by = j.by /\ job'[s].text = j.text /\ job'[s].pc = j.pc
         /\ \A r \in NoteSlots \ {s} : job'[r] = job[r]
<1> DEFINE q == [j EXCEPT !.id = n]
<1>1. q \in Calls /\ q.pc = j.pc /\ q.at = j.at /\ q.text = j.text /\ q.by = j.by
  BY DEF Calls
<1>2. job \in [NoteSlots -> Calls]
  BY DEF NoteInv, NoteTypes
<1> HIDE DEF q
<1>3. job' = [job EXCEPT ![s] = q]
  BY DEF q
<1> QED
  BY <1>1, <1>2, <1>3 DEF Deciding, NoteInv, Past

LEMMA SaveKeeps ==
  ASSUME N!NotesAssumption, NoteInv, NEW c \in Editors, NEW wanted \in BOOLEAN, N!Save(c, wanted)
  PROVE  NoteInv'
<1>1. /\ changed' = [changed EXCEPT ![c] = @ /\ wanted]
      /\ UNCHANGED <<time, note, versions, shown, changes, done, twins>>
  BY DEF N!Save
<1>2. time' >= time
  BY <1>1 DEF NoteInv, NoteTypes, N!Times, N!NotesAssumption
<1>3. CASE warm[c]
  <2>1. /\ UNCHANGED <<job, saves>>
        /\ behind' = IF N!Sent(c) THEN behind ELSE behind \cup {c}
    BY <1>3 DEF N!Save
  <2>2. NoteTypes' /\ Past'
    BY <1>1, <2>1 DEF NoteInv, NoteTypes, Past
  <2>3. ASSUME NEW d \in Editors, d \notin behind' PROVE Ahead(d)'
    <3>1. Ahead(d) /\ N!InFlight' = N!InFlight
      BY <2>1, <2>3 DEF NoteInv, N!InFlight
    <3>2. CASE d = c
      <4>1. N!Sent(c)
        BY <2>1, <2>3, <3>2
      <4>2. N!InFlight = {} => shown[c] = note
        <5>1. ASSUME N!InFlight = {}, NEW s \in NoteSlots PROVE job[s].by # c
          <6>1. job[s].by = N!Never
            BY <5>1 DEF N!InFlight, NoteInv, Past
          <6> QED
            BY <6>1 DEF N!NotesAssumption
        <5> QED
          BY <4>1, <5>1 DEF N!Sent
      <4>3. \A s \in NoteSlots : job[s].pc # "idle" => job[s].text = shown[c]
        <5>1. ASSUME NEW s \in NoteSlots, job[s].pc # "idle" PROVE job[s].text = shown[c]
          <6>1. N!InFlight = {s} /\ (job[s].text = shown[c] \/ note # shown[c])
            BY <3>1, <3>2, <5>1 DEF Ahead
          <6>2. ASSUME NEW r \in NoteSlots, job[r].by = c, job[r].text = shown[c] PROVE r = s
            <7>1. job[r].pc # "idle"
              BY <6>2 DEF NoteInv, Past, N!NotesAssumption
            <7> QED
              BY <6>1, <7>1 DEF N!InFlight
          <6> QED
            BY <4>1, <6>1, <6>2 DEF N!Sent
        <5> QED
          BY <5>1
      <4> QED
        BY <1>1, <2>1, <3>1, <3>2, <4>2, <4>3 DEF Ahead
    <3>3. CASE d # c
      <4>1. changed'[d] = changed[d]
        BY <1>1, <3>3 DEF NoteInv, NoteTypes
      <4> QED
        BY <1>1, <2>1, <3>1, <4>1 DEF Ahead
    <3> QED
      BY <3>2, <3>3
  <2> QED
    BY <1>1, <1>2, <2>1, <2>2, <2>3, EditorsKeep
<1>4. CASE ~warm[c]
  <2> DEFINE j == [N!Idle EXCEPT !.pc = "read", !.by = c, !.text = shown[c], !.manual = wanted]
  <2>1. PICK s \in NoteSlots : job[s].pc = "idle"
        /\ job' = [job EXCEPT ![s] = [j EXCEPT !.id = saves + 1]]
    BY <1>4 DEF N!Save, N!Arrive
  <2>2. saves' = saves + 1 /\ behind' = IF N!InFlight = {} THEN Editors \ {c} ELSE Editors
    BY <1>4 DEF N!Save, N!Arrive
  <2>3. j \in Calls /\ j.pc = "read" /\ j.at = N!Never /\ j.text = shown[c] /\ j.by = c
    BY DEF NoteInv, NoteTypes, N!Idle, Calls, N!Never
  <2>4. shown[c] <= changes /\ saves + 1 \in Nat /\ ~Deciding(j)
    BY <2>3 DEF NoteInv, NoteTypes, Past, Deciding
  <2> HIDE DEF j
  <2>5. /\ job' \in [NoteSlots -> Calls]
        /\ \A r \in NoteSlots : job'[r].text <= changes
              /\ (job'[r].pc = "idle" => job'[r].by = N!Never)
        /\ \A r \in NoteSlots : job'[r] = job[r] \/ (~Deciding(job'[r]) /\ job'[r].at = N!Never)
        /\ job'[s].by = j.by /\ job'[s].text = j.text /\ job'[s].pc = j.pc
        /\ \A r \in NoteSlots \ {s} : job'[r] = job[r]
    BY <2>1, <2>3, <2>4, Arrival
  <2>6. NoteTypes' /\ Past'
    BY <1>1, <2>2, <2>4, <2>5 DEF NoteInv, NoteTypes, Past
  <2>7. ASSUME NEW d \in Editors, d \notin behind' PROVE Ahead(d)'
    <3>1. N!InFlight = {} /\ d = c
      BY <2>2, <2>7
    <3>2. N!InFlight' = {s}
      <4>1. \A r \in NoteSlots : job[r].pc = "idle"
        BY <3>1 DEF N!InFlight
      <4> QED
        BY <2>3, <2>5, <4>1 DEF N!InFlight
    <3>3. \A r \in NoteSlots : job'[r].pc # "idle" => r = s
      BY <3>2 DEF N!InFlight
    <3> QED
      BY <1>1, <2>3, <2>5, <3>1, <3>2, <3>3 DEF Ahead
  <2> QED
    BY <1>1, <1>2, <2>5, <2>6, <2>7, EditorsKeep
<1> QED
  BY <1>3, <1>4

LEMMA RestoreKeeps ==
  ASSUME N!NotesAssumption, NoteInv, NEW c \in Editors, NEW v \in versions, N!Restore(c, v)
  PROVE  NoteInv'
<1> DEFINE j == [N!Idle EXCEPT !.pc = "store", !.by = c, !.text = v.text]
<1>1. PICK s \in NoteSlots : job[s].pc = "idle"
      /\ job' = [job EXCEPT ![s] = [j EXCEPT !.id = saves + 1]]
  BY DEF N!Restore, N!Arrive
<1>2. /\ saves' = saves + 1 /\ behind' = Editors
      /\ UNCHANGED <<time, note, versions, shown, changed, changes, done, twins>>
  BY DEF N!Restore, N!Arrive, N!editor
<1>3. j \in Calls /\ j.pc = "store" /\ j.at = N!Never /\ j.text = v.text
  BY DEF NoteInv, NoteTypes, N!Idle, Calls, N!Never
<1>4. v.text <= changes /\ saves + 1 \in Nat /\ ~Deciding(j)
  BY <1>3 DEF NoteInv, NoteTypes, Past, Deciding
<1> HIDE DEF j
<1>5. /\ job' \in [NoteSlots -> Calls]
      /\ \A r \in NoteSlots : job'[r].text <= changes
            /\ (job'[r].pc = "idle" => job'[r].by = N!Never)
      /\ \A r \in NoteSlots : job'[r] = job[r] \/ (~Deciding(job'[r]) /\ job'[r].at = N!Never)
  BY <1>1, <1>3, <1>4, Arrival
<1>6. NoteTypes' /\ Past' /\ time' >= time
  BY <1>2, <1>4, <1>5 DEF NoteInv, NoteTypes, Past, N!Times, N!NotesAssumption
<1> QED
  BY <1>2, <1>5, <1>6, EditorsKeep

\* A save goes on.
Moves(s, j) ==
  /\ job' = [job EXCEPT ![s] = j] /\ j \in Calls
  /\ job[s].pc # "idle" /\ j.pc # "idle"
  /\ j.by = job[s].by /\ j.text = job[s].text /\ j.id = job[s].id /\ j.manual = job[s].manual
  /\ UNCHANGED <<time, note, shown, changed, changes, saves, behind, done>>

LEMMA MovesKeep ==
  ASSUME N!NotesAssumption, NoteInv, NEW s \in NoteSlots, NEW j, Moves(s, j),
         versions' \subseteq [at : N!Times, text : Nat, id : Nat],
         \A v \in versions' : v \in versions \/ (v.at <= time /\ v.text = j.text)
  PROVE  /\ NoteTypes' /\ Past' /\ \A c \in Editors : c \in behind' \/ Ahead(c)'
         /\ job'[s] = j /\ \A r \in NoteSlots \ {s} : job'[r] = job[r]
<1>1. /\ job' = [job EXCEPT ![s] = j] /\ job \in [NoteSlots -> Calls] /\ j \in Calls
      /\ UNCHANGED <<time, note, shown, changed, changes, saves, behind, done>>
  BY DEF Moves, NoteInv, NoteTypes
<1>2. job'[s] = j /\ \A r \in NoteSlots \ {s} : job'[r] = job[r]
  BY <1>1
<1>3. NoteTypes'
  BY <1>1 DEF NoteInv, NoteTypes
<1>4. \A r \in NoteSlots : /\ job'[r].by = job[r].by /\ job'[r].text = job[r].text
                           /\ job'[r].pc = "idle" <=> job[r].pc = "idle"
  BY <1>2 DEF Moves
<1>5. Past'
  BY <1>1, <1>2, <1>4 DEF NoteInv, Past
<1>6. N!InFlight' = N!InFlight
  BY <1>4 DEF N!InFlight
<1>7. \A c \in Editors : Ahead(c) => Ahead(c)'
  BY <1>1, <1>4, <1>6 DEF Ahead
<1> QED
  BY <1>1, <1>2, <1>3, <1>5, <1>7 DEF NoteInv

LEMMA ReadKeeps ==
  ASSUME N!NotesAssumption, NoteInv, NEW s \in NoteSlots, N!Read(s) PROVE NoteInv'
<1> DEFINE j == [job[s] EXCEPT !.pc = "check", !.last = N!Latest]
<1>1. /\ job[s].pc = "read" /\ job' = [job EXCEPT ![s] = j] /\ versions' = versions
      /\ UNCHANGED <<time, note, shown, changed, changes, saves, behind, done>>
  BY DEF N!Read, N!editor, NoteInv, NoteTypes
<1>2. /\ \A i \in twins : i \in twins'
      /\ (\E r \in NoteSlots \ {s} : Deciding(job[r])) => job[s].id \in twins'
  BY DEF N!Read, Deciding
<1>3. job[s] \in Calls
  BY DEF NoteInv, NoteTypes
<1>4. N!Latest \in {N!Never} \cup N!Times /\ (N!Latest = N!Never <=> versions = {})
  <2>1. CASE versions = {}
    BY <2>1 DEF N!Latest
  <2>2. CASE versions # {}
    <3>1. N!Latest \in N!Times
      BY <2>2, LatestIsLatest DEF NoteInv
    <3> QED
      BY <2>2, <3>1 DEF N!Times, N!Never
  <2> QED
    BY <2>1, <2>2
<1>5. /\ j \in Calls /\ j.pc = "check" /\ j.by = job[s].by /\ j.text = job[s].text
      /\ j.id = job[s].id
      /\ j.manual = job[s].manual /\ j.last = N!Latest /\ j.at = job[s].at
  BY <1>3, <1>4 DEF Calls
<1> HIDE DEF j
<1>6. Moves(s, j)
  BY <1>1, <1>5 DEF Moves
<1>7. /\ NoteTypes' /\ Past' /\ \A c \in Editors : c \in behind' \/ Ahead(c)'
      /\ job'[s] = j /\ \A r \in NoteSlots \ {s} : job'[r] = job[r]
  <2>1. versions' \subseteq [at : N!Times, text : Nat, id : Nat]
    BY <1>1 DEF NoteInv, NoteTypes
  <2> QED
    BY <1>1, <1>6, <2>1, MovesKeep
<1>8. N!VersionsAreSpaced'
  BY <1>1, <1>2 DEF NoteInv, N!VersionsAreSpaced, N!VersionsKeepUp, N!VersionsApart
<1>9. OnlyOneDecides'
  BY <1>2, <1>5, <1>7 DEF NoteInv, OnlyOneDecides
<1>10. ASSUME NEW r \in NoteSlots PROVE Informed(job[r])'
  <2>1. CASE r # s
    <3>1. job'[r] = job[r] /\ Informed(job[r])
      BY <1>7, <2>1 DEF NoteInv
    <3> QED
      BY <1>1, <1>2, <3>1 DEF Informed, Near
  <2>2. CASE r = s
    <3>1. job'[r] = j /\ j.at <= time
      BY <1>5, <1>7, <2>2 DEF NoteInv, Informed
    <3>2. versions # {} => (\E v \in versions : v.at = N!Latest)
          /\ \A v \in versions : v.at <= N!Latest
      BY LatestIsLatest DEF NoteInv
    <3> QED
      BY <1>1, <1>4, <1>5, <3>1, <3>2 DEF Informed, Deciding
  <2> QED
    BY <2>1, <2>2
<1> QED
  BY <1>7, <1>8, <1>9, <1>10 DEF NoteInv

LEMMA CheckKeeps ==
  ASSUME N!NotesAssumption, NoteInv, NEW s \in NoteSlots, N!Check(s) PROVE NoteInv'
<1>1. /\ job[s].pc = "check"
      /\ UNCHANGED <<time, note, versions, shown, changed, changes, saves, done, twins>>
  BY DEF N!Check, N!editor
<1>2. /\ job[s] \in Calls /\ job \in [NoteSlots -> Calls] /\ time \in N!Times /\ time \in Nat
      /\ Manual \in Nat /\ AutoAge \in Nat /\ Manual <= AutoAge
  BY DEF NoteInv, NoteTypes, N!NotesAssumption, N!Times
<1>3. CASE job[s].by \in Writers
  <2> DEFINE point == IF N!Due(job[s]) THEN "keep" ELSE "store"
             j == [job[s] EXCEPT !.pc = point, !.at = time]
  <2>1. job' = [job EXCEPT ![s] = j] /\ behind' = behind
    BY <1>2, <1>3 DEF N!Check
  <2>2. point \in {"keep", "store"} /\ (point = "keep" <=> N!Due(job[s]))
    OBVIOUS
  <2> HIDE DEF point
  <2>3. /\ j \in Calls /\ j.pc = point /\ j.by = job[s].by /\ j.text = job[s].text
        /\ j.id = job[s].id
        /\ j.manual = job[s].manual /\ j.last = job[s].last /\ j.at = time
    BY <1>2, <2>2 DEF Calls
  <2> HIDE DEF j
  <2>4. Moves(s, j)
    BY <1>1, <2>1, <2>2, <2>3 DEF Moves
  <2>5. /\ NoteTypes' /\ Past' /\ \A c \in Editors : c \in behind' \/ Ahead(c)'
        /\ job'[s] = j /\ \A r \in NoteSlots \ {s} : job'[r] = job[r]
    <3>1. versions' \subseteq [at : N!Times, text : Nat, id : Nat]
      BY <1>1 DEF NoteInv, NoteTypes
    <3> QED
      BY <1>1, <2>4, <3>1, MovesKeep
  <2>6. N!VersionsAreSpaced'
    BY <1>1 DEF NoteInv, N!VersionsAreSpaced, N!VersionsKeepUp, N!VersionsApart
  <2>7. OnlyOneDecides'
    <3>1. Deciding(job[s]) /\ job'[s].id = job[s].id
      BY <1>1, <2>3, <2>5 DEF Deciding
    <3> QED
      BY <1>1, <2>5, <3>1 DEF NoteInv, OnlyOneDecides
  <2>8. ASSUME NEW r \in NoteSlots PROVE Informed(job[r])'
    <3>1. CASE r # s
      <4>1. job'[r] = job[r] /\ Informed(job[r])
        BY <2>5, <3>1 DEF NoteInv
      <4> QED
        BY <1>1, <4>1 DEF Informed, Near
    <3>2. CASE r = s
      <4>1. job'[r] = j /\ Informed(job[s]) /\ j.at # N!Never /\ Deciding(job[s])
        BY <1>1, <1>2, <2>3, <2>5, <3>2 DEF NoteInv, N!Never, N!Times, Deciding
      <4>2. job[s].last # N!Never => job[s].last \in Nat
        BY <1>2 DEF Calls, N!Times
      <4>3. CASE point = "keep"
        <5>1. job[s].last # N!Never => time - job[s].last > Manual
          BY <1>2, <2>2, <4>2, <4>3 DEF N!Due
        <5>2. job[s].id \notin twins =>
                \A v \in versions : v.id \notin twins => job[s].last # N!Never
                      /\ v.at <= job[s].last
          BY <4>1 DEF Informed
        <5>3. j.pc = "keep" /\ j.id = job[s].id /\ j.last = job[s].last /\ j.at = time
              /\ time <= time
          BY <1>2, <2>3, <4>3
        <5> QED
          BY <1>1, <4>1, <5>1, <5>2, <5>3 DEF Informed
      <4>4. CASE point = "store"
        <5>1. job[s].last # N!Never /\ time - job[s].last <= AutoAge
          BY <1>2, <2>2, <4>2, <4>4 DEF N!Due
        <5>2. PICK v \in versions : v.at = job[s].last
          BY <1>1, <4>1, <5>1 DEF Informed
        <5>3. v.at <= time
          BY DEF NoteInv, Past
        <5>4. Near(time)
          BY <5>1, <5>2, <5>3 DEF Near
        <5>5. ~Deciding(j) /\ j.pc = "store" /\ j.at = time /\ time <= time
          BY <1>2, <2>3, <4>4 DEF Deciding
        <5> QED
          BY <1>1, <4>1, <5>4, <5>5 DEF Informed, Near, Deciding
      <4> QED
        BY <2>2, <4>3, <4>4
    <3> QED
      BY <3>1, <3>2
  <2> QED
    BY <2>5, <2>6, <2>7, <2>8 DEF NoteInv
<1>4. CASE job[s].by \notin Writers
  <2>1. job' = [job EXCEPT ![s] = N!Idle] /\ behind' = behind \cup {job[s].by}
    BY <1>4 DEF N!Check
  <2>2. N!Idle \in Calls /\ N!Idle.pc = "idle" /\ N!Idle.by = N!Never /\ N!Idle.text = 0
        /\ N!Idle.at = N!Never
    BY DEF N!Idle, Calls
  <2>3. NoteTypes'
    BY <1>1, <1>2, <2>1, <2>2 DEF NoteInv, NoteTypes
  <2>4. Past'
    BY <1>1, <1>2, <2>1, <2>2 DEF NoteInv, Past, NoteTypes
  <2>5. \A r \in NoteSlots : job'[r] = job[r] \/ (~Deciding(job'[r]) /\ job'[r].at = N!Never)
    BY <1>2, <2>1, <2>2 DEF Deciding
  <2>6. \A c \in Editors : c \in behind'
    BY <1>1, <2>1 DEF NoteInv, Ahead
  <2> QED
    BY <1>1, <1>2, <2>3, <2>4, <2>5, <2>6, EditorsKeep
<1> QED
  BY <1>3, <1>4

LEMMA KeepKeeps ==
  ASSUME N!NotesAssumption, NoteInv, NEW s \in NoteSlots, N!Keep(s) PROVE NoteInv'
<1> DEFINE j == [job[s] EXCEPT !.pc = "store"]
           w == [at |-> job[s].at, text |-> job[s].text, id |-> job[s].id]
<1>1. /\ job[s].pc = "keep" /\ job' = [job EXCEPT ![s] = j] /\ versions' = versions \cup {w}
      /\ UNCHANGED <<time, note, shown, changed, changes, saves, behind, done, twins>>
  BY DEF N!Keep, N!editor, N!history
<1>2. job[s] \in Calls /\ Informed(job[s]) /\ Deciding(job[s]) /\ Manual \in Nat /\ AutoAge \in Nat
  BY <1>1 DEF NoteInv, NoteTypes, Deciding, N!NotesAssumption
<1>3. /\ j \in Calls /\ j.pc = "store" /\ j.by = job[s].by /\ j.text = job[s].text
      /\ j.id = job[s].id
      /\ j.manual = job[s].manual /\ j.at = job[s].at
  BY <1>2 DEF Calls
<1>4. /\ job[s].at \in N!Times /\ job[s].at \in Nat /\ job[s].at <= time
      /\ w.at = job[s].at /\ w.id = job[s].id /\ w.text = j.text
      /\ w \in [at : N!Times, text : Nat, id : Nat]
  <2>1. job[s].at # N!Never /\ job[s].at <= time
    BY <1>1, <1>2 DEF Informed
  <2>2. job[s].at \in N!Times /\ job[s].text \in Nat /\ job[s].id \in Nat
    BY <1>2, <2>1 DEF Calls
  <2> QED
    BY <1>3, <2>1, <2>2 DEF N!Times
<1> HIDE DEF j, w
<1>5. Moves(s, j)
  BY <1>1, <1>3 DEF Moves
<1>6. /\ NoteTypes' /\ Past' /\ \A c \in Editors : c \in behind' \/ Ahead(c)'
      /\ job'[s] = j /\ \A r \in NoteSlots \ {s} : job'[r] = job[r]
  <2>1. versions' \subseteq [at : N!Times, text : Nat, id : Nat]
    BY <1>1, <1>4 DEF NoteInv, NoteTypes
  <2>2. \A v \in versions' : v \in versions \/ (v.at <= time /\ v.text = j.text)
    BY <1>1, <1>4
  <2> QED
    BY <1>5, <2>1, <2>2, MovesKeep
<1>7. N!VersionsKeepUp'
  BY <1>1 DEF NoteInv, N!VersionsAreSpaced, N!VersionsKeepUp
<1>8. ASSUME NEW v \in versions, v.id \notin twins, w.id \notin twins PROVE w.at - v.at > Manual
  <2>1. /\ job[s].last # N!Never /\ v.at <= job[s].last
        /\ job[s].at - job[s].last > Manual
    BY <1>1, <1>2, <1>4, <1>8 DEF Informed
  <2>2. v.at \in Nat /\ job[s].last \in Nat
    BY <1>2, <2>1 DEF NoteInv, NoteTypes, N!Times, Calls
  <2> QED
    BY <1>2, <1>4, <2>1, <2>2
<1>9. N!VersionsApart'
  BY <1>1, <1>8 DEF NoteInv, N!VersionsAreSpaced, N!VersionsApart
<1>10. ~Deciding(j)
  BY <1>3 DEF Deciding
<1>11. OnlyOneDecides'
  BY <1>1, <1>6, <1>10 DEF NoteInv, OnlyOneDecides
<1>12. ASSUME NEW r \in NoteSlots PROVE Informed(job[r])'
  <2>1. CASE r # s
    <3>1. job'[r] = job[r] /\ Informed(job[r])
      BY <1>6, <2>1 DEF NoteInv
    <3>2. Deciding(job[r]) /\ job[r].id \notin twins => w.id \in twins
      BY <1>2, <1>4, <2>1 DEF NoteInv, OnlyOneDecides
    <3> QED
      BY <1>1, <3>1, <3>2 DEF Informed, Near
  <2>2. CASE r = s
    <3>1. \E v \in versions' : v.at <= j.at /\ j.at - v.at <= AutoAge
      <4>1. w \in versions' /\ w.at = j.at /\ w.at <= w.at /\ w.at - w.at <= AutoAge
        BY <1>1, <1>2, <1>3, <1>4
      <4> QED
        BY <4>1
    <3>2. job'[r] = j /\ j.at <= time
      BY <1>3, <1>4, <1>6, <2>2
    <3> QED
      BY <1>1, <1>3, <1>10, <2>2, <3>1, <3>2 DEF Informed, Near, Deciding
  <2> QED
    BY <2>1, <2>2
<1> QED
  BY <1>6, <1>7, <1>9, <1>11, <1>12 DEF NoteInv, N!VersionsAreSpaced

LEMMA StoreKeeps ==
  ASSUME N!NotesAssumption, NoteInv, NEW s \in NoteSlots, N!Store(s) PROVE NoteInv'
<1>1. /\ job[s].pc = "store" /\ note' = job[s].text /\ job' = [job EXCEPT ![s] = N!Idle]
      /\ done' = IF job[s].at = N!Never THEN done ELSE done \cup {job[s].at}
      /\ UNCHANGED <<time, versions, shown, changed, changes, saves, behind, twins>>
  BY DEF N!Store, N!editor
<1>2. job[s] \in Calls /\ job \in [NoteSlots -> Calls] /\ Informed(job[s])
  BY DEF NoteInv, NoteTypes
<1>3. N!Idle \in Calls /\ N!Idle.pc = "idle" /\ N!Idle.by = N!Never /\ N!Idle.text = 0
      /\ N!Idle.at = N!Never
  BY DEF N!Idle, Calls
<1>4. NoteTypes'
  BY <1>1, <1>2, <1>3 DEF NoteInv, NoteTypes, Calls
<1>5. /\ job'[s] = N!Idle /\ \A r \in NoteSlots \ {s} : job'[r] = job[r]
  BY <1>1, <1>2
<1>6. Past'
  BY <1>1, <1>3, <1>5 DEF NoteInv, Past, NoteTypes
<1>7. ~Deciding(N!Idle)
  BY <1>3 DEF Deciding
<1>8. N!VersionsKeepUp' /\ N!VersionsApart'
  <2>1. job[s].at # N!Never => Near(job[s].at)
    BY <1>1, <1>2 DEF Informed
  <2> QED
    BY <1>1, <2>1 DEF NoteInv, N!VersionsAreSpaced, N!VersionsKeepUp, N!VersionsApart, Near
<1>9. OnlyOneDecides'
  BY <1>1, <1>5, <1>7 DEF NoteInv, OnlyOneDecides
<1>10. ASSUME NEW r \in NoteSlots PROVE Informed(job[r])'
  <2>1. CASE r # s
    <3>1. job'[r] = job[r] /\ Informed(job[r])
      BY <1>5, <2>1 DEF NoteInv
    <3> QED
      BY <1>1, <3>1 DEF Informed, Near
  <2>2. CASE r = s
    <3>1. N!Idle.at <= time
      BY <1>3 DEF NoteInv, NoteTypes, N!Times, N!Never
    <3> QED
      BY <1>1, <1>3, <1>5, <1>7, <2>2, <3>1 DEF Informed, Deciding
  <2> QED
    BY <2>1, <2>2
<1>11. ASSUME NEW c \in Editors, c \notin behind PROVE Ahead(c)'
  <2>1. N!InFlight = {s} /\ (job[s].text = shown[c] \/ changed[c])
    BY <1>1, <1>11 DEF NoteInv, Ahead
  <2>2. \A r \in NoteSlots : job'[r].pc = "idle"
    BY <1>3, <1>5, <2>1 DEF N!InFlight
  <2> QED
    BY <1>1, <2>1, <2>2 DEF Ahead, N!InFlight
<1> QED
  BY <1>1, <1>4, <1>6, <1>8, <1>9, <1>10, <1>11 DEF NoteInv, N!VersionsAreSpaced

LEMMA NoteBegins == N!NotesAssumption /\ N!Init => NoteInv
<1> SUFFICES ASSUME N!NotesAssumption, N!Init PROVE NoteInv
  OBVIOUS
<1>1. N!Idle \in Calls /\ N!Idle.pc = "idle" /\ N!Idle.by = N!Never /\ N!Idle.text = 0
      /\ N!Idle.at = N!Never
  BY DEF N!Idle, Calls
<1>2. \A s \in NoteSlots : job[s] = N!Idle
  BY DEF N!Init
<1>3. NoteTypes
  BY <1>1 DEF N!Init, NoteTypes, N!Times, N!NotesAssumption
<1>4. Past
  BY <1>1, <1>2, <1>3 DEF N!Init, Past, NoteTypes
<1>5. N!VersionsAreSpaced
  BY DEF N!Init, N!VersionsAreSpaced, N!VersionsKeepUp, N!VersionsApart
<1>6. ~Deciding(N!Idle) /\ -1 <= time
  BY <1>1 DEF Deciding, N!Init
<1>7. OnlyOneDecides /\ \A s \in NoteSlots : Informed(job[s])
  BY <1>1, <1>2, <1>6 DEF OnlyOneDecides, Informed, N!Never
<1>8. \A c \in Editors : Ahead(c)
  BY <1>1, <1>2 DEF N!Init, Ahead, N!InFlight
<1> QED
  BY <1>3, <1>4, <1>5, <1>7, <1>8 DEF NoteInv

LEMMA NoteKeeps == N!NotesAssumption /\ NoteInv /\ [N!Next]_(N!vars) => NoteInv'
<1> SUFFICES ASSUME N!NotesAssumption, NoteInv, [N!Next]_(N!vars) PROVE NoteInv'
  OBVIOUS
<1>1. ASSUME NEW c \in Editors, N!Change(c) \/ N!Open(c) \/ \E wanted \in BOOLEAN : N!Save(c, wanted)
      PROVE NoteInv'
  BY <1>1, ChangeKeeps, OpenKeeps, SaveKeeps
<1>2. ASSUME NEW c \in Editors, NEW v \in versions, N!Restore(c, v) PROVE NoteInv'
  BY <1>2, RestoreKeeps
<1>3. ASSUME NEW s \in NoteSlots, N!Read(s) \/ N!Check(s) \/ N!Keep(s) \/ N!Store(s) PROVE NoteInv'
  BY <1>3, ReadKeeps, CheckKeeps, KeepKeeps, StoreKeeps
<1>4. ASSUME N!Tick \/ (\E c \in Editors : N!Cool(c)) \/ UNCHANGED N!vars PROVE NoteInv'
  BY <1>4, RestsKeep
<1> QED
  BY <1>1, <1>2, <1>3, <1>4 DEF N!Next

LEMMA NotesKeep == ASSUME N!NotesAssumption PROVE N!Spec => []NoteInv
<1>1. N!Init => NoteInv
  BY NoteBegins
<1>2. NoteInv /\ [N!Next]_(N!vars) => NoteInv'
  BY NoteKeeps
<1> QED
  BY <1>1, <1>2, PTL DEF N!Spec

\* note.service 603-641: however saves overlap, an automatic save leaves a version that is not
\* older than five minutes, and only saves in flight together make versions of one half minute.
THEOREM VersionsKeepTheirPace == ASSUME N!NotesAssumption PROVE N!Spec => []VersionsAreSpaced
<1>1. NoteInv => VersionsAreSpaced
  BY DEF NoteInv, VersionsAreSpaced
<1> QED
  BY <1>1, NotesKeep, PTL

\* WorkspaceItem.vue and note.service: when every save has been answered, an editor that no
\* accident has left behind shows what the note holds, or has a change that it did not send.
THEOREM EditorsAgree == ASSUME N!NotesAssumption PROVE N!Spec => []StoredIsShown
<1>1. NoteInv => StoredIsShown
  BY DEF NoteInv, Ahead, N!StoredIsShown, StoredIsShown
<1> QED
  BY <1>1, NotesKeep, PTL

-----------------------------------------------------------------------------
(* The workers.                                                            *)

\* The last workers that there should be, when nobody died and no restart crossed another.
Row == (last - C!Forks + 1) .. last

\* A restart has before it the workers from some id on, which is not above the oldest.
OlderOnes(r) == C!Restarting(r) => \E a \in 1 .. (last - C!Forks + 1), b \in Nat : todo[r] = a .. b

InARow ==
  deaths = 0 /\ extra = 0 =>
    /\ workers = Row
    /\ \A r \in Restarts : OlderOnes(r)
    /\ C!Forks = Cpus /\ Cpus > 1 => \E m \in Row : C!IsMain(m) /\ C!Mains = {m}

ClusterInv ==
  /\ workers \subseteq 1 .. last /\ last \in Nat /\ last >= C!Forks
  /\ deaths \in Nat /\ unmissed \in Nat /\ extra \in Nat
  /\ IsFiniteSet(workers) /\ DOMAIN todo = Restarts
  /\ C!WorkersAreCounted /\ InARow

LEMMA ForksIsNat == ASSUME C!ClusterAssumption PROVE C!Forks \in Nat \ {0}
  BY DEF C!ClusterAssumption, C!Forks

\* The instance counts as we do.
LEMMA Counts == ASSUME NEW S PROVE C!Cardinality(S) = Cardinality(S)
  BY DEF C!Cardinality, Cardinality

\* A new worker instead of one that there is, or beside them.
LEMMA Replacing ==
  ASSUME C!ClusterAssumption, ClusterInv, NEW w, C!Replace(w)
  PROVE  /\ workers' \subseteq 1 .. last' /\ last' \in Nat /\ last' >= C!Forks
         /\ IsFiniteSet(workers')
         /\ Cardinality(workers') = Cardinality(workers) + IF w \in workers THEN 0 ELSE 1
<1>1. last' = last + 1 /\ workers' = (workers \ {w}) \cup {last + 1} /\ last + 1 \notin workers
  BY DEF C!Replace, ClusterInv
<1>2. IsFiniteSet(workers \ {w}) /\ Cardinality(workers) \in Nat
      /\ Cardinality(workers \ {w}) = Cardinality(workers) - IF w \in workers THEN 1 ELSE 0
  BY FS_RemoveElement, FS_CardinalityType DEF ClusterInv
<1>3. IsFiniteSet(workers') /\ Cardinality(workers') = Cardinality(workers \ {w}) + 1
  BY <1>1, <1>2, FS_AddElement
<1>4. /\ workers \subseteq 1 .. last /\ last \in Nat /\ last >= C!Forks /\ C!Forks \in Nat
  BY ForksIsNat DEF ClusterInv
<1>5. workers' \subseteq 1 .. last' /\ last' \in Nat /\ last' >= C!Forks
  <2>1. last' \in Nat /\ last' >= C!Forks /\ last + 1 \in 1 .. last'
    BY <1>1, <1>4
  <2>2. \A x \in workers : x \in 1 .. last'
    BY <1>1, <1>4
  <2> QED
    BY <1>1, <2>1, <2>2
<1>6. Cardinality(workers') = Cardinality(workers) + IF w \in workers THEN 0 ELSE 1
  BY <1>2, <1>3
<1> QED
  BY <1>3, <1>5, <1>6

LEMMA ExitCounts ==
  ASSUME C!ClusterAssumption, ClusterInv, NEW w \in workers, C!Exit(w) PROVE ClusterInv'
<1>1. deaths' = deaths + 1 /\ UNCHANGED <<todo, extra>>
  BY DEF C!Exit
<1>2. InARow'
  BY <1>1 DEF InARow, ClusterInv
<1>3. C!Forks \in Nat
  BY ForksIsNat
<1>4. CASE C!Replace(w) /\ UNCHANGED unmissed
  <2>1. Cardinality(workers') = Cardinality(workers)
    BY <1>4, Replacing, FS_CardinalityType DEF ClusterInv
  <2> QED
    BY <1>1, <1>2, <1>4, <2>1, Replacing, Counts DEF ClusterInv, C!WorkersAreCounted
<1>5. CASE workers' = workers \ {w} /\ unmissed' = unmissed + 1 /\ UNCHANGED last
  <2>1. IsFiniteSet(workers') /\ Cardinality(workers') = Cardinality(workers) - 1
    BY <1>5, FS_RemoveElement DEF ClusterInv
  <2> QED
    BY <1>1, <1>2, <1>3, <1>5, <2>1, Counts DEF ClusterInv, C!WorkersAreCounted
<1> QED
  BY <1>4, <1>5 DEF C!Exit

LEMMA AskCounts ==
  ASSUME C!ClusterAssumption, ClusterInv, NEW r \in Restarts, C!Ask(r) PROVE ClusterInv'
<1>1. UNCHANGED <<workers, last, deaths, unmissed, extra>> /\ todo' = [todo EXCEPT ![r] = workers]
  BY DEF C!Ask
<1>2. C!Forks \in Nat \ {0} /\ Row = (last - C!Forks + 1) .. last
  BY ForksIsNat DEF Row
<1>3. ASSUME deaths = 0, extra = 0, NEW q \in Restarts PROVE OlderOnes(q)'
  <2>1. CASE q = r
    <3>1. todo'[q] = (last - C!Forks + 1) .. last
      BY <1>1, <1>2, <1>3, <2>1 DEF ClusterInv, InARow
    <3> QED
      BY <1>1, <1>2, <3>1 DEF OlderOnes, ClusterInv
  <2>2. CASE q # r
    <3>1. todo'[q] = todo[q] /\ OlderOnes(q)
      BY <1>1, <1>3, <2>2 DEF ClusterInv, InARow
    <3> QED
      BY <1>1, <3>1 DEF OlderOnes, C!Restarting
  <2> QED
    BY <2>1, <2>2
<1>4. InARow'
  BY <1>1, <1>2, <1>3 DEF ClusterInv, InARow, Row, C!Mains
<1> QED
  BY <1>1, <1>4, Counts DEF ClusterInv, C!WorkersAreCounted

LEMMA RestartCounts ==
  ASSUME C!ClusterAssumption, ClusterInv, NEW r \in Restarts, C!Restart(r) PROVE ClusterInv'
<1>1. PICK w \in todo[r] :
        /\ \A v \in todo[r] : w <= v
        /\ C!Replace(w) /\ extra' = (IF w \in workers THEN extra ELSE extra + 1)
        /\ todo' = [todo EXCEPT ![r] = @ \ {w}]
  BY DEF C!Restart
<1>2. UNCHANGED <<deaths, unmissed>> /\ C!Restarting(r)
  BY DEF C!Restart
<1>3. C!Forks \in Nat \ {0} /\ Cardinality(workers) \in Nat
  BY ForksIsNat, FS_CardinalityType DEF ClusterInv
<1>4. /\ workers' \subseteq 1 .. last' /\ last' \in Nat /\ last' >= C!Forks
      /\ IsFiniteSet(workers') /\ extra' \in Nat /\ C!WorkersAreCounted'
  BY <1>1, <1>2, <1>3, Replacing, Counts DEF ClusterInv, C!WorkersAreCounted
<1>5. ASSUME deaths' = 0, extra' = 0
      PROVE  /\ workers' = Row'
             /\ \A q \in Restarts : OlderOnes(q)'
             /\ C!Forks = Cpus /\ Cpus > 1 => \E m \in Row' : C!IsMain(m) /\ C!Mains' = {m}
  <2>0. PICK low \in Nat \ {0} : low = last - C!Forks + 1
    BY <1>3 DEF ClusterInv
  <2>1. deaths = 0 /\ extra = 0 /\ w \in workers
    BY <1>1, <1>2, <1>5 DEF ClusterInv
  <2>2. /\ workers = low .. last /\ \A q \in Restarts : OlderOnes(q)
        /\ C!Forks = Cpus /\ Cpus > 1 => \E m \in Row : C!IsMain(m) /\ C!Mains = {m}
    BY <2>0, <2>1 DEF ClusterInv, InARow, Row
  <2>3. PICK a \in 1 .. low, b \in Nat : todo[r] = a .. b
    BY <1>2, <2>0, <2>2 DEF OlderOnes
  <2>4. /\ last \in Nat /\ last' = last + 1 /\ last' - C!Forks + 1 = low + 1
        /\ Row' = (low + 1) .. (last + 1)
    BY <1>1, <1>3, <2>0 DEF ClusterInv, C!Replace, Row
  <2>5. w = a /\ w = low
    <3>1. w \in a .. b /\ w \in low .. last
      BY <2>1, <2>2, <2>3
    <3>2. a \in todo[r]
      BY <2>3, <2>4, <3>1
    <3>3. w <= a
      BY <1>1, <3>2
    <3> QED
      BY <2>3, <2>4, <3>1, <3>3
  <2>6. workers' = Row'
    BY <1>1, <1>3, <2>2, <2>4, <2>5 DEF C!Replace
  <2>7. ASSUME NEW q \in Restarts PROVE OlderOnes(q)'
    <3>1. CASE q = r
      <4>1. todo'[q] = (a + 1) .. b
        BY <1>1, <2>3, <2>4, <2>5, <3>1 DEF ClusterInv
      <4>2. a + 1 \in 1 .. (low + 1)
        BY <2>3
      <4> QED
        BY <2>4, <4>1, <4>2 DEF OlderOnes
    <3>2. CASE q # r
      <4>1. todo'[q] = todo[q] /\ (C!Restarting(q)' => C!Restarting(q))
        BY <1>1, <3>2 DEF ClusterInv, C!Restarting
      <4>2. C!Restarting(q) => \E d \in 1 .. (low + 1), e \in Nat : todo[q] = d .. e
        BY <2>0, <2>2 DEF OlderOnes
      <4> QED
        BY <2>4, <4>1, <4>2 DEF OlderOnes
    <3> QED
      BY <3>1, <3>2
  <2>8. ASSUME C!Forks = Cpus, Cpus > 1
        PROVE  \E m \in Row' : C!IsMain(m) /\ C!Mains' = {m}
    <3>1. PICK m \in Row : C!IsMain(m) /\ C!Mains = {m}
      BY <2>2, <2>8
    <3>2. Cpus \in Nat \ {0} /\ last + 1 = low + Cpus /\ C!IsMain(last + 1) = C!IsMain(low)
      <4>1. Cpus \in Nat \ {0} /\ last + 1 = low + Cpus
        BY <2>0, <2>4, <2>8 DEF C!ClusterAssumption
      <4>2. (low + Cpus) % Cpus = low % Cpus
        BY <4>1, SameRemainder
      <4> QED
        BY <4>1, <4>2 DEF C!IsMain
    <3>3. workers' = (workers \ {low}) \cup {last + 1} /\ low \in workers
      BY <1>1, <1>3, <2>2, <2>4, <2>5 DEF C!Replace
    <3>4. CASE m = low
      <4>1. C!IsMain(last + 1) /\ C!Mains' = {last + 1}
        BY <3>1, <3>2, <3>3, <3>4 DEF C!Mains
      <4>2. last + 1 \in Row'
        BY <1>3, <2>0, <2>4
      <4> QED
        BY <4>1, <4>2
    <3>5. CASE m # low
      <4>1. ~C!IsMain(low) /\ m \in workers
        BY <3>1, <3>3, <3>5 DEF C!Mains
      <4>2. C!Mains' = {m} /\ m \in workers'
        BY <3>1, <3>2, <3>3, <3>5, <4>1 DEF C!Mains
      <4> QED
        BY <2>6, <3>1, <4>2
    <3> QED
      BY <3>4, <3>5
  <2> QED
    BY <2>6, <2>7, <2>8
<1>6. InARow'
  BY <1>5 DEF InARow
<1> QED
  BY <1>1, <1>2, <1>4, <1>6 DEF ClusterInv

LEMMA ClusterBegins == ASSUME C!ClusterAssumption, C!Init PROVE ClusterInv
<1>1. C!Forks \in Nat \ {0} /\ Cpus \in Nat \ {0}
  BY ForksIsNat DEF C!ClusterAssumption
<1>2. IsFiniteSet(1 .. C!Forks) /\ Cardinality(1 .. C!Forks) = C!Forks
  BY <1>1, FS_Interval
<1>3. ASSUME C!Forks = Cpus, Cpus > 1 PROVE \E m \in Row : C!IsMain(m) /\ C!Mains = {m}
  <2>1. \A w \in 1 .. Cpus : w % Cpus = IF w = Cpus THEN 0 ELSE w
    <3>1. ASSUME NEW w \in 1 .. Cpus, w < Cpus PROVE w % Cpus = w
      BY <1>1, <3>1
    <3>2. Cpus % Cpus = 0
      BY <1>1
    <3> QED
      BY <3>1, <3>2, <1>1
  <2>2. workers = 1 .. Cpus /\ Row = 1 .. Cpus
    BY <1>1, <1>3 DEF C!Init, Row
  <2>3. C!IsMain(1) /\ C!Mains = {1} /\ 1 \in Row
    BY <1>1, <1>3, <2>1, <2>2 DEF C!IsMain, C!Mains
  <2> QED
    BY <2>3
<1>4. InARow
  BY <1>1, <1>3 DEF InARow, C!Init, Row, OlderOnes, C!Restarting
<1>5. C!WorkersAreCounted
  BY <1>1, <1>2, Counts DEF C!Init, C!WorkersAreCounted
<1> QED
  BY <1>1, <1>2, <1>4, <1>5 DEF C!Init, ClusterInv

\* cluster.ts 127-172: on any number of processors, restarts and deaths lose no worker but those
\* that nobody replaces, and leave one main worker between restarts that do not overlap.
THEOREM WorkersAreKept == ASSUME C!ClusterAssumption PROVE C!Spec => []WorkersAreRight
<1>1. C!Init => ClusterInv
  BY ClusterBegins
<1>2. ClusterInv /\ [C!Next]_(C!vars) => ClusterInv'
  <2>1. ASSUME ClusterInv, UNCHANGED C!vars PROVE ClusterInv'
    BY <2>1, Counts
    DEF C!vars, ClusterInv, C!WorkersAreCounted, InARow, Row, OlderOnes, C!Restarting, C!Mains
  <2> QED
    BY <2>1, AskCounts, RestartCounts, ExitCounts DEF C!Next
<1>3. ClusterInv => WorkersAreRight
  <2>1. ASSUME NEW m, C!Mains = {m} PROVE Cardinality(C!Mains) = 1
    BY <2>1, FS_Singleton
  <2> QED
    BY <2>1, Counts DEF ClusterInv, InARow, WorkersAreRight, C!WorkersAreRight, C!OneMainBetweenRestarts
<1> QED
  BY <1>1, <1>2, <1>3, PTL DEF C!Spec

-----------------------------------------------------------------------------
(* The presence of one user.  While no two handlers overlap, what the one  *)
(* under way has read is still so when it writes (Knows); and whatever     *)
(* overlaps, a list names only connections that have written themselves    *)
(* in, so that nobody is written in twice (Fits).                          *)

\* A list that names nobody twice.
Apart(d) == \A i, j \in 1..Len(d) : d[i] = d[j] => i = j

\* The first n places of a list without its place k.
LeftOut(d, k, n) ==
  IF n < k THEN [i \in 1..n |-> d[i]] ELSE [i \in 1..(n - 1) |-> IF i < k THEN d[i] ELSE d[i + 1]]

\* What it is, place by place.
LEMMA LeftOutFits ==
  ASSUME NEW d \in Seq(Conns), NEW k \in 1..(Len(d) + 1), NEW n \in 0..Len(d)
  PROVE  /\ LeftOut(d, k, n) \in Seq(Conns)
         /\ Len(LeftOut(d, k, n)) = IF n < k THEN n ELSE n - 1
         /\ \A i \in 1..Len(LeftOut(d, k, n)) :
              LeftOut(d, k, n)[i] = IF i < k THEN d[i] ELSE d[i + 1]
<1>1. CASE n < k
  BY <1>1 DEF LeftOut
<1>2. CASE ~(n < k)
  <2>1. n - 1 \in Nat /\ Len(d) \in Nat
    BY <1>2
  <2> QED
    BY <1>2, <2>1 DEF LeftOut
<1> QED
  BY <1>1, <1>2

\* It grows from place to place as the filter does, when k is where c is, or past the end.
LEMMA LeftOutGrows ==
  ASSUME NEW d \in Seq(Conns), Apart(d), NEW c, NEW k \in 1..(Len(d) + 1),
         k <= Len(d) => d[k] = c, \A i \in 1..Len(d) : i # k => d[i] # c,
         NEW n \in 0..Len(d)
  PROVE  LeftOut(d, k, n) = IF n = 0 THEN <<>>
                            ELSE IF d[n] = c THEN LeftOut(d, k, n - 1)
                            ELSE Append(LeftOut(d, k, n - 1), d[n])
<1> DEFINE s == LeftOut(d, k, n)
           b == LeftOut(d, k, n - 1)
<1>0. /\ s \in Seq(Conns) /\ Len(s) = IF n < k THEN n ELSE n - 1
      /\ \A i \in 1..Len(s) : s[i] = IF i < k THEN d[i] ELSE d[i + 1]
  BY LeftOutFits
<1>1. CASE n = 0
  <2>1. Len(s) = 0
    BY <1>0, <1>1
  <2> HIDE DEF s
  <2>2. s = <<>>
    BY <1>0, <2>1
  <2> QED
    BY <1>1, <2>2 DEF s
<1>2. CASE n # 0
  <2>0. /\ n - 1 \in 0..Len(d) /\ n \in 1..Len(d)
    BY <1>2
  <2>1. /\ b \in Seq(Conns) /\ Len(b) = IF n - 1 < k THEN n - 1 ELSE (n - 1) - 1
        /\ \A i \in 1..Len(b) : b[i] = IF i < k THEN d[i] ELSE d[i + 1]
    BY <2>0, LeftOutFits
  <2> HIDE DEF s, b
  <2>2. CASE n = k
    <3>1. d[n] = c /\ Len(s) = Len(b)
      BY <2>2, <2>0, <2>1, <1>0
    <3>2. s = b
      BY <3>1, <1>0, <2>1, SeqEqual
    <3> QED
      BY <3>1, <3>2, <1>2 DEF s, b
  <2>3. CASE n # k
    <3>1. d[n] # c /\ Len(s) = Len(b) + 1 /\ d[n] \in Conns
      BY <2>3, <2>0, <2>1, <1>0
    <3>2. /\ Append(b, d[n]) \in Seq(Conns) /\ Len(Append(b, d[n])) = Len(b) + 1
          /\ \A i \in 1..Len(b) + 1 : Append(b, d[n])[i] = IF i <= Len(b) THEN b[i] ELSE d[n]
      BY <3>1, <2>1
    <3>3. ASSUME NEW i \in 1..Len(s) PROVE s[i] = Append(b, d[n])[i]
      <4>1. CASE i <= Len(b)
        BY <4>1, <3>1, <3>2, <2>1, <1>0
      <4>2. CASE ~(i <= Len(b))
        <5>1. i = Len(b) + 1 /\ Append(b, d[n])[i] = d[n]
          BY <4>2, <3>1, <3>2, <2>1, <1>0
        <5>2. CASE n < k
          <6>1. i = n /\ i < k
            BY <5>1, <5>2, <2>1, <2>0
          <6> QED
            BY <6>1, <5>1, <1>0
        <5>3. CASE ~(n < k)
          <6>1. i = n - 1 /\ ~(i < k)
            BY <5>1, <5>3, <2>3, <2>1, <2>0
          <6> QED
            BY <6>1, <5>1, <1>0, <2>0
        <5> QED
          BY <5>2, <5>3
      <4> QED
        BY <4>1, <4>2
    <3>4. s = Append(b, d[n])
      BY <3>1, <3>2, <3>3, <1>0, SeqEqual
    <3> QED
      BY <3>1, <3>4, <1>2 DEF s, b
  <2> QED
    BY <2>2, <2>3
<1> QED
  BY <1>1, <1>2

\* So the filter, which is a recursive function, is that: there is a function that satisfies
\* the recursion, and any two agree, for otherwise there would be a first place where they differ.
LEMMA WithoutLeavesOut ==
  ASSUME NEW d \in Seq(Conns), Apart(d), NEW c, NEW k \in 1..(Len(d) + 1),
         k <= Len(d) => d[k] = c, \A i \in 1..Len(d) : i # k => d[i] # c
  PROVE  P!Without(d, c) = LeftOut(d, k, Len(d))
<1> DEFINE Filter(h) == [n \in 0..Len(d) |->
             IF n = 0 THEN <<>> ELSE IF d[n] = c THEN h[n - 1] ELSE Append(h[n - 1], d[n])]
           g == [n \in 0..Len(d) |-> LeftOut(d, k, n)]
           kept == CHOOSE h : h = Filter(h)
<1>0. Len(d) \in Nat
  OBVIOUS
<1>1. g = Filter(g)
  <2>1. ASSUME NEW n \in 0..Len(d)
        PROVE  LeftOut(d, k, n) = IF n = 0 THEN <<>>
                                  ELSE IF d[n] = c THEN g[n - 1] ELSE Append(g[n - 1], d[n])
    <3>1. n # 0 => n - 1 \in 0..Len(d)
      BY <1>0
    <3> QED
      BY <3>1, LeftOutGrows
  <2> QED
    BY <2>1
<1>2. kept = Filter(kept)
  <2> HIDE DEF g, Filter
  <2> QED
    BY <1>1
<1>3. P!Without(d, c) = kept[Len(d)]
  BY DEF P!Without
<1> HIDE DEF kept
<1>4. \A n \in 0..Len(d) : kept[n] = IF n = 0 THEN <<>>
         ELSE IF d[n] = c THEN kept[n - 1] ELSE Append(kept[n - 1], d[n])
  BY <1>2
<1>5. \A n \in 0..Len(d) : LeftOut(d, k, n) = IF n = 0 THEN <<>>
         ELSE IF d[n] = c THEN LeftOut(d, k, n - 1) ELSE Append(LeftOut(d, k, n - 1), d[n])
  BY LeftOutGrows
<1>6. \A n \in 0..Len(d) : kept[n] = LeftOut(d, k, n)
  <2> DEFINE T == {n \in 0..Len(d) : kept[n] # LeftOut(d, k, n)}
  <2>1. SUFFICES ASSUME T # {} PROVE FALSE
    OBVIOUS
  <2>2. T \in SUBSET Nat
    BY <1>0
  <2>3. PICK n \in T : \A m \in T : n <= m
    <3> HIDE DEF T
    <3> QED
      BY <2>1, <2>2, Smallest
  <2>4. n \in 0..Len(d) /\ kept[n] # LeftOut(d, k, n)
    OBVIOUS
  <2>5. n # 0
    BY <2>4, <1>4, <1>5
  <2>6. n - 1 \in 0..Len(d) /\ n - 1 \notin T
    BY <2>3, <2>4, <2>5, <1>0
  <2>7. kept[n - 1] = LeftOut(d, k, n - 1)
    BY <2>6
  <2> QED
    BY <2>4, <2>5, <2>7, <1>4, <1>5
<1> QED
  BY <1>0, <1>3, <1>6

\* What a departure does to a list without repetitions.
LEMMA WithoutFits ==
  ASSUME NEW d \in Seq(Conns), Apart(d), NEW c
  PROVE  /\ P!Without(d, c) \in Seq(Conns) /\ Len(P!Without(d, c)) <= Len(d)
         /\ Apart(P!Without(d, c))
         /\ P!ToSet(P!Without(d, c)) = P!ToSet(d) \ {c}
<1>0. Len(d) \in Nat
  OBVIOUS
<1>1. PICK k \in 1..(Len(d) + 1) :
        (k <= Len(d) => d[k] = c) /\ \A i \in 1..Len(d) : i # k => d[i] # c
  <2>1. CASE \E k \in 1..Len(d) : d[k] = c
    BY <2>1, <1>0 DEF Apart
  <2>2. CASE ~\E k \in 1..Len(d) : d[k] = c
    <3>1. Len(d) + 1 \in 1..(Len(d) + 1) /\ ~(Len(d) + 1 <= Len(d))
      BY <1>0
    <3> QED
      BY <2>2, <3>1
  <2> QED
    BY <2>1, <2>2
<1> DEFINE w == P!Without(d, c)
<1>2. w = LeftOut(d, k, Len(d))
  BY <1>1, WithoutLeavesOut
<1>3. Len(d) \in 0..Len(d)
  BY <1>0
<1> HIDE DEF w
<1>4. /\ w \in Seq(Conns) /\ Len(w) = IF Len(d) < k THEN Len(d) ELSE Len(d) - 1
      /\ \A i \in 1..Len(w) : w[i] = IF i < k THEN d[i] ELSE d[i + 1]
  BY <1>2, <1>3, LeftOutFits
<1>5. Len(w) \in Nat /\ Len(w) <= Len(d)
  BY <1>0, <1>4
<1>6. Apart(w)
  <2> SUFFICES ASSUME NEW i \in 1..Len(w), NEW j \in 1..Len(w), w[i] = w[j] PROVE i = j
    BY DEF Apart
  <2>1. /\ i \in 1..Len(d) /\ j \in 1..Len(d)
        /\ i >= k => i + 1 \in 1..Len(d)
        /\ j >= k => j + 1 \in 1..Len(d)
    BY <1>0, <1>4, <1>5
  <2> QED
    BY <2>1, <1>4 DEF Apart
<1>7. P!ToSet(w) \subseteq P!ToSet(d) \ {c}
  <2> SUFFICES ASSUME NEW i \in 1..Len(w) PROVE w[i] \in P!ToSet(d) \ {c}
    BY <1>4 DEF P!ToSet
  <2>1. i \in 1..Len(d) /\ (i >= k => i + 1 \in 1..Len(d))
    BY <1>0, <1>4, <1>5
  <2>2. \A m \in 1..Len(d) : d[m] \in P!ToSet(d)
    BY DEF P!ToSet
  <2>3. PICK m \in 1..Len(d) : w[i] = d[m] /\ m # k
    BY <2>1, <1>4, <1>0
  <2>4. d[m] # c
    BY <2>3, <1>1
  <2> QED
    BY <2>2, <2>3, <2>4
<1>8. P!ToSet(d) \ {c} \subseteq P!ToSet(w)
  <2> SUFFICES ASSUME NEW m \in 1..Len(d), d[m] # c PROVE d[m] \in P!ToSet(w)
    BY DEF P!ToSet
  <2>1. \A i \in 1..Len(w) : w[i] \in P!ToSet(w)
    BY <1>4 DEF P!ToSet
  <2>2. m < k => m \in 1..Len(w) /\ w[m] = d[m]
    BY <1>0, <1>4
  <2>3. m > k => m - 1 \in 1..Len(w) /\ w[m - 1] = d[m]
    BY <1>0, <1>4
  <2>4. m # k
    BY <1>1
  <2> QED
    BY <2>1, <2>2, <2>3, <2>4
<1> QED
  BY <1>4, <1>5, <1>6, <1>7, <1>8 DEF w

\* A list without repetitions is as long as it has members.
LEMMA ListSize ==
  ASSUME NEW d \in Seq(Conns), Apart(d)
  PROVE  IsFiniteSet(P!ToSet(d)) /\ Cardinality(P!ToSet(d)) = Len(d)
<1>0. Len(d) \in Nat /\ DOMAIN d = 1..Len(d)
  OBVIOUS
<1>1. IsFiniteSet(1..Len(d)) /\ Cardinality(1..Len(d)) = Len(d)
  <2>1. 1 \in Int /\ Len(d) \in Int
    BY <1>0
  <2>2. IsFiniteSet(1..Len(d)) /\ Cardinality(1..Len(d)) = IF 1 > Len(d) THEN 0 ELSE Len(d) - 1 + 1
    BY <2>1, FS_Interval
  <2> QED
    BY <1>0, <2>2
<1>2. d \in [1..Len(d) -> P!ToSet(d)]
  BY DEF P!ToSet
<1>3. d \in Bijection(1..Len(d), P!ToSet(d))
  BY <1>0, <1>2 DEF Apart, P!ToSet, Bijection, Injection, Surjection, IsInjective
<1> QED
  BY <1>1, <1>3, FS_Bijection DEF ExistsBijection

\* The devices that a document names.
NamesOf(d) == IF d = NoDoc THEN {} ELSE P!ToSet(d)

\* No document, or a list that is short and without repetitions.
Listing(d) == d = NoDoc \/ (d \in Seq(Conns) /\ Len(d) <= Beside + 1 /\ Apart(d))

\* The instance counts as we do.
LEMMA DevicesCount == ASSUME NEW S PROVE P!Cardinality(S) = Cardinality(S)
  BY DEF P!Cardinality, Cardinality

\* What the proof uses of the constants.
LEMMA PresenceConstants ==
  ASSUME P!PresenceAssumption
  PROVE  /\ Beside \in Nat /\ NoDoc \notin Seq(Conns)
         /\ "offline" \notin Visible /\ "invisible" \notin Visible
  BY DEF P!PresenceAssumption

\* A new device comes first and no other comes in; none goes while there is place.
LEMMA EntryFits ==
  ASSUME P!PresenceAssumption, NEW d, Listing(d), NEW c \in Conns, c \notin NamesOf(d)
  PROVE  /\ Listing(P!Entry(d, c)) /\ P!Entry(d, c) \in Seq(Conns) /\ c \in P!ToSet(P!Entry(d, c))
         /\ P!ToSet(P!Entry(d, c)) \subseteq NamesOf(d) \cup {c}
         /\ Cardinality(NamesOf(d)) <= Beside => P!ToSet(P!Entry(d, c)) = NamesOf(d) \cup {c}
<1> DEFINE known == IF d = NoDoc THEN <<>> ELSE d
           rest == IF Len(known) > Beside THEN P!Front(known) ELSE known
           e == <<c>> \o rest
<1>0. Beside \in Nat /\ NoDoc \notin Seq(Conns)
  BY PresenceConstants
<1>1. /\ known \in Seq(Conns) /\ Len(known) \in Nat /\ Len(known) <= Beside + 1
      /\ Apart(known) /\ P!ToSet(known) = NamesOf(d)
  BY <1>0 DEF Listing, NamesOf, Apart, P!ToSet
<1> HIDE DEF known
<1>2. /\ rest \in Seq(Conns) /\ Len(rest) \in Nat /\ Len(rest) <= Beside /\ Len(rest) <= Len(known)
      /\ \A i \in 1..Len(rest) : rest[i] = known[i]
      /\ Len(known) <= Beside => rest = known
  <2>1. CASE Len(known) > Beside
    <3>1. Len(known) - 1 \in Nat /\ Len(known) - 1 <= Beside
      BY <1>0, <1>1, <2>1
    <3>4. \A i \in 1..Len(known) : known[i] \in Conns
      <4>1. known \in Seq(Conns)
        BY <1>1
      <4> QED
        BY <4>1
    <3>5. \A i \in 1..(Len(known) - 1) : known[i] \in Conns
      <4>1. \A i \in 1..(Len(known) - 1) : i \in 1..Len(known)
        BY <1>1
      <4> QED
        BY <3>4, <4>1
    <3>2. rest = SubSeq(known, 1, Len(known) - 1)
      BY <2>1 DEF P!Front
    <3> HIDE DEF rest
    <3>3. /\ rest \in Seq(Conns) /\ Len(rest) = Len(known) - 1
          /\ \A i \in 1..Len(rest) : rest[i] = known[i]
      <4> DEFINE n == Len(known) - 1
      <4>1. n \in Nat /\ 1 \in Int /\ n \in Int /\ \A i \in 1..n : known[i] \in Conns
        BY <3>1, <3>5
      <4> HIDE DEF n
      <4>2. /\ SubSeq(known, 1, n) \in Seq(Conns)
            /\ Len(SubSeq(known, 1, n)) = IF 1 <= n THEN n - 1 + 1 ELSE 0
            /\ \A i \in 1..(n - 1 + 1) : SubSeq(known, 1, n)[i] = known[1 + i - 1]
        BY <4>1, SubSeqProperties
      <4>3. rest = SubSeq(known, 1, n)
        BY <3>2 DEF n
      <4>4. Len(rest) = n
        BY <4>1, <4>2, <4>3
      <4>5. \A i \in 1..n : i \in 1..(n - 1 + 1) /\ 1 + i - 1 = i
        BY <4>1
      <4>6. \A i \in 1..n : rest[i] = known[i]
        BY <4>2, <4>3, <4>5
      <4> QED
        BY <4>2, <4>3, <4>4, <4>6 DEF n
    <3> QED
      BY <3>1, <3>3, <2>1, <1>0, <1>1
  <2>2. CASE ~(Len(known) > Beside)
    BY <1>0, <1>1, <2>2
  <2> QED
    BY <2>1, <2>2
<1> HIDE DEF rest
<1>3. /\ e \in Seq(Conns) /\ Len(e) = Len(rest) + 1
      /\ e[1] = c /\ \A i \in 1..Len(rest) : e[i + 1] = known[i]
  BY <1>2
<1>4. e = P!Entry(d, c)
  BY DEF P!Entry, known, rest
<1> HIDE DEF e
<1>5. \A i \in 1..Len(rest) : i \in 1..Len(known) /\ known[i] \in NamesOf(d)
  BY <1>1, <1>2 DEF P!ToSet
<1>6. \A i \in 1..Len(e) : i = 1 \/ (i - 1 \in 1..Len(rest) /\ e[i] = known[i - 1])
  BY <1>2, <1>3
<1>7. Apart(e)
  <2> SUFFICES ASSUME NEW i \in 1..Len(e), NEW j \in 1..Len(e), e[i] = e[j] PROVE i = j
    BY DEF Apart
  <2>1. CASE i = 1 /\ j = 1
    BY <2>1
  <2>2. CASE i # 1 /\ j = 1
    BY <2>2, <1>3, <1>5, <1>6
  <2>3. CASE i = 1 /\ j # 1
    BY <2>3, <1>3, <1>5, <1>6
  <2>4. CASE i # 1 /\ j # 1
    <3>1. known[i - 1] = known[j - 1] /\ i - 1 \in 1..Len(known) /\ j - 1 \in 1..Len(known)
      BY <2>4, <1>5, <1>6
    <3>2. i - 1 = j - 1
      BY <3>1, <1>1 DEF Apart
    <3> QED
      BY <3>2
  <2> QED
    BY <2>1, <2>2, <2>3, <2>4
<1>8. c \in P!ToSet(e)
  BY <1>2, <1>3 DEF P!ToSet
<1>9. P!ToSet(e) \subseteq NamesOf(d) \cup {c}
  <2> SUFFICES ASSUME NEW i \in 1..Len(e) PROVE e[i] \in NamesOf(d) \cup {c}
    BY <1>3 DEF P!ToSet
  <2> QED
    BY <1>3, <1>5, <1>6
<1>10. ASSUME Cardinality(NamesOf(d)) <= Beside PROVE NamesOf(d) \subseteq P!ToSet(e)
  <2>1. Len(known) <= Beside
    BY <1>1, <1>10, ListSize
  <2>2. Len(rest) = Len(known)
    BY <2>1, <1>2
  <2> SUFFICES ASSUME NEW i \in 1..Len(known) PROVE known[i] \in P!ToSet(e)
    BY <1>1 DEF P!ToSet
  <2>3. i + 1 \in 1..Len(e) /\ e[i + 1] = known[i]
    BY <2>2, <1>1, <1>2, <1>3
  <2> QED
    BY <2>3, <1>3 DEF P!ToSet
<1>11. Listing(e)
  BY <1>0, <1>2, <1>3, <1>7 DEF Listing
<1> QED
  BY <1>3, <1>4, <1>8, <1>9, <1>10, <1>11

\* The records of the connections and of the sockets.
Connections == [pc : {"new", "status", "read", "write", "up", "last", "store", "gone"},
                as : P!Stored \cup {"none"}, doc : P!Docs, closed : BOOLEAN]
Sockets == [join : {"new", "status", "done"}, leave : {"new", "status", "done"},
            as : P!Stored \cup {"none"}]

\* What the records of a connection and of a socket have at every point.
Plain(r) ==
  /\ r.pc \in {"status", "read", "write"} => r.as \in Visible
  /\ r.pc \in {"new", "up"} => ~r.closed
  /\ r.pc \in {"last", "store"} => r.doc # NoDoc
Whole(w, sw) ==
  /\ w.join = "status" => w.as \in Visible /\ "came" \in sw
  /\ w.leave = "status" => "went" \in sw

PresenceTypes ==
  /\ status \in Visible \cup {"offline"} /\ stored \in P!Stored
  /\ start \in {"none", "status", "keys", "delete", "end"}
  /\ unruly \in BOOLEAN /\ crowded \in BOOLEAN /\ swayed \subseteq {"came", "went"}
  /\ conn \in [Conns -> Connections] /\ \A c \in Conns : Plain(conn[c])
  /\ sock \in [Socks -> Sockets] /\ \A s \in Socks : Whole(sock[s], swayed)

\* A list is short, without repetitions, and of connections that have written themselves in.
Inscribed(c, K) == K[c].pc \in {"up", "last", "store", "gone"}
Fits(d, K) == Listing(d) /\ \A c \in NamesOf(d) : Inscribed(c, K)
ListsFit == Fits(devices, conn) /\ \A c \in Conns : Fits(conn[c].doc, conn)

\* The connections whose handler is under way, and those that others are shown.
Flying(K) == {c \in Conns : K[c].pc \in {"status", "read", "write", "last", "store"}}
SeenIn(K) == {c \in Conns : K[c].pc = "up" /\ K[c].as \in Visible}
\* The list says who is there; many were there once.
Tells(L, K, many) == L \subseteq SeenIn(K) /\ (~many => SeenIn(K) = L)
\* The status says whether anybody is listed, but for what sockets wrote.
Offline(st, L, sw) ==
  /\ "went" \notin sw /\ L # {} => st # "offline"
  /\ "came" \notin sw /\ L = {} => st = "offline"

\* What the one handler under way knows.
Knows(c, K, d, st, many, sw) ==
  /\ ~K[c].closed
  /\ K[c].pc \in {"status", "read", "write"} => Tells(NamesOf(d), K, many)
  /\ K[c].pc = "status" => Offline(st, NamesOf(d), sw)
  /\ K[c].pc \in {"read", "write"} /\ "went" \notin sw => st # "offline"
  /\ K[c].pc = "write" => K[c].doc = d
  /\ K[c].pc \in {"last", "store"} => Tells(NamesOf(K[c].doc), K, many)
  /\ K[c].pc = "last" => K[c].doc = <<>>
  /\ K[c].pc = "store" => Offline(st, NamesOf(K[c].doc), sw)

\* Nobody is there.
NoneUp(K) == \A c \in Conns : K[c].pc # "up"

\* Nothing is under way, a worker starts, or one handler is under way.
Resting ==
  /\ Flying(conn) = {} /\ start = "none"
  /\ Tells(NamesOf(devices), conn, crowded) /\ Offline(status, NamesOf(devices), swayed)
Starting ==
  /\ Flying(conn) = {} /\ start \in {"keys", "delete", "end"}
  /\ ("came" \notin swayed => status = "offline")
  /\ NoneUp(conn) /\ (start = "end" => devices = NoDoc)
Serving ==
  /\ start = "none"
  /\ \E c \in Conns : Flying(conn) = {c} /\ Knows(c, conn, devices, status, crowded, swayed)

\* While every handler began after the last one was through, at most one is under way, or a
\* worker that starts while nobody is there.
Orderly ==
  ~unruly => Resting \/ Starting \/ Serving

PresenceInv == PresenceTypes /\ ListsFit /\ Orderly

\* The module says it of the state, the proof of what it is given.
LEMMA SeenIsSeenIn == P!Seen = SeenIn(conn)
  BY DEF P!Seen, SeenIn, P!Up

LEMMA BusyIs ==
  ASSUME PresenceTypes
  PROVE  /\ P!InFlight = Flying(conn)
         /\ P!Busy <=> Flying(conn) # {} \/ start # "none"
<1>1. P!InFlight = Flying(conn)
  BY DEF PresenceTypes, Connections, P!InFlight, Flying
<1> QED
  BY <1>1 DEF P!Busy

LEMMA NamesAre == ASSUME NEW d, Listing(d) PROVE NamesOf(d) \subseteq Conns
  BY DEF Listing, NamesOf, P!ToSet

\* Only c moves.
OnlyMoves(c, K, M) ==
  /\ K \in [Conns -> Connections] /\ M \in [Conns -> Connections]
  /\ \A e \in Conns \ {c} : M[e] = K[e]

\* A list that fits still does when somebody writes himself in.
LEMMA MoveFits ==
  ASSUME NEW c \in Conns, NEW K, NEW M, OnlyMoves(c, K, M), Inscribed(c, K) => Inscribed(c, M),
         NEW d, Fits(d, K)
  PROVE  Fits(d, M)
<1>1. NamesOf(d) \subseteq Conns
  BY NamesAre DEF Fits
<1>2. ASSUME NEW e \in NamesOf(d) PROVE Inscribed(e, M)
  BY <1>1 DEF Fits, OnlyMoves, Inscribed
<1> QED
  BY <1>2 DEF Fits

\* Who is shown and who is under way, after the step of one.
LEMMA MoveSees ==
  ASSUME NEW c \in Conns, NEW K, NEW M, OnlyMoves(c, K, M)
  PROVE  /\ ~(M[c].pc = "up" /\ M[c].as \in Visible) => SeenIn(M) = SeenIn(K) \ {c}
         /\ M[c].pc = "up" /\ M[c].as \in Visible => SeenIn(M) = SeenIn(K) \cup {c}
         /\ K[c].pc # "up" => c \notin SeenIn(K)
         /\ M[c].pc \notin {"status", "read", "write", "last", "store"} =>
              Flying(M) = Flying(K) \ {c}
         /\ M[c].pc \in {"status", "read", "write", "last", "store"} =>
              Flying(M) = Flying(K) \cup {c}
         /\ K[c].pc \in {"status", "read", "write", "last", "store"} <=> c \in Flying(K)
<1>1. \A e \in Conns \ {c} : M[e] = K[e]
  BY DEF OnlyMoves
<1>2. /\ ~(M[c].pc = "up" /\ M[c].as \in Visible) => SeenIn(M) = SeenIn(K) \ {c}
      /\ M[c].pc = "up" /\ M[c].as \in Visible => SeenIn(M) = SeenIn(K) \cup {c}
      /\ K[c].pc # "up" => c \notin SeenIn(K)
  BY <1>1 DEF SeenIn
<1>3. /\ M[c].pc \notin {"status", "read", "write", "last", "store"} => Flying(M) = Flying(K) \ {c}
      /\ M[c].pc \in {"status", "read", "write", "last", "store"} => Flying(M) = Flying(K) \cup {c}
      /\ K[c].pc \in {"status", "read", "write", "last", "store"} <=> c \in Flying(K)
  BY <1>1 DEF Flying
<1> QED
  BY <1>2, <1>3

LEMMA SeenStays ==
  ASSUME NEW c \in Conns, NEW K, NEW M, OnlyMoves(c, K, M), K[c].pc # "up", M[c].pc # "up"
  PROVE  SeenIn(M) = SeenIn(K)
<1>1. SeenIn(M) = SeenIn(K) \ {c} /\ c \notin SeenIn(K)
  BY MoveSees
<1> QED
  BY <1>1

\* A step of one connection keeps the types and the lists.
LEMMA Turn ==
  ASSUME PresenceInv, NEW c \in Conns, OnlyMoves(c, conn, conn'), Inscribed(c, conn) =>
           Inscribed(c, conn'),
         Plain(conn'[c]), Fits(conn'[c].doc, conn), Fits(devices', conn'),
         sock' = sock, swayed' = swayed, start' = start, stored' = stored, status' \in Visible \cup {"offline"},
         unruly' \in BOOLEAN, crowded' \in BOOLEAN
  PROVE  PresenceTypes' /\ ListsFit'
<1>1. \A e \in Conns : Plain(conn'[e])
  BY DEF PresenceInv, PresenceTypes, OnlyMoves
<1>2. \A e \in Conns : Fits(conn'[e].doc, conn)
  BY DEF PresenceInv, ListsFit, OnlyMoves
<1>3. \A e \in Conns : Fits(conn'[e].doc, conn')
  BY <1>2, MoveFits
<1>4. conn' \in [Conns -> Connections]
  BY DEF OnlyMoves
<1>5. PresenceTypes'
  BY <1>1, <1>4 DEF PresenceInv, PresenceTypes
<1> QED
  BY <1>3, <1>5 DEF ListsFit

\* The one handler under way, in an orderly history.
LEMMA Alone ==
  ASSUME PresenceInv, ~unruly, NEW c \in Conns,
         conn[c].pc \in {"status", "read", "write", "last", "store"}
  PROVE  /\ start = "none" /\ Flying(conn) = {c} /\ Knows(c, conn, devices, status, crowded, swayed)
<1>1. c \in Flying(conn)
  BY DEF Flying
<1>2. Serving
  BY <1>1 DEF PresenceInv, Orderly, Resting, Starting
<1> QED
  BY <1>1, <1>2 DEF Serving, PresenceInv, Orderly

\* A handler that begins in an orderly history begins alone.
LEMMA First ==
  ASSUME PresenceInv, ~(unruly \/ P!Busy)
  PROVE  /\ Flying(conn) = {} /\ start = "none"
         /\ Tells(NamesOf(devices), conn, crowded) /\ Offline(status, NamesOf(devices), swayed)
<1>1. Flying(conn) = {} /\ start = "none"
  BY BusyIs DEF PresenceInv
<1>2. Resting
  BY <1>1 DEF PresenceInv, Orderly, Starting, Serving
<1> QED
  BY <1>1, <1>2 DEF Resting, PresenceInv, Orderly

\* The actions, one by one.
LEMMA AcceptKeeps ==
  ASSUME P!PresenceAssumption, PresenceInv, NEW c \in Conns, P!Accept(c)
  PROVE  PresenceInv'
<1> DEFINE p == IF stored = "invisible" THEN "up" ELSE "status"
<1>1. conn[c] \in Connections /\ conn[c].pc = "new" /\ stored \in P!Stored /\ Plain(conn[c])
  BY DEF PresenceInv, PresenceTypes, P!Accept
<1>2. /\ conn' \in [Conns -> Connections] /\ OnlyMoves(c, conn, conn')
      /\ conn'[c].pc = p /\ conn'[c].as = stored /\ conn'[c].doc = conn[c].doc
      /\ conn'[c].closed = conn[c].closed
  BY <1>1 DEF PresenceInv, PresenceTypes, P!Accept, Connections, OnlyMoves
<1>3. Plain(conn'[c])
  BY <1>1, <1>2 DEF Plain, P!Stored
<1>4. Fits(conn[c].doc, conn) /\ Fits(devices, conn)
  BY DEF PresenceInv, ListsFit
<1>5. ~Inscribed(c, conn)
  BY <1>1 DEF Inscribed
<1>6. Fits(devices', conn')
  BY <1>2, <1>4, <1>5, MoveFits DEF P!Accept
<1>7. unruly' \in BOOLEAN
  BY DEF P!Accept, PresenceInv, PresenceTypes
<1>8. PresenceTypes' /\ ListsFit'
  <2>1. /\ sock' = sock /\ start' = start /\ stored' = stored /\ status' = status
        /\ crowded' = crowded /\ swayed' = swayed
    BY DEF P!Accept
  <2>2. status' \in Visible \cup {"offline"} /\ crowded' \in BOOLEAN
    BY <2>1 DEF PresenceInv, PresenceTypes
  <2> QED
    BY <1>2, <1>3, <1>4, <1>5, <1>6, <1>7, <2>1, <2>2, Turn
<1>9. Orderly'
  <2> SUFFICES ASSUME ~unruly'
               PROVE  Resting' \/ Serving'
    BY DEF Orderly
  <2>1. /\ Flying(conn) = {} /\ start = "none"
        /\ Tells(NamesOf(devices), conn, crowded) /\ Offline(status, NamesOf(devices), swayed)
    BY First DEF P!Accept
  <2>2. /\ devices' = devices /\ status' = status /\ start' = start /\ sock' = sock
        /\ crowded' = crowded /\ swayed' = swayed
    BY DEF P!Accept
  <2>3. SeenIn(conn') = SeenIn(conn)
    <3>1. ~(conn'[c].pc = "up" /\ conn'[c].as \in Visible)
      BY <1>2, PresenceConstants
    <3> QED
      BY <3>1, <1>1, <1>2, MoveSees
  <2>4. Tells(NamesOf(devices), conn', crowded)
    BY <2>1, <2>3 DEF Tells
  <2>5. CASE stored = "invisible"
    <3>1. Flying(conn') = {}
      BY <2>5, <1>2, <2>1, MoveSees
    <3> QED
      BY <3>1, <2>1, <2>2, <2>4 DEF Resting
  <2>6. CASE stored # "invisible"
    <3>1. Flying(conn') = {c}
      BY <2>6, <1>2, <2>1, MoveSees
    <3>2. Knows(c, conn', devices, status, crowded, swayed)
      BY <2>6, <1>1, <1>2, <2>1, <2>4 DEF Knows, Plain
    <3> QED
      BY <3>1, <3>2, <2>1, <2>2 DEF Serving
  <2> QED
    BY <2>5, <2>6
<1> QED
  BY <1>8, <1>9 DEF PresenceInv

LEMMA AppearKeeps ==
  ASSUME P!PresenceAssumption, PresenceInv, NEW c \in Conns, P!Appear(c)
  PROVE  PresenceInv'
<1>1. conn[c] \in Connections /\ conn[c].pc = "status" /\ Plain(conn[c]) /\ status' = conn[c].as
  BY DEF PresenceInv, PresenceTypes, P!Appear
<1>2. /\ conn' \in [Conns -> Connections] /\ OnlyMoves(c, conn, conn')
      /\ conn'[c].pc = "read" /\ conn'[c].as = conn[c].as /\ conn'[c].doc = conn[c].doc
      /\ conn'[c].closed = conn[c].closed
  BY <1>1 DEF PresenceInv, PresenceTypes, P!Appear, P!Go, Connections, OnlyMoves
<1>3. Plain(conn'[c]) /\ status' \in Visible
  BY <1>1, <1>2 DEF Plain
<1>4. Fits(conn[c].doc, conn) /\ Fits(devices, conn)
  BY DEF PresenceInv, ListsFit
<1>5. ~Inscribed(c, conn)
  BY <1>1 DEF Inscribed
<1>6. Fits(devices', conn')
  BY <1>2, <1>4, <1>5, MoveFits DEF P!Appear
<1>7. /\ sock' = sock /\ start' = start /\ stored' = stored /\ devices' = devices
      /\ crowded' = crowded /\ swayed' = swayed
      /\ unruly' = unruly /\ unruly' \in BOOLEAN /\ crowded' \in BOOLEAN
  BY DEF P!Appear, PresenceInv, PresenceTypes
<1>8. PresenceTypes' /\ ListsFit'
  BY <1>2, <1>3, <1>4, <1>5, <1>6, <1>7, Turn
<1>9. Orderly'
  <2> SUFFICES ASSUME ~unruly' PROVE Serving'
    BY DEF Orderly
  <2>1. /\ start = "none" /\ Flying(conn) = {c} /\ Knows(c, conn, devices, status, crowded, swayed)
    BY <1>1, <1>7, Alone
  <2>3. SeenIn(conn') = SeenIn(conn)
    <3>1. conn[c].pc # "up" /\ conn'[c].pc # "up"
      BY <1>1, <1>2
    <3> QED
      BY <1>2, <3>1, SeenStays
  <2>4. Tells(NamesOf(devices), conn', crowded)
    BY <1>1, <2>1, <2>3 DEF Tells, Knows
  <2>5. Flying(conn') = {c}
    BY <1>2, <2>1, MoveSees
  <2>6. Knows(c, conn', devices, status', crowded, swayed)
    BY <1>2, <1>3, <2>1, <2>4, PresenceConstants DEF Knows
  <2> QED
    BY <2>1, <2>5, <2>6, <1>7 DEF Serving
<1> QED
  BY <1>8, <1>9 DEF PresenceInv

LEMMA ReadDevicesKeeps ==
  ASSUME P!PresenceAssumption, PresenceInv, NEW c \in Conns, P!ReadDevices(c)
  PROVE  PresenceInv'
<1>0. Fits(conn[c].doc, conn) /\ Fits(devices, conn) /\ devices \in P!Docs
  BY DEF PresenceInv, ListsFit, Fits, Listing, P!Docs
<1>1. conn[c] \in Connections /\ conn[c].pc = "read" /\ Plain(conn[c])
  BY DEF PresenceInv, PresenceTypes, P!ReadDevices
<1>2. /\ conn' \in [Conns -> Connections] /\ OnlyMoves(c, conn, conn')
      /\ conn'[c].pc = "write" /\ conn'[c].as = conn[c].as /\ conn'[c].doc = devices
      /\ conn'[c].closed = conn[c].closed
  BY <1>0, <1>1 DEF PresenceInv, PresenceTypes, P!ReadDevices, Connections, OnlyMoves
<1>3. Plain(conn'[c])
  BY <1>1, <1>2 DEF Plain
<1>5. ~Inscribed(c, conn)
  BY <1>1 DEF Inscribed
<1>6. Fits(devices', conn')
  BY <1>2, <1>0, <1>5, MoveFits DEF P!ReadDevices
<1>7. /\ sock' = sock /\ start' = start /\ stored' = stored /\ devices' = devices
      /\ crowded' = crowded /\ swayed' = swayed
      /\ status' = status /\ unruly' = unruly /\ unruly' \in BOOLEAN /\ crowded' \in BOOLEAN
      /\ status' \in Visible \cup {"offline"}
  BY DEF P!ReadDevices, PresenceInv, PresenceTypes
<1>8. PresenceTypes' /\ ListsFit'
  BY <1>2, <1>3, <1>0, <1>5, <1>6, <1>7, Turn
<1>9. Orderly'
  <2> SUFFICES ASSUME ~unruly' PROVE Serving'
    BY DEF Orderly
  <2>1. /\ start = "none" /\ Flying(conn) = {c} /\ Knows(c, conn, devices, status, crowded, swayed)
    BY <1>1, <1>7, Alone
  <2>3. SeenIn(conn') = SeenIn(conn)
    <3>1. conn[c].pc # "up" /\ conn'[c].pc # "up"
      BY <1>1, <1>2
    <3> QED
      BY <1>2, <3>1, SeenStays
  <2>4. Tells(NamesOf(devices), conn', crowded)
    BY <1>1, <2>1, <2>3 DEF Tells, Knows
  <2>5. Flying(conn') = {c}
    BY <1>2, <2>1, MoveSees
  <2>6. Knows(c, conn', devices, status, crowded, swayed)
    BY <1>1, <1>2, <2>1, <2>4 DEF Knows
  <2> QED
    BY <2>1, <2>5, <2>6, <1>7 DEF Serving
<1> QED
  BY <1>8, <1>9 DEF PresenceInv

LEMMA WriteDevicesKeeps ==
  ASSUME P!PresenceAssumption, PresenceInv, NEW c \in Conns, P!WriteDevices(c)
  PROVE  PresenceInv'
<1> DEFINE e == P!Entry(conn[c].doc, c)
           p == IF conn[c].closed THEN "gone" ELSE "up"
<1>0. Fits(conn[c].doc, conn) /\ Fits(devices, conn)
  BY DEF PresenceInv, ListsFit
<1>1. conn[c] \in Connections /\ conn[c].pc = "write" /\ Plain(conn[c])
  BY DEF PresenceInv, PresenceTypes, P!WriteDevices
<1>2. /\ conn' \in [Conns -> Connections] /\ OnlyMoves(c, conn, conn')
      /\ conn'[c].pc = p /\ conn'[c].as = conn[c].as /\ conn'[c].doc = NoDoc
      /\ conn'[c].closed = conn[c].closed
  BY <1>1 DEF PresenceInv, PresenceTypes, P!WriteDevices, Connections, OnlyMoves, P!Docs
<1>3. Plain(conn'[c])
  BY <1>1, <1>2 DEF Plain, Connections
<1>5. ~Inscribed(c, conn) /\ Inscribed(c, conn')
  BY <1>1, <1>2 DEF Inscribed
<1>4. c \notin NamesOf(conn[c].doc) /\ Listing(conn[c].doc)
  BY <1>0, <1>5 DEF Fits
<1>10. /\ Listing(e) /\ e \in Seq(Conns) /\ c \in P!ToSet(e)
       /\ P!ToSet(e) \subseteq NamesOf(conn[c].doc) \cup {c}
       /\ Cardinality(NamesOf(conn[c].doc)) <= Beside => P!ToSet(e) = NamesOf(conn[c].doc) \cup {c}
  BY <1>4, EntryFits
<1>11. devices' = e
  BY DEF P!WriteDevices
<1> HIDE DEF e
<1>12. e # NoDoc /\ NamesOf(e) = P!ToSet(e)
  BY <1>10, PresenceConstants DEF NamesOf
<1>6. Fits(devices', conn')
  <2>1. Fits(conn[c].doc, conn')
    BY <1>0, <1>2, <1>5, MoveFits
  <2> QED
    BY <2>1, <1>5, <1>10, <1>11, <1>12 DEF Fits
<1>13. Fits(conn'[c].doc, conn)
  BY <1>2 DEF Fits, Listing, NamesOf
<1>7. /\ sock' = sock /\ start' = start /\ stored' = stored
      /\ status' = status /\ unruly' = unruly /\ swayed' = swayed /\ unruly' \in BOOLEAN
      /\ status' \in Visible \cup {"offline"}
  BY DEF P!WriteDevices, PresenceInv, PresenceTypes
<1>14. crowded' = (crowded \/ Cardinality(SeenIn(conn)) > Beside)
  BY SeenIsSeenIn, DevicesCount DEF P!WriteDevices
<1>15. crowded' \in BOOLEAN
  BY <1>14 DEF PresenceInv, PresenceTypes
<1>8. PresenceTypes' /\ ListsFit'
  BY <1>2, <1>3, <1>13, <1>5, <1>6, <1>7, <1>15, Turn
<1>9. Orderly'
  <2> SUFFICES ASSUME ~unruly' PROVE Resting'
    BY DEF Orderly
  <2>1. /\ start = "none" /\ Flying(conn) = {c} /\ Knows(c, conn, devices, status, crowded, swayed)
    BY <1>1, <1>7, Alone
  <2>2. /\ ~conn[c].closed /\ ("went" \notin swayed => status # "offline") /\ conn[c].doc = devices
        /\ Tells(NamesOf(devices), conn, crowded)
    BY <1>1, <2>1 DEF Knows
  <2>3. SeenIn(conn') = SeenIn(conn) \cup {c}
    BY <1>1, <1>2, <2>2, MoveSees DEF Plain
  <2>4. Tells(NamesOf(devices'), conn', crowded')
    <3>1. P!ToSet(e) \subseteq SeenIn(conn) \cup {c}
      BY <2>2, <1>10 DEF Tells
    <3>2. ASSUME ~crowded' PROVE P!ToSet(e) = SeenIn(conn) \cup {c}
      <4>1. SeenIn(conn) = NamesOf(devices) /\ ~(Cardinality(SeenIn(conn)) > Beside)
        BY <3>2, <1>14, <2>2 DEF Tells
      <4>2. Listing(devices) /\ Cardinality(NamesOf(devices)) \in Nat
        <5>1. Listing(devices)
          BY <1>0 DEF Fits
        <5>2. CASE devices = NoDoc
          BY <5>1, <5>2, FS_EmptySet DEF NamesOf
        <5>3. CASE devices # NoDoc
          BY <5>1, <5>3, ListSize DEF NamesOf, Listing
        <5> QED
          BY <5>1, <5>2, <5>3
      <4>3. Cardinality(NamesOf(devices)) <= Beside
        BY <4>1, <4>2, PresenceConstants
      <4> QED
        BY <4>1, <4>3, <1>10, <2>2
    <3> QED
      BY <3>1, <3>2, <2>3, <1>11, <1>12 DEF Tells
  <2>5. Flying(conn') = {}
    BY <1>2, <2>1, MoveSees
  <2>6. Offline(status', NamesOf(devices'), swayed')
    BY <1>7, <1>10, <1>11, <1>12, <2>2 DEF Offline
  <2> QED
    BY <2>1, <2>4, <2>5, <2>6, <1>7 DEF Resting
<1> QED
  BY <1>8, <1>9 DEF PresenceInv

LEMMA CloseEarlyKeeps ==
  ASSUME P!PresenceAssumption, PresenceInv, NEW c \in Conns, P!CloseEarly(c)
  PROVE  PresenceInv'
<1>0. Fits(conn[c].doc, conn) /\ Fits(devices, conn)
  BY DEF PresenceInv, ListsFit
<1>1. conn[c] \in Connections /\ conn[c].pc \in {"status", "read", "write"} /\ Plain(conn[c])
  BY DEF PresenceInv, PresenceTypes, P!CloseEarly
<1>2. /\ conn' \in [Conns -> Connections] /\ OnlyMoves(c, conn, conn')
      /\ conn'[c].pc = conn[c].pc /\ conn'[c].as = conn[c].as /\ conn'[c].doc = conn[c].doc
  BY <1>1 DEF PresenceInv, PresenceTypes, P!CloseEarly, Connections, OnlyMoves
<1>3. Plain(conn'[c])
  BY <1>1, <1>2 DEF Plain
<1>5. ~Inscribed(c, conn)
  BY <1>1 DEF Inscribed
<1>6. Fits(devices', conn')
  BY <1>2, <1>0, <1>5, MoveFits DEF P!CloseEarly
<1>7. /\ sock' = sock /\ start' = start /\ stored' = stored /\ unruly' = TRUE /\ unruly' \in BOOLEAN
      /\ swayed' = swayed /\ crowded' \in BOOLEAN /\ status' \in Visible \cup {"offline"}
  BY DEF P!CloseEarly, PresenceInv, PresenceTypes
<1>8. PresenceTypes' /\ ListsFit'
  BY <1>2, <1>3, <1>0, <1>5, <1>6, <1>7, Turn
<1> QED
  BY <1>7, <1>8 DEF PresenceInv, Orderly

\* Taking a device out of a list.
LEMMA Taking ==
  ASSUME P!PresenceAssumption, NEW d, d # NoDoc, NEW K, Fits(d, K), NEW c
  PROVE  /\ P!Without(d, c) \in Seq(Conns) /\ P!Without(d, c) # NoDoc /\ Fits(P!Without(d, c), K)
         /\ NamesOf(P!Without(d, c)) = NamesOf(d) \ {c}
         /\ P!Without(d, c) = <<>> <=> NamesOf(P!Without(d, c)) = {}
<1> DEFINE w == P!Without(d, c)
<1>1. d \in Seq(Conns) /\ Len(d) <= Beside + 1 /\ Apart(d) /\ Beside \in Nat
        /\ NoDoc \notin Seq(Conns)
  BY PresenceConstants DEF Fits, Listing
<1>2. w \in Seq(Conns) /\ Len(w) <= Len(d) /\ Apart(w) /\ P!ToSet(w) = P!ToSet(d) \ {c}
  BY <1>1, WithoutFits
<1> HIDE DEF w
<1>3. w # NoDoc /\ NamesOf(w) = P!ToSet(w) /\ NamesOf(d) = P!ToSet(d)
  BY <1>1, <1>2 DEF NamesOf
<1>4. Listing(w)
  BY <1>1, <1>2 DEF Listing
<1>5. Fits(w, K)
  BY <1>2, <1>3, <1>4 DEF Fits
<1>6. w = <<>> <=> P!ToSet(w) = {}
  <2>1. w = <<>> => P!ToSet(w) = {}
    BY DEF P!ToSet
  <2>2. ASSUME w # <<>> PROVE P!ToSet(w) # {}
    <3>1. 1 \in 1..Len(w) /\ DOMAIN w = 1..Len(w)
      BY <2>2, <1>2
    <3> QED
      BY <3>1 DEF P!ToSet
  <2> QED
    BY <2>1, <2>2
<1> QED
  BY <1>2, <1>3, <1>5, <1>6 DEF w

LEMMA LeaveKeeps ==
  ASSUME P!PresenceAssumption, PresenceInv, NEW c \in Conns, P!Leave(c)
  PROVE  PresenceInv'
<1> DEFINE w == P!Without(devices, c)
           n == IF devices = NoDoc THEN NoDoc ELSE w
           p == IF devices = NoDoc THEN "gone" ELSE IF w = <<>> THEN "last" ELSE "store"
<1>0. Fits(conn[c].doc, conn) /\ Fits(devices, conn)
  BY DEF PresenceInv, ListsFit
<1>1. conn[c] \in Connections /\ conn[c].pc = "up" /\ Plain(conn[c])
  BY DEF PresenceInv, PresenceTypes, P!Leave
<1>4. devices # NoDoc => /\ w \in Seq(Conns) /\ w # NoDoc /\ Fits(w, conn)
                         /\ NamesOf(w) = NamesOf(devices) \ {c} /\ (w = <<>> <=> NamesOf(w) = {})
  BY <1>0, Taking
<1>10. conn' = [conn EXCEPT ![c].doc = n, ![c].pc = p]
  BY DEF P!Leave
<1> HIDE DEF w
<1>11. n \in P!Docs
  BY <1>4 DEF P!Docs
<1>2. /\ conn' \in [Conns -> Connections] /\ OnlyMoves(c, conn, conn')
      /\ conn'[c].pc = p /\ conn'[c].as = conn[c].as /\ conn'[c].doc = n
      /\ conn'[c].closed = conn[c].closed
  BY <1>1, <1>10, <1>11 DEF PresenceInv, PresenceTypes, Connections, OnlyMoves
<1>3. Plain(conn'[c])
  BY <1>2, <1>4 DEF Plain
<1>5. Inscribed(c, conn) /\ Inscribed(c, conn')
  BY <1>1, <1>2 DEF Inscribed
<1>6. Fits(devices', conn')
  BY <1>2, <1>0, <1>5, MoveFits DEF P!Leave
<1>12. Fits(conn'[c].doc, conn)
  BY <1>0, <1>2, <1>4
<1>7. /\ sock' = sock /\ start' = start /\ stored' = stored /\ devices' = devices
      /\ crowded' = crowded /\ swayed' = swayed
      /\ status' = status /\ unruly' \in BOOLEAN /\ crowded' \in BOOLEAN
      /\ status' \in Visible \cup {"offline"}
  BY DEF P!Leave, PresenceInv, PresenceTypes
<1>8. PresenceTypes' /\ ListsFit'
  BY <1>2, <1>3, <1>12, <1>5, <1>6, <1>7, Turn
<1>9. Orderly'
  <2> SUFFICES ASSUME ~unruly'
               PROVE  Resting' \/ Serving'
    BY DEF Orderly
  <2>1. /\ Flying(conn) = {} /\ start = "none"
        /\ Tells(NamesOf(devices), conn, crowded) /\ Offline(status, NamesOf(devices), swayed)
    BY First DEF P!Leave
  <2>2. SeenIn(conn') = SeenIn(conn) \ {c}
    BY <1>2, MoveSees
  <2>3. Tells(NamesOf(devices) \ {c}, conn', crowded)
    BY <2>1, <2>2 DEF Tells
  <2>4. CASE devices = NoDoc
    <3>1. Flying(conn') = {}
      BY <2>4, <1>2, <2>1, MoveSees
    <3>2. NamesOf(devices) \ {c} = NamesOf(devices)
      BY <2>4 DEF NamesOf
    <3> QED
      BY <3>1, <3>2, <2>1, <2>3, <1>7 DEF Resting
  <2>5. CASE devices # NoDoc
    <3>1. Flying(conn') = {c}
      BY <2>5, <1>2, <2>1, MoveSees
    <3>2. ~conn'[c].closed
      BY <1>1, <1>2 DEF Plain
    <3>3. NamesOf(w) = NamesOf(devices) \ {c} /\ conn'[c].doc = w
      BY <2>5, <1>2, <1>4
    <3>4. w # <<>> => Offline(status, NamesOf(w), swayed)
      BY <2>1, <2>5, <1>4 DEF Offline
    <3>5. Knows(c, conn', devices, status, crowded, swayed)
      BY <3>2, <3>3, <3>4, <2>3, <2>5, <1>2 DEF Knows
    <3> QED
      BY <3>1, <3>5, <2>1, <1>7 DEF Serving
  <2> QED
    BY <2>4, <2>5
<1> QED
  BY <1>8, <1>9 DEF PresenceInv

LEMMA DisappearKeeps ==
  ASSUME P!PresenceAssumption, PresenceInv, NEW c \in Conns, P!Disappear(c)
  PROVE  PresenceInv'
<1>0. Fits(conn[c].doc, conn) /\ Fits(devices, conn)
  BY DEF PresenceInv, ListsFit
<1>1. conn[c] \in Connections /\ conn[c].pc = "last"
  BY DEF PresenceInv, PresenceTypes, P!Disappear
<1>2. /\ conn' \in [Conns -> Connections] /\ OnlyMoves(c, conn, conn')
      /\ conn'[c].pc = "store" /\ conn'[c].as = conn[c].as /\ conn'[c].doc = conn[c].doc
      /\ conn'[c].closed = conn[c].closed
  BY <1>1 DEF PresenceInv, PresenceTypes, P!Disappear, P!Go, Connections, OnlyMoves
<1>13. conn[c].doc # NoDoc
  BY <1>1 DEF PresenceInv, PresenceTypes, Plain
<1>3. Plain(conn'[c])
  BY <1>2, <1>13 DEF Plain
<1>5. Inscribed(c, conn) /\ Inscribed(c, conn')
  BY <1>1, <1>2 DEF Inscribed
<1>6. Fits(devices', conn')
  BY <1>2, <1>0, <1>5, MoveFits DEF P!Disappear
<1>7. /\ sock' = sock /\ start' = start /\ stored' = stored /\ devices' = devices
      /\ crowded' = crowded /\ swayed' = swayed
      /\ status' = "offline" /\ unruly' = unruly /\ unruly' \in BOOLEAN /\ crowded' \in BOOLEAN
      /\ status' \in Visible \cup {"offline"}
  BY DEF P!Disappear, PresenceInv, PresenceTypes
<1>8. PresenceTypes' /\ ListsFit'
  BY <1>2, <1>3, <1>0, <1>5, <1>6, <1>7, Turn
<1>9. Orderly'
  <2> SUFFICES ASSUME ~unruly' PROVE Serving'
    BY DEF Orderly
  <2>1. /\ start = "none" /\ Flying(conn) = {c} /\ Knows(c, conn, devices, status, crowded, swayed)
    BY <1>1, <1>7, Alone
  <2>3. SeenIn(conn') = SeenIn(conn)
    <3>1. conn[c].pc # "up" /\ conn'[c].pc # "up"
      BY <1>1, <1>2
    <3> QED
      BY <1>2, <3>1, SeenStays
  <2>4. Tells(NamesOf(conn[c].doc), conn', crowded)
    BY <1>1, <2>1, <2>3 DEF Tells, Knows
  <2>5. Flying(conn') = {c}
    BY <1>2, <2>1, MoveSees
  <2>7. NamesOf(conn[c].doc) = {}
    BY <1>1, <2>1 DEF Knows, NamesOf, P!ToSet
  <2>6. Knows(c, conn', devices, "offline", crowded, swayed)
    BY <1>1, <1>2, <2>1, <2>4, <2>7 DEF Knows, Offline
  <2> QED
    BY <2>1, <2>5, <2>6, <1>7 DEF Serving
<1> QED
  BY <1>8, <1>9 DEF PresenceInv

LEMMA StoreDevicesKeeps ==
  ASSUME P!PresenceAssumption, PresenceInv, NEW c \in Conns, P!StoreDevices(c)
  PROVE  PresenceInv'
<1>0. Fits(conn[c].doc, conn) /\ Fits(devices, conn)
  BY DEF PresenceInv, ListsFit
<1>1. conn[c] \in Connections /\ conn[c].pc = "store"
  BY DEF PresenceInv, PresenceTypes, P!StoreDevices
<1>2. /\ conn' \in [Conns -> Connections] /\ OnlyMoves(c, conn, conn')
      /\ conn'[c].pc = "gone" /\ conn'[c].as = conn[c].as /\ conn'[c].doc = NoDoc
      /\ conn'[c].closed = conn[c].closed
  BY <1>1 DEF PresenceInv, PresenceTypes, P!StoreDevices, Connections, OnlyMoves, P!Docs
<1>3. Plain(conn'[c])
  BY <1>2 DEF Plain
<1>5. Inscribed(c, conn) /\ Inscribed(c, conn')
  BY <1>1, <1>2 DEF Inscribed
<1>6. Fits(devices', conn')
  BY <1>2, <1>0, <1>5, MoveFits DEF P!StoreDevices
<1>13. Fits(conn'[c].doc, conn)
  BY <1>2 DEF Fits, Listing, NamesOf
<1>7. /\ sock' = sock /\ start' = start /\ stored' = stored /\ crowded' = crowded /\ swayed' = swayed
      /\ devices' = conn[c].doc
      /\ status' = status /\ unruly' = unruly /\ unruly' \in BOOLEAN /\ crowded' \in BOOLEAN
      /\ status' \in Visible \cup {"offline"}
  BY DEF P!StoreDevices, PresenceInv, PresenceTypes
<1>8. PresenceTypes' /\ ListsFit'
  BY <1>2, <1>3, <1>13, <1>5, <1>6, <1>7, Turn
<1>9. Orderly'
  <2> SUFFICES ASSUME ~unruly' PROVE Resting'
    BY DEF Orderly
  <2>1. /\ start = "none" /\ Flying(conn) = {c} /\ Knows(c, conn, devices, status, crowded, swayed)
    BY <1>1, <1>7, Alone
  <2>3. SeenIn(conn') = SeenIn(conn)
    <3>1. conn[c].pc # "up" /\ conn'[c].pc # "up"
      BY <1>1, <1>2
    <3> QED
      BY <1>2, <3>1, SeenStays
  <2>4. Tells(NamesOf(conn[c].doc), conn', crowded) /\ Offline(status, NamesOf(conn[c].doc), swayed)
    BY <1>1, <2>1, <2>3 DEF Tells, Knows
  <2>5. Flying(conn') = {}
    BY <1>2, <2>1, MoveSees
  <2> QED
    BY <2>1, <2>4, <2>5, <1>7 DEF Resting
<1> QED
  BY <1>8, <1>9 DEF PresenceInv

\* What a socket wrote to the status is excepted.
LEMMA Sways ==
  ASSUME P!PresenceAssumption, Orderly, conn' = conn, devices' = devices, start' = start,
         crowded' = crowded, unruly' = unruly, swayed \subseteq swayed',
         \/ status' = status
         \/ status' \in Visible /\ "came" \in swayed'
         \/ status' = "offline" /\ "went" \in swayed'
  PROVE  Orderly'
<1>1. "offline" \notin Visible
  BY PresenceConstants
<1>2. ASSUME NEW L, Offline(status, L, swayed) PROVE Offline(status', L, swayed')
  BY <1>1, <1>2 DEF Offline
<1>3. CASE unruly
  BY <1>3 DEF Orderly
<1>4. CASE Resting
  BY <1>2, <1>4 DEF Resting, Orderly
<1>5. CASE Starting
  BY <1>1, <1>5 DEF Starting, Orderly
<1>6. CASE Serving
  <2>1. PICK c \in Conns : Flying(conn) = {c} /\ Knows(c, conn, devices, status, crowded, swayed)
    BY <1>6 DEF Serving
  <2>2. Knows(c, conn, devices, status', crowded, swayed')
    <3>1. conn[c].pc = "status" => Offline(status', NamesOf(devices), swayed')
      BY <1>2, <2>1 DEF Knows
    <3>2. conn[c].pc = "store" => Offline(status', NamesOf(conn[c].doc), swayed')
      BY <1>2, <2>1 DEF Knows
    <3>3. conn[c].pc \in {"read", "write"} /\ "went" \notin swayed' => status' # "offline"
      BY <1>1, <2>1 DEF Knows
    <3> QED
      BY <2>1, <3>1, <3>2, <3>3 DEF Knows
  <2> QED
    BY <1>6, <2>1, <2>2 DEF Serving, Orderly
<1> QED
  BY <1>3, <1>4, <1>5, <1>6 DEF Orderly

\* A socket moves, and the connections and the list stay.
LEMMA SocketTurn ==
  ASSUME P!PresenceAssumption, PresenceInv, NEW s \in Socks, sock' \in [Socks -> Sockets],
         \A t \in Socks \ {s} : sock'[t] = sock[t], Whole(sock'[s], swayed'),
         conn' = conn, devices' = devices, start' = start, stored' = stored, crowded' = crowded,
         unruly' = unruly, swayed \subseteq swayed', swayed' \subseteq {"came", "went"},
         \/ status' = status
         \/ status' \in Visible /\ "came" \in swayed'
         \/ status' = "offline" /\ "went" \in swayed'
  PROVE  PresenceInv'
<1>1. \A t \in Socks : Whole(sock'[t], swayed')
  BY DEF PresenceInv, PresenceTypes, Whole
<1>2. PresenceTypes'
  BY <1>1 DEF PresenceInv, PresenceTypes
<1>3. ListsFit'
  BY DEF PresenceInv, ListsFit
<1>4. Orderly'
  BY Sways DEF PresenceInv
<1> QED
  BY <1>2, <1>3, <1>4 DEF PresenceInv

LEMMA SocketKeeps ==
  ASSUME P!PresenceAssumption, PresenceInv, NEW s \in Socks, P!Socket(s)
  PROVE  PresenceInv'
<1>1. /\ sock[s] \in Sockets /\ Whole(sock[s], swayed) /\ stored \in P!Stored
      /\ sock \in [Socks -> Sockets] /\ swayed \subseteq {"came", "went"}
  BY DEF PresenceInv, PresenceTypes
<1>3. CASE P!Join(s)
  <2>1. /\ sock' \in [Socks -> Sockets] /\ \A t \in Socks \ {s} : sock'[t] = sock[t]
        /\ sock'[s].as = stored /\ sock'[s].leave = sock[s].leave
        /\ sock'[s].join = IF stored \in Visible /\ status # stored THEN "status" ELSE "done"
        /\ swayed' = swayed \cup {"came"}
    BY <1>1, <1>3 DEF P!Join, Sockets
  <2>2. Whole(sock'[s], swayed')
    BY <1>1, <2>1 DEF Whole
  <2> QED
    BY <1>1, <1>3, <2>1, <2>2, SocketTurn DEF P!Join
<1>4. CASE P!Joined(s)
  <2>1. /\ sock' \in [Socks -> Sockets] /\ \A t \in Socks \ {s} : sock'[t] = sock[t]
        /\ sock'[s].join = "done" /\ sock'[s].leave = sock[s].leave /\ status' = sock[s].as
        /\ swayed' = swayed
    BY <1>1, <1>4 DEF P!Joined, Sockets
  <2>2. Whole(sock'[s], swayed') /\ status' \in Visible /\ "came" \in swayed'
    BY <1>1, <1>4, <2>1 DEF Whole, P!Joined
  <2> QED
    BY <1>1, <1>4, <2>1, <2>2, SocketTurn DEF P!Joined
<1>5. CASE P!Part(s)
  <2>1. /\ sock' \in [Socks -> Sockets] /\ \A t \in Socks \ {s} : sock'[t] = sock[t]
        /\ sock'[s].join = sock[s].join /\ sock'[s].as = sock[s].as
        /\ swayed' = swayed \cup {"went"}
    BY <1>1, <1>5 DEF P!Part, Sockets
  <2>2. Whole(sock'[s], swayed')
    BY <1>1, <2>1 DEF Whole
  <2> QED
    BY <1>1, <1>5, <2>1, <2>2, SocketTurn DEF P!Part
<1>6. CASE P!Parted(s)
  <2>1. /\ sock' \in [Socks -> Sockets] /\ \A t \in Socks \ {s} : sock'[t] = sock[t]
        /\ sock'[s].join = sock[s].join /\ sock'[s].as = sock[s].as /\ sock'[s].leave = "done"
        /\ swayed' = swayed /\ status' = "offline"
    BY <1>1, <1>6 DEF P!Parted, Sockets
  <2>2. Whole(sock'[s], swayed') /\ "went" \in swayed'
    BY <1>1, <1>6, <2>1 DEF Whole, P!Parted
  <2> QED
    BY <1>1, <1>6, <2>1, <2>2, SocketTurn DEF P!Parted
<1> QED
  BY <1>3, <1>4, <1>5, <1>6 DEF P!Socket

LEMMA ChangeStoredKeeps ==
  ASSUME PresenceInv, NEW new \in P!Stored, P!ChangeStored(new)
  PROVE  PresenceInv'
<1>1. /\ stored' = new /\ status' = status /\ devices' = devices /\ conn' = conn /\ sock' = sock
      /\ start' = start /\ unruly' = unruly /\ crowded' = crowded /\ swayed' = swayed
  BY DEF P!ChangeStored, P!Found
<1>2. PresenceTypes'
  BY <1>1 DEF PresenceInv, PresenceTypes
<1>3. ListsFit'
  BY <1>1 DEF PresenceInv, ListsFit
<1>4. Orderly'
  BY <1>1 DEF PresenceInv, Orderly, Resting, Starting, Serving
<1> QED
  BY <1>2, <1>3, <1>4 DEF PresenceInv

\* The connections that a death takes away are gone, and no list names anybody new.
LEMMA WorkerStartsKeeps ==
  ASSUME P!PresenceAssumption, PresenceInv, NEW lost, P!WorkerStarts(lost)
  PROVE  PresenceInv'
<1>1. /\ conn \in [Conns -> Connections] /\ \A c \in Conns : Plain(conn[c])
      /\ sock \in [Socks -> Sockets] /\ \A s \in Socks : Whole(sock[s], swayed)
  BY DEF PresenceInv, PresenceTypes
<1>2. /\ lost \subseteq P!Up \cup P!InFlight \cup {s \in Socks : sock[s].join # "new"}
      /\ conn' = [c \in Conns |-> IF c \in lost THEN [conn[c] EXCEPT !.pc = "gone",
           !.doc = NoDoc] ELSE conn[c]]
      /\ sock' = [s \in Socks |-> IF s \in lost THEN [sock[s] EXCEPT !.join = "done",
           !.leave = "done"] ELSE sock[s]]
      /\ start' = "status" /\ unruly' = TRUE
      /\ status' = status /\ stored' = stored /\ devices' = devices /\ crowded' = crowded /\ swayed' = swayed
  BY DEF P!WorkerStarts
<1>3. ASSUME NEW c \in Conns
      PROVE  /\ conn'[c] \in Connections /\ Plain(conn'[c])
             /\ (Inscribed(c, conn) => Inscribed(c, conn'))
             /\ conn'[c].doc = conn[c].doc \/ conn'[c].doc = NoDoc
  <2>0. conn[c] \in Connections /\ Plain(conn[c])
    BY <1>1
  <2>1. CASE c \in lost
    <3>1. conn'[c] = [conn[c] EXCEPT !.pc = "gone", !.doc = NoDoc]
      BY <1>2, <2>1
    <3>2. conn'[c] \in Connections /\ conn'[c].pc = "gone" /\ conn'[c].doc = NoDoc
      BY <3>1, <2>0 DEF Connections, P!Docs
    <3> QED
      BY <3>2 DEF Plain, Inscribed
  <2>2. CASE c \notin lost
    <3>1. conn'[c] = conn[c]
      BY <1>2, <2>2
    <3> QED
      BY <3>1, <2>0 DEF Inscribed
  <2> QED
    BY <2>1, <2>2
<1>4. ASSUME NEW s \in Socks PROVE sock'[s] \in Sockets /\ Whole(sock'[s], swayed')
  <2>0. sock[s] \in Sockets /\ Whole(sock[s], swayed)
    BY <1>1
  <2>1. CASE s \in lost
    <3>1. sock'[s] = [sock[s] EXCEPT !.join = "done", !.leave = "done"]
      BY <1>2, <2>1
    <3> QED
      BY <3>1, <2>0 DEF Sockets, Whole
  <2>2. CASE s \notin lost
    BY <1>2, <2>0, <2>2
  <2> QED
    BY <2>1, <2>2
<1>5. conn' \in [Conns -> Connections] /\ sock' \in [Socks -> Sockets]
  <2>1. DOMAIN conn' = Conns /\ conn' = [c \in Conns |-> conn'[c]]
    BY <1>2
  <2>2. DOMAIN sock' = Socks /\ sock' = [s \in Socks |-> sock'[s]]
    BY <1>2
  <2> QED
    BY <2>1, <2>2, <1>3, <1>4
<1>6. PresenceTypes'
  <2>1. \A c \in Conns : Plain(conn'[c])
    BY <1>3
  <2>2. \A s \in Socks : Whole(sock'[s], swayed')
    BY <1>4
  <2> QED
    BY <2>1, <2>2, <1>2, <1>5 DEF PresenceInv, PresenceTypes
<1>7. ASSUME NEW d, Fits(d, conn) PROVE Fits(d, conn')
  <2>1. NamesOf(d) \subseteq Conns
    BY <1>7, NamesAre DEF Fits
  <2>2. \A c \in Conns : Inscribed(c, conn) => Inscribed(c, conn')
    BY <1>3
  <2> QED
    BY <1>7, <2>1, <2>2 DEF Fits
<1>8. ListsFit'
  <2>1. Fits(devices', conn')
    BY <1>2, <1>7 DEF PresenceInv, ListsFit
  <2>2. Fits(NoDoc, conn')
    BY DEF Fits, Listing, NamesOf
  <2>3. ASSUME NEW c \in Conns PROVE Fits(conn'[c].doc, conn')
    <3>1. Fits(conn[c].doc, conn')
      BY <1>7 DEF PresenceInv, ListsFit
    <3>2. conn'[c].doc = conn[c].doc \/ conn'[c].doc = NoDoc
      BY <1>3
    <3> QED
      BY <3>1, <3>2, <2>2
  <2> QED
    BY <2>1, <2>3 DEF ListsFit
<1> QED
  BY <1>2, <1>6, <1>8 DEF PresenceInv, Orderly

LEMMA StartKeeps ==
  ASSUME P!PresenceAssumption, PresenceInv, P!Starts
  PROVE  PresenceInv'
<1>1. CASE P!StartStatus
  <2>1. /\ status' = "offline" /\ start' = "keys" /\ devices' = devices /\ conn' = conn
        /\ sock' = sock
        /\ stored' = stored /\ crowded' = crowded
        /\ unruly' = (P!Up \cup P!InFlight # {})
        /\ swayed' = IF P!InFlightSocks = {} THEN {} ELSE swayed
    BY <1>1 DEF P!StartStatus
  <2>2. \A s \in Socks : Whole(sock'[s], swayed')
    <3>1. CASE P!InFlightSocks = {}
      <4>1. \A s \in Socks : sock[s].join # "status" /\ sock[s].leave # "status"
        BY <3>1 DEF P!InFlightSocks
      <4> QED
        BY <2>1, <4>1 DEF Whole
    <3>2. CASE P!InFlightSocks # {}
      BY <2>1, <3>2 DEF PresenceInv, PresenceTypes
    <3> QED
      BY <3>1, <3>2
  <2>3. PresenceTypes' /\ ListsFit'
    <3>1. swayed' \subseteq {"came", "went"}
      BY <2>1 DEF PresenceInv, PresenceTypes
    <3> QED
      BY <2>1, <2>2, <3>1 DEF PresenceInv, PresenceTypes, ListsFit
  <2>4. ASSUME ~unruly' PROVE Starting'
    <3>1. P!Up = {} /\ P!InFlight = {}
      BY <2>1, <2>4
    <3>2. Flying(conn) = {}
      BY <3>1, BusyIs DEF PresenceInv
    <3>3. NoneUp(conn)
      BY <3>1 DEF P!Up, NoneUp
    <3> QED
      BY <3>2, <3>3, <2>1 DEF Starting
  <2> QED
    BY <2>3, <2>4 DEF PresenceInv, Orderly
<1>2. CASE P!StartKeys \/ P!StartDelete \/ P!StartEnds
  <2>1. /\ status' = status /\ conn' = conn /\ sock' = sock /\ stored' = stored
        /\ swayed' = swayed /\ crowded' = crowded /\ unruly' = unruly /\ start \in {"keys", "delete", "end"}
        /\ start' \in {"none", "delete", "end"}
        /\ devices' = devices \/ devices' = NoDoc
    BY <1>2 DEF P!StartKeys, P!StartDelete, P!StartEnds
  <2>2. Fits(devices', conn)
    BY <2>1 DEF PresenceInv, ListsFit, Fits, Listing, NamesOf
  <2>3. PresenceTypes'
    BY <2>1 DEF PresenceInv, PresenceTypes
  <2>4. ListsFit'
    BY <2>1, <2>2 DEF PresenceInv, ListsFit
  <2>5. ASSUME ~unruly' PROVE (Resting' \/ Starting')
    <3>1. Starting
      BY <2>1, <2>5 DEF PresenceInv, Orderly, Resting, Serving
    <3>2. CASE P!StartKeys
      BY <3>1, <3>2, <2>1 DEF P!StartKeys, Starting
    <3>3. CASE P!StartDelete
      BY <3>1, <3>3, <2>1 DEF P!StartDelete, Starting
    <3>4. CASE P!StartEnds
      <4>1. devices = NoDoc /\ devices' = NoDoc /\ start' = "none"
        BY <3>1, <3>4 DEF P!StartEnds, Starting
      <4>2. SeenIn(conn) = {} /\ NamesOf(NoDoc) = {}
        BY <3>1 DEF Starting, NoneUp, SeenIn, NamesOf
      <4> QED
        BY <3>1, <4>1, <4>2, <2>1 DEF Resting, Starting, Tells, Offline
    <3> QED
      BY <1>2, <3>2, <3>3, <3>4
  <2> QED
    BY <2>3, <2>4, <2>5 DEF PresenceInv, Orderly
<1> QED
  BY <1>1, <1>2 DEF P!Starts

LEMMA PresenceBegins == ASSUME P!PresenceAssumption, P!Init PROVE PresenceInv
<1>1. /\ status = "offline" /\ stored \in P!Stored /\ devices = NoDoc
      /\ conn = [c \in Conns |-> [pc |-> "new", as |-> "none", doc |-> NoDoc, closed |-> FALSE]]
      /\ sock = [s \in Socks |-> [join |-> "new", leave |-> "new", as |-> "none"]]
      /\ start = "none" /\ unruly = FALSE /\ crowded = FALSE /\ swayed = {}
  BY DEF P!Init
<1>2. PresenceTypes
  <2>1. conn \in [Conns -> Connections] /\ \A c \in Conns : Plain(conn[c])
    BY <1>1 DEF Connections, P!Docs, Plain
  <2>2. sock \in [Socks -> Sockets] /\ \A s \in Socks : Whole(sock[s], swayed)
    BY <1>1 DEF Sockets, Whole
  <2> QED
    BY <1>1, <2>1, <2>2 DEF PresenceTypes
<1>3. ListsFit
  BY <1>1 DEF ListsFit, Fits, Listing, NamesOf
<1>4. Orderly
  <2>1. Flying(conn) = {} /\ SeenIn(conn) = {}
    BY <1>1 DEF Flying, SeenIn
  <2> QED
    BY <1>1, <2>1 DEF Orderly, Resting, Tells, Offline, NamesOf
<1> QED
  BY <1>2, <1>3, <1>4 DEF PresenceInv

LEMMA PresenceKeeps ==
  ASSUME P!PresenceAssumption, PresenceInv, [P!Next]_(P!vars)
  PROVE  PresenceInv'
<1>1. CASE \E c \in Conns : P!Comes(c)
  BY <1>1, AcceptKeeps, AppearKeeps, ReadDevicesKeeps, WriteDevicesKeeps, CloseEarlyKeeps
     DEF P!Comes
<1>2. CASE \E c \in Conns : P!Goes(c)
  BY <1>2, LeaveKeeps, DisappearKeeps, StoreDevicesKeeps DEF P!Goes
<1>3. CASE \E s \in Socks : P!Socket(s)
  BY <1>3, SocketKeeps
<1>4. CASE \E new \in P!Stored : P!ChangeStored(new)
  BY <1>4, ChangeStoredKeeps
<1>5. CASE \E lost \in SUBSET (Conns \cup Socks) : P!WorkerStarts(lost)
  BY <1>5, WorkerStartsKeeps
<1>6. CASE P!Starts
  BY <1>6, StartKeeps
<1>7. CASE UNCHANGED P!vars
  <2>1. /\ status' = status /\ stored' = stored /\ devices' = devices /\ conn' = conn
        /\ sock' = sock
        /\ start' = start /\ unruly' = unruly /\ crowded' = crowded /\ swayed' = swayed
    BY <1>7 DEF P!vars
  <2>2. PresenceTypes' /\ ListsFit'
    BY <2>1 DEF PresenceInv, PresenceTypes, ListsFit
  <2>3. Orderly'
    BY <2>1 DEF PresenceInv, Orderly, Resting, Starting, Serving
  <2> QED
    BY <2>2, <2>3 DEF PresenceInv
<1> QED
  BY <1>1, <1>2, <1>3, <1>4, <1>5, <1>6, <1>7 DEF P!Next

\* At rest the document itself tells who is there.
LEMMA InvIsRight == ASSUME P!PresenceAssumption, PresenceInv PROVE P!PresenceAgrees
<1>1. P!Listed = NamesOf(devices)
  BY DEF P!Listed, NamesOf
<1>2. P!PresenceIsRight
  <2> SUFFICES ASSUME ~P!Busy, ~unruly
               PROVE  /\ P!Listed \subseteq P!Seen /\ (~crowded => P!Seen = P!Listed)
                      /\ "went" \notin swayed /\ P!Listed # {} => status # "offline"
                      /\ "came" \notin swayed /\ P!Listed = {} => status = "offline"
    BY DEF P!PresenceIsRight
  <2>1. Tells(NamesOf(devices), conn, crowded) /\ Offline(status, NamesOf(devices), swayed)
    BY First
  <2> QED
    BY <1>1, <2>1, SeenIsSeenIn DEF Tells, Offline
<1>3. P!ListIsShort
  <2> SUFFICES ASSUME devices # NoDoc
               PROVE  /\ Len(devices) <= Beside + 1
                      /\ Len(devices) = Cardinality(P!Listed)
    BY DevicesCount DEF P!ListIsShort
  <2>1. devices \in Seq(Conns) /\ Len(devices) <= Beside + 1 /\ Apart(devices)
    BY DEF PresenceInv, ListsFit, Fits, Listing
  <2> QED
    BY <2>1, <1>1, ListSize, DevicesCount DEF NamesOf
<1> QED
  BY <1>2, <1>3 DEF P!PresenceAgrees

\* However connections and sockets come and go, and whichever workers start: between handlers
\* that ran one after the other, or after a start that found nobody there, the list of devices
\* names exactly the connections (as far as it has place) and the user is offline exactly if it
\* is empty; and at any time the list is short and names no device twice.
THEOREM PresenceIsKept == ASSUME P!PresenceAssumption PROVE P!Spec => []PresenceAgrees
<1>1. P!Init => PresenceInv
  BY PresenceBegins
<1>2. PresenceInv /\ [P!Next]_(P!vars) => PresenceInv'
  BY PresenceKeeps
<1>3. PresenceInv => PresenceAgrees
  BY InvIsRight DEF PresenceAgrees
<1> QED
  BY <1>1, <1>2, <1>3, PTL DEF P!Spec
=============================================================================
