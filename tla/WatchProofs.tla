---------------------------- MODULE WatchProofs ----------------------------
(***************************************************************************)
(* Watching a game is correct for every board, every set of statements and *)
(* any number of notifications that wait.                                  *)
(*                                                                         *)
(* Everything rests on one relation between sets of records: R has taken S *)
(* in when merging S into R changes nothing.  What a client holds has been *)
(* taken in by its node, and so has whatever waits for it; what was shown  *)
(* has been taken in by what is held.  Nodes only merge, so all of this    *)
(* outlasts what they are given.                                           *)
(***************************************************************************)
EXTENDS Watch, ProjectionTheorems, SequenceTheorems

\* What a node or a client that has merged records may hold.
Settled(R) == R \in SUBSET GenuineRecords /\ Canon(R) = R

\* R has taken S in.
Has(R, S) == Canon(R \cup S) = R

\* A union of parts has one canonical form, whichever of the parts had theirs taken.
LEMMA CanonOfParts ==
  ASSUME NEW A \in SUBSET GenuineRecords, NEW B \in SUBSET GenuineRecords
  PROVE  /\ Settled(Canon(A)) /\ A \cup B \in SUBSET GenuineRecords
         /\ Canon(Canon(A) \cup B) = Canon(A \cup B)
         /\ Canon(A \cup Canon(B)) = Canon(A \cup B)
<1>1. A \in SUBSET Record /\ B \in SUBSET Record /\ {} \in SUBSET Record
  BY DEF GenuineRecords
<1>2. Canon(Canon(A) \cup B) = Canon(A \cup B) /\ Canon(Canon(B) \cup A) = Canon(B \cup A)
  BY <1>1, CanonAbsorbs
<1>3. Canon(Canon(A) \cup {}) = Canon(A \cup {})
  BY <1>1, CanonAbsorbs
<1>4. Canon(B) \cup A = A \cup Canon(B) /\ B \cup A = A \cup B
  OBVIOUS
<1> QED  BY <1>2, <1>3, <1>4, CanonIsState DEF Settled

\* No id occurs twice in what is settled.
LEMMA SettledIsState ==
  ASSUME NEW R, Settled(R)
  PROVE  IsState(R) /\ R \in SUBSET GenuineRecords /\ R \in SUBSET Record
BY CanonIsState DEF Settled, GenuineRecords

LEMMA EmptyIsSettled == Settled(Empty)
<1>1. {} \in SUBSET GenuineRecords
  OBVIOUS
<1>2. Canon({}) = {}
  BY <1>1, CanonIsState
<1> QED  BY <1>2 DEF Settled, Empty

\* What has been taken in stays so as more is merged.
LEMMA HadStaysHad ==
  ASSUME NEW R \in SUBSET GenuineRecords, NEW S \in SUBSET GenuineRecords,
         NEW N \in SUBSET GenuineRecords, Has(R, S)
  PROVE  Has(Canon(R \cup N), S)
<1>1. /\ R \cup N \in SUBSET GenuineRecords /\ R \cup S \in SUBSET GenuineRecords
      /\ Canon(R \cup S) = R
  BY DEF Has
<1>2. Canon(Canon(R \cup N) \cup S) = Canon((R \cup N) \cup S)
  BY <1>1, CanonOfParts
<1>3. (R \cup N) \cup S = (R \cup S) \cup N
  OBVIOUS
<1>4. Canon(Canon(R \cup S) \cup N) = Canon((R \cup S) \cup N)
  BY <1>1, CanonOfParts
<1> QED  BY <1>1, <1>2, <1>3, <1>4 DEF Has

\* A merge has taken in what was merged, and everything either of them had.
LEMMA MergedIsHad ==
  ASSUME NEW R \in SUBSET GenuineRecords, NEW N \in SUBSET GenuineRecords
  PROVE  Has(Canon(R \cup N), N) /\ Has(Canon(R \cup N), R)
<1>1. R \cup N \in SUBSET GenuineRecords /\ (R \cup N) \cup N = R \cup N /\ (R \cup N) \cup R = R \cup N
  OBVIOUS
<1>2. Canon(Canon(R \cup N) \cup N) = Canon((R \cup N) \cup N)
      /\ Canon(Canon(R \cup N) \cup R) = Canon((R \cup N) \cup R)
  BY <1>1, CanonOfParts
<1> QED  BY <1>1, <1>2 DEF Has

\* Who has taken in R, and R S, has taken in S.
LEMMA HasIsTransitive ==
  ASSUME NEW Q \in SUBSET GenuineRecords, NEW R \in SUBSET GenuineRecords,
         NEW S \in SUBSET GenuineRecords, Has(Q, R), Has(R, S)
  PROVE  Has(Q, S)
<1>1. Canon(Q \cup R) = Q /\ Canon(R \cup S) = R
      /\ Q \cup R \in SUBSET GenuineRecords /\ R \cup S \in SUBSET GenuineRecords
  BY DEF Has
<1>2. Canon(Canon(Q \cup R) \cup S) = Canon((Q \cup R) \cup S)
  BY <1>1, CanonOfParts
<1>3. (Q \cup R) \cup S = Q \cup (R \cup S)
  OBVIOUS
<1>4. Canon(Q \cup Canon(R \cup S)) = Canon(Q \cup (R \cup S))
  BY <1>1, CanonOfParts
<1> QED  BY <1>1, <1>2, <1>3, <1>4 DEF Has

\* Who has taken in the whole has taken in each part, and the other way round.
LEMMA HasParts ==
  ASSUME NEW R \in SUBSET GenuineRecords, NEW S \in SUBSET GenuineRecords,
         NEW T \in SUBSET GenuineRecords
  PROVE  Has(R, S \cup T) <=> Has(R, S) /\ Has(R, T)
<1>1. /\ R \cup S \in SUBSET GenuineRecords /\ R \cup T \in SUBSET GenuineRecords
      /\ R \cup (S \cup T) \in SUBSET GenuineRecords
  OBVIOUS
<1>2. ASSUME NEW A \in {S, T}, Has(R, S \cup T) PROVE Has(R, A)
  <2>1. Canon(Canon(R \cup (S \cup T)) \cup A) = Canon((R \cup (S \cup T)) \cup A)
    BY <1>1, CanonOfParts
  <2>2. (R \cup (S \cup T)) \cup A = R \cup (S \cup T)
    OBVIOUS
  <2> QED  BY <1>2, <2>1, <2>2 DEF Has
<1>3. ASSUME Has(R, S), Has(R, T) PROVE Has(R, S \cup T)
  <2>1. Canon(Canon(R \cup S) \cup T) = Canon((R \cup S) \cup T)
    BY <1>1, CanonOfParts
  <2>2. (R \cup S) \cup T = R \cup (S \cup T)
    OBVIOUS
  <2> QED  BY <1>3, <2>1, <2>2 DEF Has
<1> QED  BY <1>2, <1>3
-----------------------------------------------------------------------------
\* What a notification says.
Said(n) == n.state \cup n.delta

\* What waits in a queue and comes from one address.
Carried(q, a) == UNION {Said(q[n]) : n \in {m \in DOMAIN q : q[m].from = a}}

LEMMA ComingIsCarried == Coming = Carried(queue, watch.addr)
BY DEF Coming, Carried, Said

LEMMA CarriedMore ==
  ASSUME NEW q \in Seq(Note), NEW n \in Note, NEW a
  PROVE  /\ Append(q, n) \in Seq(Note)
         /\ \A m \in DOMAIN Append(q, n) : Append(q, n)[m] = n \/ \E k \in DOMAIN q : Append(q, n)[m] = q[k]
         /\ Carried(Append(q, n), a) = Carried(q, a) \cup (IF n.from = a THEN Said(n) ELSE {})
<1> DEFINE r == Append(q, n)
<1>1. /\ r \in Seq(Note) /\ Len(r) = Len(q) + 1 /\ Len(q) \in Nat
      /\ DOMAIN q = 1..Len(q) /\ DOMAIN r = 1..(Len(q) + 1)
      /\ \A m \in 1..Len(q) : r[m] = q[m]
      /\ r[Len(q) + 1] = n
  OBVIOUS
<1> HIDE DEF r
<1>2. DOMAIN r = DOMAIN q \cup {Len(q) + 1}
  BY <1>1
<1>3. Carried(r, a) = Carried(q, a) \cup (IF n.from = a THEN Said(n) ELSE {})
  <2>1. ASSUME NEW x PROVE x \in Carried(r, a) <=> \E m \in DOMAIN r : r[m].from = a /\ x \in Said(r[m])
    BY DEF Carried
  <2>2. ASSUME NEW x PROVE x \in Carried(q, a) <=> \E m \in DOMAIN q : q[m].from = a /\ x \in Said(q[m])
    BY DEF Carried
  <2>3. ASSUME NEW x
        PROVE  x \in Carried(r, a) <=> x \in Carried(q, a) \/ (n.from = a /\ x \in Said(n))
    BY <1>1, <1>2, <2>1, <2>2
  <2> QED  BY <2>3
<1> QED  BY <1>1, <1>2, <1>3 DEF r

LEMMA CarriedLess ==
  ASSUME NEW q \in Seq(Note), q # <<>>, NEW a
  PROVE  /\ Tail(q) \in Seq(Note) /\ Head(q) \in Note /\ Len(Tail(q)) <= Len(q)
         /\ \E k \in DOMAIN q : Head(q) = q[k]
         /\ \A m \in DOMAIN Tail(q) : \E k \in DOMAIN q : Tail(q)[m] = q[k]
         /\ Carried(q, a) = Carried(Tail(q), a) \cup (IF Head(q).from = a THEN Said(Head(q)) ELSE {})
<1> DEFINE r == Tail(q)
           n == Head(q)
<1>1. /\ r \in Seq(Note) /\ n \in Note /\ Len(q) \in Nat /\ Len(q) >= 1 /\ Len(r) = Len(q) - 1
      /\ DOMAIN q = 1..Len(q) /\ DOMAIN r = 1..(Len(q) - 1)
      /\ \A m \in 1..(Len(q) - 1) : r[m] = q[m + 1]
      /\ q[1] = n
  BY HeadTailProperties
<1> HIDE DEF r, n
<1>2. /\ \A m \in DOMAIN r : m + 1 \in DOMAIN q /\ r[m] = q[m + 1]
      /\ \A k \in DOMAIN q : k = 1 \/ (k - 1 \in DOMAIN r /\ r[k - 1] = q[k])
      /\ 1 \in DOMAIN q
  BY <1>1
<1>3. Carried(q, a) = Carried(r, a) \cup (IF n.from = a THEN Said(n) ELSE {})
  <2>1. ASSUME NEW x PROVE x \in Carried(r, a) <=> \E m \in DOMAIN r : r[m].from = a /\ x \in Said(r[m])
    BY DEF Carried
  <2>2. ASSUME NEW x PROVE x \in Carried(q, a) <=> \E m \in DOMAIN q : q[m].from = a /\ x \in Said(q[m])
    BY DEF Carried
  <2>3. ASSUME NEW x
        PROVE  x \in Carried(q, a) <=> x \in Carried(r, a) \/ (n.from = a /\ x \in Said(n))
    BY <1>1, <1>2, <2>1, <2>2
  <2> QED  BY <2>3
<1> QED  BY <1>1, <1>2, <1>3 DEF r, n
-----------------------------------------------------------------------------
\* Nodes and clients hold what is settled, and what waits for a client can be read.
TypeInv ==
  /\ TypeOK
  /\ at \in [Address -> SUBSET GenuineRecords] /\ \A a \in Address : Settled(at[a])
  /\ Settled(watch.state) /\ Settled(watch.cached) /\ Settled(shown) /\ Settled(mig.read)
  /\ \A n \in DOMAIN queue : Said(queue[n]) \subseteq GenuineRecords

\* Records are stored at a node, which takes N in and tells its subscribers so.
Stores(a, recs, N) ==
  /\ at' = [at EXCEPT ![a] = Canon(at[a] \cup N)]
  /\ Settled(at'[a]) /\ Has(at'[a], N)
  /\ recs \in SUBSET GenuineRecords => Has(at'[a], recs)
  /\ \/ queue' = queue /\ (a \in subs => at' = at)
     \/ /\ a \in subs /\ Len(queue) < MaxQueue
        /\ \E n \in Note : n.from = a /\ Said(n) = N /\ queue' = Append(queue, n)

\* What storing records at a node does: the node has taken in what it tells of.
LEMMA StoreStep ==
  ASSUME TypeInv, NEW a \in Address, NEW recs \in SUBSET Record, Store(a, recs),
         recs \in SUBSET GenuineRecords \/ \A r \in recs : ~Verify(r)
  PROVE  \E N \in SUBSET GenuineRecords : Stores(a, recs, N)
<1> DEFINE A == at[a]
           G == {r \in recs : Verify(r)}
           st == Canon(A \cup G)
<1>1. /\ at \in [Address -> SUBSET GenuineRecords] /\ A \in SUBSET GenuineRecords /\ Canon(A) = A
      /\ G \in SUBSET GenuineRecords
  BY DEF TypeInv, Settled, GenuineRecords
<1>2. ApplyDelta(A, recs) = st
  BY <1>1, ApplyIsCanon
<1>3. at' = [at EXCEPT ![a] = st]
  BY <1>2 DEF Store
<1>4. at'[a] = st
  BY <1>1, <1>3
<1>5. Settled(st) /\ Has(st, G)
  BY <1>1, CanonOfParts, MergedIsHad
<1>6. CASE ~(a \in subs /\ st # A)
  <2>1. queue' = queue /\ (a \in subs => at' = at)
    <3>1. queue' = queue
      BY <1>2, <1>6 DEF Store
    <3>2. ASSUME a \in subs PROVE at' = at
      BY <1>1, <1>3, <1>6, <3>2
    <3> QED  BY <3>1, <3>2
  <2>2. recs \in SUBSET GenuineRecords => Has(st, recs)
    <3>1. recs \in SUBSET GenuineRecords => G = recs
      BY DEF GenuineRecords
    <3> QED  BY <1>5, <3>1
  <2> HIDE DEF st
  <2> QED  BY <1>1, <1>3, <1>4, <1>5, <2>1, <2>2 DEF st, Stores
<1>7. CASE a \in subs /\ st # A
  <2>1. Len(queue) < MaxQueue /\ \E n \in Notifications(a, st, recs) : queue' = Append(queue, n)
    BY <1>2, <1>7 DEF Store
  <2>2. G = recs
    <3>1. G # {}
      BY <1>1, <1>7
    <3> QED  BY <3>1 DEF GenuineRecords
  <2>3. PICK n \in Notifications(a, st, recs) : queue' = Append(queue, n)
    BY <2>1
  <2>4. st \in SUBSET GenuineRecords
    BY <1>5 DEF Settled
  <2>5. /\ n \in Note /\ n.from = a
        /\ Said(n) \in {st, recs, st \cup recs}
    <3>1. st \in SUBSET Record /\ {} \in SUBSET Record
      BY <2>4 DEF GenuineRecords
    <3> HIDE DEF st
    <3>2. \/ n = [from |-> a, state |-> st, delta |-> {}]
          \/ n = [from |-> a, state |-> {}, delta |-> recs]
          \/ n = [from |-> a, state |-> st, delta |-> recs]
      BY <2>3 DEF Notifications, Empty
    <3>3. n \in Note /\ n.from = a
      BY <3>1, <3>2 DEF Note
    <3>4. Said(n) \in {st, recs, st \cup recs}
      BY <3>2 DEF Said
    <3> QED  BY <3>3, <3>4
  <2>6. /\ Canon(A \cup st) = st /\ Canon(A \cup recs) = st
        /\ Canon(A \cup (st \cup recs)) = st
    <3>1. A \cup G \in SUBSET GenuineRecords /\ A \cup (A \cup G) = A \cup G
          /\ G \cup (A \cup G) = A \cup G
      BY <1>1
    <3>2. Canon(A \cup st) = st
      BY <1>1, <3>1, CanonOfParts
    <3>3. Canon((A \cup G) \cup st) = Canon((A \cup G) \cup (A \cup G))
      BY <3>1, CanonOfParts
    <3>4. (A \cup G) \cup st = A \cup (st \cup G) /\ (A \cup G) \cup (A \cup G) = A \cup G
      OBVIOUS
    <3> QED  BY <2>2, <3>2, <3>3, <3>4
  <2>7. st \cup recs \in SUBSET GenuineRecords
    BY <1>1, <2>2, <2>4
  <2> DEFINE N == Said(n)
  <2>8. N \in SUBSET GenuineRecords /\ Canon(A \cup N) = st
    BY <1>1, <2>2, <2>4, <2>5, <2>6, <2>7
  <2>9. Has(st, N)
    BY <1>1, <2>8, MergedIsHad
  <2> HIDE DEF st, N
  <2> QED  BY <1>1, <1>3, <1>4, <1>5, <1>7, <2>1, <2>2, <2>3, <2>5, <2>8, <2>9 DEF N, Stores
<1> QED  BY <1>6, <1>7

\* Each id has its record.
LEMMA OneRecordEach ==
  ASSUME NEW i \in Id
  PROVE  RecordOf(i) \in Genuine /\ RecordOf(i) \in Record /\ RecordOf(i).id = i
<1>1. PICK r \in Genuine : {x \in Genuine : x.id = i} = {r}
  BY SignatureAssumption
<1>2. r.id = i
  BY <1>1
<1> QED  BY <1>2, SigAssumption DEF RecordOf

\* The two steps that store something.
LEMMA ArriveStores ==
  ASSUME NEW a \in Address, NEW i \in Id, Arrive(a, i)
  PROVE  \E recs \in SUBSET Record :
           /\ recs \in SUBSET GenuineRecords \/ \A r \in recs : ~Verify(r)
           /\ Store(a, recs)
<1> DEFINE recs == {RecordOf(i)}
<1>1. recs \in SUBSET Record /\ Store(a, recs)
  BY OneRecordEach DEF Arrive
<1>2. recs \in SUBSET GenuineRecords \/ \A r \in recs : ~Verify(r)
  BY OneRecordEach DEF GenuineRecords
<1> QED  BY <1>1, <1>2

LEMMA PutStores ==
  ASSUME TypeInv, MigratePut
  PROVE  /\ mig.read \in SUBSET GenuineRecords /\ mig.read \in SUBSET Record
         /\ Store("new", mig.read)
BY SettledIsState DEF TypeInv, MigratePut

\* What each kind of step leaves alone.
LEMMA Untouched ==
  /\ \A a, i : Arrive(a, i) => UNCHANGED <<bound, mig, watch, shown, subs>>
  /\ MigratePut => UNCHANGED <<bound, watch, shown, subs>>
  /\ MigrateRead \/ MigrateRebind \/ MigrateStop => UNCHANGED <<at, watch, shown, subs, queue>>
  /\ Open \/ Proceed \/ Fail => UNCHANGED <<at, bound, mig>>
BY DEF Arrive, MigratePut, MigrateRead, MigrateRebind, MigrateStop, Open, Proceed, Fail, Subscribe,
       Subscribed, AskPrevious, PreviousAnswers, PreviousFails, TakeUpdate, TakeOther

LEMMA InitTypeInv == Init => TypeInv
<1> SUFFICES ASSUME Init PROVE TypeInv
  OBVIOUS
<1>1. PICK I \in SUBSET Id : at = [old |-> FilterValid({RecordOf(i) : i \in I}), new |-> Empty]
  BY DEF Init
<1> DEFINE R == {RecordOf(i) : i \in I}
<1>2. R \in SUBSET Record
  BY OneRecordEach
<1>3. Settled(FilterValid(R))
  <2>1. FilterValid(R) = ApplyDelta(Empty, R) /\ Empty \in SUBSET GenuineRecords
    BY DEF FilterValid, Merge, ApplyDelta, Empty
  <2>2. {r \in R : Verify(r)} \in SUBSET GenuineRecords
    BY <1>2 DEF GenuineRecords
  <2>3. ApplyDelta(Empty, R) = Canon(Empty \cup {r \in R : Verify(r)})
    BY <1>2, <2>1, ApplyIsCanon
  <2>4. Empty \cup {r \in R : Verify(r)} \in SUBSET GenuineRecords
    BY <2>1, <2>2
  <2> HIDE DEF R
  <2> QED  BY <2>1, <2>3, <2>4, CanonOfParts
<1>4. /\ at \in [Address -> SUBSET GenuineRecords]
      /\ \A a \in Address : Settled(at[a])
  BY <1>1, <1>3, EmptyIsSettled DEF Address, Settled
<1>5. /\ Settled(watch.state) /\ Settled(watch.cached) /\ Settled(shown) /\ Settled(mig.read)
      /\ Empty \in SUBSET Record
  BY EmptyIsSettled DEF Init, Off, NoMigration, Empty
<1>6. queue = <<>> /\ DOMAIN queue = {} /\ queue \in Seq(Note) /\ Len(queue) = 0
  BY DEF Init
<1>7. /\ bound \in Address /\ subs \subseteq Address
      /\ mig \in [stage : {"idle", "read", "put"}, read : SUBSET Record]
  BY <1>5 DEF Init, NoMigration, Address
<1>8. watch \in [pc : Following \cup Ended \cup {"opened", "subscribing"}, addr : Address,
                 previous : BOOLEAN, state : SUBSET Record, cached : SUBSET Record,
                 unreachable : BOOLEAN, skewed : BOOLEAN]
      /\ ~watch.previous
  BY <1>5 DEF Init, Off, Address, Ended
<1>9. TypeOK
  BY <1>4, <1>5, <1>6, <1>7, <1>8, SettledIsState, WatchAssumption DEF TypeOK
<1> QED  BY <1>4, <1>5, <1>6, <1>9 DEF TypeInv

\* The parts of TypeInv that the program's steps touch, one by one.
ClientTyped ==
  /\ watch \in [pc : Following \cup Ended \cup {"opened", "subscribing"}, addr : Address,
                previous : BOOLEAN, state : SUBSET Record, cached : SUBSET Record,
                unreachable : BOOLEAN, skewed : BOOLEAN]
  /\ watch.previous => watch.addr = "new"
  /\ Settled(watch.state) /\ Settled(watch.cached) /\ Settled(shown)
QueueTyped ==
  /\ queue \in Seq(Note) /\ Len(queue) <= MaxQueue
  /\ \A n \in DOMAIN queue : Said(queue[n]) \subseteq GenuineRecords
NodeTyped ==
  /\ at \in [Address -> SUBSET GenuineRecords] /\ \A a \in Address : Settled(at[a])
MigrationTyped ==
  /\ bound \in Address
  /\ mig \in [stage : {"idle", "read", "put"}, read : SUBSET Record] /\ Settled(mig.read)

LEMMA TypeInvParts ==
  TypeInv <=> ClientTyped /\ QueueTyped /\ NodeTyped /\ MigrationTyped /\ subs \subseteq Address
<1>1. TypeInv => ClientTyped /\ QueueTyped /\ NodeTyped /\ MigrationTyped /\ subs \subseteq Address
  BY DEF TypeInv, TypeOK, ClientTyped, QueueTyped, NodeTyped, MigrationTyped
<1>2. ClientTyped /\ QueueTyped /\ NodeTyped /\ MigrationTyped /\ subs \subseteq Address => TypeInv
  BY SettledIsState DEF TypeInv, TypeOK, ClientTyped, QueueTyped, NodeTyped, MigrationTyped
<1> QED  BY <1>1, <1>2

\* Whatever is stored at a node, it is of its type, and so is what it tells of it.
LEMMA StoreTyped ==
  ASSUME TypeInv, NEW a \in Address, NEW recs \in SUBSET Record, Store(a, recs),
         recs \in SUBSET GenuineRecords \/ \A r \in recs : ~Verify(r)
  PROVE  QueueTyped' /\ NodeTyped'
<1>1. QueueTyped /\ NodeTyped
  BY TypeInvParts
<1>2. PICK N \in SUBSET GenuineRecords : Stores(a, recs, N)
  BY StoreStep
<1>3. NodeTyped'
  <2>1. Canon(at[a] \cup N) \in SUBSET GenuineRecords
    BY <1>1, <1>2 DEF NodeTyped, Settled, Stores
  <2> QED  BY <1>1, <1>2, <2>1 DEF NodeTyped, Stores
<1>4. QueueTyped'
  <2>1. CASE queue' = queue
    BY <1>1, <2>1 DEF QueueTyped
  <2>2. ASSUME NEW n \in Note, Said(n) = N, queue' = Append(queue, n), Len(queue) < MaxQueue
        PROVE  QueueTyped'
    <3>1. Len(queue') = Len(queue) + 1 /\ Len(queue) \in Nat
      BY <1>1, <2>2 DEF QueueTyped
    <3>2. Len(queue') <= MaxQueue
      BY <2>2, <3>1, WatchAssumption
    <3> QED  BY <1>1, <2>2, <3>2, CarriedMore DEF QueueTyped
  <2> QED  BY <1>2, <2>1, <2>2 DEF Stores
<1> QED  BY <1>3, <1>4

\* What a notification does to what a client holds: all it says is merged.
LEMMA ReceivedIsMerged ==
  ASSUME NEW st \in SUBSET GenuineRecords, NEW n, Said(n) \in SUBSET GenuineRecords
  PROVE  Received(st, n) = Canon(st \cup Said(n)) /\ Settled(Received(st, n))
<1>1. n.state \in SUBSET GenuineRecords /\ n.delta \in SUBSET GenuineRecords
  BY DEF Said
<1>2. st \cup n.state \in SUBSET GenuineRecords
      /\ Canon(st \cup n.state) \in SUBSET GenuineRecords
  BY <1>1, CanonOfParts DEF Settled
<1>3. Merge(st, n.state) = Canon(st \cup n.state)
  BY <1>1, MergeIsCanon
<1>4. ApplyDelta(Canon(st \cup n.state), n.delta) = Canon(Canon(st \cup n.state) \cup n.delta)
  BY <1>1, <1>2, MergeIsCanon
<1>5. Canon(Canon(st \cup n.state) \cup n.delta) = Canon((st \cup n.state) \cup n.delta)
  BY <1>1, <1>2, CanonOfParts
<1>6. (st \cup n.state) \cup n.delta = st \cup Said(n) /\ st \cup Said(n) \in SUBSET GenuineRecords
  BY DEF Said
<1>7. Received(st, n) = Canon(st \cup Said(n))
  BY <1>3, <1>4, <1>5, <1>6 DEF Received
<1> QED  BY <1>6, <1>7, CanonOfParts

\* The notification a client takes next.
LEMMA NextNotice ==
  ASSUME QueueTyped, queue # <<>>
  PROVE  Head(queue) \in Note /\ Said(Head(queue)) \in SUBSET GenuineRecords
BY CarriedLess DEF QueueTyped

LEMMA TakingTyped ==
  ASSUME QueueTyped, queue # <<>>, queue' = Tail(queue)
  PROVE  QueueTyped'
<1>1. /\ Tail(queue) \in Seq(Note) /\ Len(Tail(queue)) <= Len(queue) /\ Len(queue) <= MaxQueue
      /\ Len(Tail(queue)) \in Nat /\ Len(queue) \in Nat
      /\ \A m \in DOMAIN Tail(queue) : \E k \in DOMAIN queue : Tail(queue)[m] = queue[k]
  BY CarriedLess DEF QueueTyped
<1>2. Len(Tail(queue)) <= MaxQueue
  BY <1>1, WatchAssumption
<1> QED  BY <1>1, <1>2 DEF QueueTyped

\* A client's own steps keep the types of what it holds and of what waits for it.
LEMMA ClientStepTyped ==
  ASSUME TypeInv, Open \/ Proceed \/ Fail
  PROVE  ClientTyped' /\ QueueTyped' /\ (subs \subseteq Address)'
<1>1. ClientTyped /\ QueueTyped /\ NodeTyped /\ MigrationTyped /\ subs \subseteq Address
  BY TypeInvParts
<1>2. ASSUME NEW a \in Address PROVE Settled(at[a]) /\ at[a] \in SUBSET Record
  BY <1>1, SettledIsState DEF NodeTyped
<1>3. CASE Open
  <2>1. bound \in Address /\ Settled(at[bound]) /\ at[bound] \in SUBSET Record
    BY <1>1, <1>2 DEF MigrationTyped
  <2>2. /\ watch' = [Off EXCEPT !.pc = IF IsOver(at[bound]) THEN "done" ELSE "opened",
                                !.addr = bound, !.previous = HasPrevious, !.state = at[bound]]
        /\ shown' = at[bound]
    BY <1>3 DEF Open
  <2>3. ClientTyped'
    <3>1. Empty \in SUBSET Record /\ Settled(Empty)
      BY EmptyIsSettled DEF Empty
    <3> QED  BY <2>1, <2>2, <3>1 DEF ClientTyped, Off, HasPrevious, Ended
  <2>4. QueueTyped' /\ (subs \subseteq Address)'
    <3>1. CASE UNCHANGED <<subs, queue>>
      BY <1>1, <3>1 DEF QueueTyped
    <3>2. CASE subs' = {} /\ queue' = <<>>
      BY <3>2, WatchAssumption DEF QueueTyped
    <3> QED  BY <1>3, <3>1, <3>2 DEF Open
  <2> QED  BY <2>3, <2>4
<1>4. CASE Subscribe
  BY <1>1, <1>4 DEF Subscribe, ClientTyped, QueueTyped
<1>5. CASE Subscribed
  <2> DEFINE st == Merge(watch.state, at[watch.addr])
             moved == Cardinality(st) # Cardinality(watch.state)
  <2>1. Settled(st) /\ st \in SUBSET Record
    <3>1. watch.state \in SUBSET GenuineRecords /\ at[watch.addr] \in SUBSET GenuineRecords
      BY <1>1, <1>2 DEF ClientTyped, Settled
    <3>2. st = Canon(watch.state \cup at[watch.addr])
      BY <3>1, MergeIsCanon
    <3>3. watch.state \cup at[watch.addr] \in SUBSET GenuineRecords
      BY <3>1
    <3>4. Settled(st)
      BY <3>2, <3>3, CanonOfParts
    <3> QED  BY <3>4, SettledIsState
  <2>2. /\ shown' = IF moved THEN st ELSE shown
        /\ watch' = [watch EXCEPT !.state = st,
                            !.pc = IF moved /\ IsOver(st) THEN "done" ELSE Then]
        /\ UNCHANGED <<subs, queue>>
    BY <1>5 DEF Subscribed
  <2> HIDE DEF st, moved
  <2> QED  BY <1>1, <2>1, <2>2 DEF ClientTyped, QueueTyped, Then, Following, Ended
<1>6. CASE AskPrevious
  BY <1>1, <1>6 DEF AskPrevious, ClientTyped, QueueTyped, Following, Address
<1>7. CASE PreviousAnswers
  <2> DEFINE cached == IF at.old = Empty THEN watch.cached ELSE at.old
  <2>1. Settled(cached) /\ cached \in SUBSET Record
    BY <1>1, <1>2, SettledIsState DEF ClientTyped, Address
  <2>2. /\ watch' = [watch EXCEPT !.pc = "waiting", !.cached = cached, !.skewed = Skew(watch.state, cached)]
        /\ UNCHANGED <<shown, subs, queue>>
    BY <1>7 DEF PreviousAnswers
  <2>3. Skew(watch.state, cached) \in BOOLEAN
    BY DEF Skew, OpponentAhead
  <2> HIDE DEF cached
  <2> QED  BY <1>1, <2>1, <2>2, <2>3 DEF ClientTyped, QueueTyped, Following
<1>8. CASE PreviousFails
  BY <1>1, <1>8 DEF PreviousFails, ClientTyped, QueueTyped, Following
<1>9. CASE TakeUpdate
  <2> DEFINE st == Received(watch.state, Head(queue))
  <2>1. queue # <<>> /\ queue' = Tail(queue)
    BY <1>9 DEF TakeUpdate
  <2>2. Settled(st) /\ st \in SUBSET Record
    <3>1. watch.state \in SUBSET GenuineRecords
      BY <1>1 DEF ClientTyped, Settled
    <3>2. Settled(st)
      BY <1>1, <2>1, <3>1, NextNotice, ReceivedIsMerged
    <3> QED  BY <3>2, SettledIsState
  <2>3. /\ shown' = st /\ subs' = subs
        /\ watch' = [watch EXCEPT !.state = st,
                            !.skewed = IF watch.previous THEN Skew(st, watch.cached) ELSE @,
                            !.pc = IF IsOver(st) THEN "done" ELSE @]
    BY <1>9 DEF TakeUpdate
  <2>4. Skew(st, watch.cached) \in BOOLEAN
    BY DEF Skew, OpponentAhead
  <2> HIDE DEF st
  <2>5. ClientTyped'
    BY <1>1, <2>2, <2>3, <2>4 DEF ClientTyped, Ended
  <2> QED  BY <1>1, <2>1, <2>3, <2>5, TakingTyped
<1>10. CASE TakeOther
  <2>1. queue # <<>> /\ queue' = Tail(queue) /\ subs' = subs
    BY <1>10 DEF TakeOther
  <2>2. ClientTyped'
    BY <1>1, <1>10 DEF TakeOther, ClientTyped, Following
  <2> QED  BY <1>1, <2>1, <2>2, TakingTyped
<1>11. CASE Fail
  BY <1>1, <1>11 DEF Fail, ClientTyped, QueueTyped, Ended
<1> QED  BY <1>3, <1>4, <1>5, <1>6, <1>7, <1>8, <1>9, <1>10, <1>11 DEF Proceed

LEMMA NextTypeInv == TypeInv /\ [Next]_vars => TypeInv'
<1> SUFFICES ASSUME TypeInv, [Next]_vars PROVE TypeInv'
  OBVIOUS
<1>1. ClientTyped /\ QueueTyped /\ NodeTyped /\ MigrationTyped /\ subs \subseteq Address
  BY TypeInvParts
<1>2. (ClientTyped /\ QueueTyped /\ NodeTyped /\ MigrationTyped /\ subs \subseteq Address => TypeInv)'
  BY TypeInvParts, PTL
<1>3. ASSUME NEW a \in Address, NEW i \in Id, Arrive(a, i) PROVE TypeInv'
  <2>1. QueueTyped' /\ NodeTyped'
    BY <1>3, ArriveStores, StoreTyped
  <2>2. UNCHANGED <<bound, mig, watch, shown, subs>>
    BY <1>3, Untouched
  <2> QED  BY <1>1, <1>2, <2>1, <2>2 DEF ClientTyped, MigrationTyped
<1>4. CASE MigratePut
  <2>1. QueueTyped' /\ NodeTyped'
    BY <1>4, PutStores, StoreTyped DEF Address
  <2>2. UNCHANGED <<bound, watch, shown, subs>>
    BY <1>4, Untouched
  <2>3. mig' = [mig EXCEPT !.stage = "put"]
    BY <1>4 DEF MigratePut
  <2> QED  BY <1>1, <1>2, <2>1, <2>2, <2>3 DEF ClientTyped, MigrationTyped
<1>5. CASE MigrateRead \/ MigrateRebind \/ MigrateStop
  <2>1. UNCHANGED <<at, watch, shown, subs, queue>>
    BY <1>5, Untouched
  <2>2. MigrationTyped'
    <3>1. Settled(at.old) /\ at.old \in SUBSET Record /\ Settled(Empty) /\ Empty \in SUBSET Record
      BY <1>1, SettledIsState, EmptyIsSettled DEF NodeTyped, Address, Empty
    <3> QED  BY <1>1, <1>5, <3>1 DEF MigrateRead, MigrateRebind, MigrateStop, NoMigration, MigrationTyped, Address
  <2> QED  BY <1>1, <1>2, <2>1, <2>2 DEF ClientTyped, QueueTyped, NodeTyped
<1>6. CASE Open \/ Proceed \/ Fail
  <2>1. UNCHANGED <<at, bound, mig>>
    BY <1>6, Untouched
  <2> QED  BY <1>1, <1>2, <1>6, <2>1, ClientStepTyped DEF NodeTyped, MigrationTyped
<1>7. CASE UNCHANGED vars
  BY <1>1, <1>2, <1>7 DEF vars, ClientTyped, QueueTyped, NodeTyped, MigrationTyped
<1> QED  BY <1>3, <1>4, <1>5, <1>6, <1>7 DEF Next

\* Everything keeps its type: nodes and clients hold no id twice, and no more waits
\* than may.
THEOREM WatchTypeCorrect == Spec => []TypeOK
<1>1. TypeInv => TypeOK
  BY DEF TypeInv
<1> QED  BY <1>1, InitTypeInv, NextTypeInv, PTL DEF Spec
-----------------------------------------------------------------------------
\* A node that has taken something in has it ever after.
LEMMA NodesForgetNothing ==
  ASSUME TypeInv, [Next]_vars, NEW b \in Address, NEW S \in SUBSET GenuineRecords, Has(at[b], S)
  PROVE  Has(at'[b], S)
<1>1. at \in [Address -> SUBSET GenuineRecords]
  BY DEF TypeInv
<1>2. ASSUME NEW a \in Address, NEW N \in SUBSET GenuineRecords,
             at' = [at EXCEPT ![a] = Canon(at[a] \cup N)]
      PROVE  Has(at'[b], S)
  <2>1. at'[b] = at[b] \/ at'[b] = Canon(at[b] \cup N)
    BY <1>1, <1>2
  <2>2. at[b] \in SUBSET GenuineRecords
    BY <1>1
  <2> QED  BY <1>2, <2>1, <2>2, HadStaysHad
<1>3. ASSUME NEW a \in Address, NEW recs \in SUBSET Record, Store(a, recs),
             recs \in SUBSET GenuineRecords \/ \A r \in recs : ~Verify(r)
      PROVE  Has(at'[b], S)
  <2>1. \E N \in SUBSET GenuineRecords : at' = [at EXCEPT ![a] = Canon(at[a] \cup N)]
    <3>1. \E N \in SUBSET GenuineRecords : Stores(a, recs, N)
      BY <1>3, StoreStep
    <3> QED  BY <3>1 DEF Stores
  <2> QED  BY <1>2, <2>1
<1>4. ASSUME NEW a \in Address, NEW i \in Id, Arrive(a, i) PROVE Has(at'[b], S)
  BY <1>3, <1>4, ArriveStores
<1>5. CASE MigratePut
  BY <1>3, <1>5, PutStores DEF Address
<1>6. CASE at' = at
  BY <1>6
<1> QED  BY <1>4, <1>5, <1>6, Untouched DEF Next, vars

\* Who holds what: what waits for a client, what the client holds and what it keeps of
\* the previous address its node has taken in; what was shown, the client.
HeldInv ==
  /\ \A a \in Address : Has(at[a], Carried(queue, a))
  /\ Has(at[watch.addr], watch.state)
  /\ Has(at.old, watch.cached)
  /\ Has(watch.state, shown)
  /\ mig.stage = "put" => Has(at.new, mig.read)

LEMMA SettledHasItself ==
  ASSUME NEW R, Settled(R)
  PROVE  Has(R, R) /\ Has(R, Empty)
<1>1. R \cup R = R /\ R \cup Empty = R
  BY DEF Empty
<1> QED  BY <1>1 DEF Has, Settled

LEMMA InitHeldInv == Init => HeldInv
<1> SUFFICES ASSUME Init PROVE HeldInv
  OBVIOUS
<1>1. TypeInv
  BY InitTypeInv
<1>2. /\ watch.addr = "old" /\ watch.state = Empty /\ watch.cached = Empty /\ shown = Empty
      /\ mig.stage = "idle" /\ \A a \in Address : Carried(queue, a) = Empty
  BY DEF Init, Off, NoMigration, Carried, Empty
<1>3. /\ \A a \in Address : Settled(at[a])
      /\ Settled(Empty) /\ Settled(at.old)
  BY <1>1, EmptyIsSettled DEF TypeInv, Address
<1> QED  BY <1>2, <1>3, SettledHasItself DEF HeldInv

\* What waits comes of genuine records.
LEMMA CarriedTyped ==
  ASSUME QueueTyped, NEW a
  PROVE  Carried(queue, a) \in SUBSET GenuineRecords
BY DEF QueueTyped, Carried

\* What waits is never news to its node, though it may be old.
LEMMA NextWaitsHeld ==
  ASSUME TypeInv, HeldInv, [Next]_vars, NEW a \in Address
  PROVE  Has(at'[a], Carried(queue', a))
<1> DEFINE C == Carried(queue, a)
<1>1. /\ QueueTyped /\ queue \in Seq(Note) /\ C \in SUBSET GenuineRecords
      /\ at'[a] \in SUBSET GenuineRecords /\ Settled(at'[a])
  <2>1. QueueTyped /\ TypeInv'
    BY TypeInvParts, NextTypeInv
  <2> QED  BY <2>1, CarriedTyped DEF QueueTyped, TypeInv
<1>2. Has(at'[a], C)
  BY <1>1, NodesForgetNothing DEF HeldInv
<1>3. CASE queue' = queue
  BY <1>2, <1>3
<1>4. CASE queue' = <<>>
  <2>1. Carried(queue', a) = {}
    BY <1>4 DEF Carried
  <2> QED  BY <1>1, <2>1, SettledHasItself DEF Empty
<1>5. CASE queue # <<>> /\ queue' = Tail(queue)
  <2>1. PICK S \in SUBSET GenuineRecords : C = Carried(queue', a) \cup S
    <3>1. C = Carried(Tail(queue), a) \cup (IF Head(queue).from = a THEN Said(Head(queue)) ELSE {})
      BY <1>1, <1>5, CarriedLess
    <3>2. Said(Head(queue)) \in SUBSET GenuineRecords
      BY <1>1, <1>5, NextNotice
    <3> QED  BY <1>5, <3>1, <3>2
  <2>2. Carried(queue', a) \in SUBSET GenuineRecords
    BY <1>1, <2>1
  <2> HIDE DEF C
  <2> QED  BY <1>1, <1>2, <2>1, <2>2, HasParts
<1>6. ASSUME NEW b \in Address, NEW recs \in SUBSET Record, Store(b, recs),
             recs \in SUBSET GenuineRecords \/ \A r \in recs : ~Verify(r)
      PROVE  Has(at'[a], Carried(queue', a))
  <2>1. PICK N \in SUBSET GenuineRecords : Stores(b, recs, N)
    BY <1>6, StoreStep
  <2>2. ASSUME NEW n \in Note, n.from = b, Said(n) = N, queue' = Append(queue, n)
        PROVE  Has(at'[a], Carried(queue', a))
    <3>1. Carried(queue', a) = C \cup (IF n.from = a THEN N ELSE {})
      BY <1>1, <2>2, CarriedMore
    <3>2. b = a => Has(at'[a], N)
      BY <2>1 DEF Stores
    <3> HIDE DEF C
    <3>3. CASE b = a
      BY <1>1, <1>2, <2>2, <3>1, <3>2, <3>3, HasParts
    <3>4. CASE b # a
      BY <1>2, <2>2, <3>1, <3>4
    <3> QED  BY <3>3, <3>4
  <2> QED  BY <1>3, <2>1, <2>2 DEF Stores
<1>7. ASSUME NEW b \in Address, NEW i \in Id, Arrive(b, i)
      PROVE  Has(at'[a], Carried(queue', a))
  BY <1>6, <1>7, ArriveStores
<1>8. CASE MigratePut
  BY <1>6, <1>8, PutStores DEF Address
<1>9. CASE Open
  BY <1>3, <1>4, <1>9 DEF Open
<1>10. CASE TakeUpdate \/ TakeOther
  BY <1>5, <1>10 DEF TakeUpdate, TakeOther
<1> QED
  BY <1>3, <1>7, <1>8, <1>9, <1>10 DEF Next, Proceed, vars, MigrateRead, MigrateRebind, MigrateStop,
     Subscribe, Subscribed, AskPrevious, PreviousAnswers, PreviousFails, Fail

\* What a client holds its node has, however the client came by it.
LEMMA NextClientHeld ==
  ASSUME TypeInv, HeldInv, Open \/ Proceed \/ Fail
  PROVE  /\ Has(at[watch'.addr], watch'.state) /\ Has(at.old, watch'.cached)
         /\ Has(watch'.state, shown')
<1>1. /\ \A a \in Address : Settled(at[a]) /\ at[a] \in SUBSET GenuineRecords
      /\ Settled(watch.state) /\ Settled(watch.cached) /\ Settled(shown)
      /\ watch.addr \in Address /\ bound \in Address /\ at.old = at["old"] /\ "old" \in Address
  BY DEF TypeInv, TypeOK, Settled, Address
<1>2. /\ watch.state \in SUBSET GenuineRecords /\ shown \in SUBSET GenuineRecords
      /\ Has(at[watch.addr], watch.state) /\ Has(at.old, watch.cached) /\ Has(watch.state, shown)
      /\ watch \in [pc : Following \cup Ended \cup {"opened", "subscribing"}, addr : Address,
                previous : BOOLEAN, state : SUBSET Record, cached : SUBSET Record,
                unreachable : BOOLEAN, skewed : BOOLEAN]
  BY <1>1 DEF Settled, HeldInv, TypeInv, TypeOK
<1>3. CASE Open
  <2>1. watch'.addr = bound /\ watch'.state = at[bound] /\ watch'.cached = Empty /\ shown' = at[bound]
    BY <1>3 DEF Open, Off
  <2> QED  BY <1>1, <2>1, SettledHasItself
<1>4. ASSUME NEW N \in SUBSET GenuineRecords, Has(at[watch.addr], N),
             watch'.state = Canon(watch.state \cup N), watch'.addr = watch.addr,
             watch'.cached = watch.cached, shown' \in {shown, watch'.state}
      PROVE  /\ Has(at[watch'.addr], watch'.state) /\ Has(at.old, watch'.cached)
             /\ Has(watch'.state, shown')
  <2> DEFINE A == at[watch.addr]
             st == watch.state
             new == Canon(st \cup N)
  <2>1. A \in SUBSET GenuineRecords /\ Canon(A \cup st) = A /\ Canon(A \cup N) = A
    BY <1>1, <1>2, <1>4 DEF Has
  <2>2. Has(A, new)
    <3>1. A \cup st \in SUBSET GenuineRecords /\ st \cup N \in SUBSET GenuineRecords
      BY <1>2, <2>1
    <3>2. Canon(A \cup new) = Canon(A \cup (st \cup N))
      BY <2>1, <3>1, CanonOfParts
    <3>3. A \cup (st \cup N) = (A \cup st) \cup N
      OBVIOUS
    <3>4. Canon(Canon(A \cup st) \cup N) = Canon((A \cup st) \cup N)
      BY <3>1, CanonOfParts
    <3> QED  BY <2>1, <3>2, <3>3, <3>4 DEF Has
  <2>3. Settled(new)
    BY <1>2, CanonOfParts
  <2>4. Has(new, shown)
    BY <1>2, HadStaysHad
  <2> HIDE DEF A, st, new
  <2>5. Has(new, shown')
    BY <1>4, <2>3, <2>4, SettledHasItself DEF new, st
  <2> QED  BY <1>2, <1>4, <2>2, <2>5 DEF new, A, st
<1>5. CASE Subscribed
  <2>1. Merge(watch.state, at[watch.addr]) = Canon(watch.state \cup at[watch.addr])
    BY <1>1, <1>2, MergeIsCanon
  <2>2. /\ watch'.state = Merge(watch.state, at[watch.addr]) /\ watch'.addr = watch.addr
        /\ watch'.cached = watch.cached /\ shown' \in {shown, watch'.state}
    BY <1>2, <1>5 DEF Subscribed
  <2> QED  BY <1>1, <1>4, <2>1, <2>2, SettledHasItself
<1>6. CASE TakeUpdate
  <2> DEFINE n == Head(queue)
  <2>1. /\ queue # <<>> /\ n.from = watch.addr
        /\ watch'.state = Received(watch.state, n) /\ watch'.addr = watch.addr
        /\ watch'.cached = watch.cached /\ shown' = watch'.state
    BY <1>2, <1>6 DEF TakeUpdate
  <2>2. queue \in Seq(Note) /\ Said(n) \in SUBSET GenuineRecords
    BY <2>1, TypeInvParts, NextNotice DEF QueueTyped
  <2>3. Has(at[watch.addr], Said(n))
    <3>1. Carried(queue, n.from) = Carried(Tail(queue), n.from) \cup Said(n)
      BY <2>1, <2>2, CarriedLess
    <3>2. Carried(queue, n.from) \in SUBSET GenuineRecords
      BY TypeInvParts, CarriedTyped
    <3>3. Has(at[n.from], Carried(queue, n.from))
      BY <1>1, <2>1 DEF HeldInv
    <3>4. Carried(Tail(queue), n.from) \in SUBSET GenuineRecords /\ at[n.from] \in SUBSET GenuineRecords
      BY <1>1, <2>1, <3>1, <3>2
    <3> HIDE DEF n
    <3> QED  BY <2>1, <2>2, <3>1, <3>3, <3>4, HasParts
  <2>4. Received(watch.state, n) = Canon(watch.state \cup Said(n))
    BY <1>2, <2>2, ReceivedIsMerged
  <2> QED  BY <1>4, <2>1, <2>2, <2>3, <2>4
<1>7. CASE PreviousAnswers
  BY <1>1, <1>2, <1>7, SettledHasItself DEF PreviousAnswers
<1>8. CASE /\ watch'.state = watch.state /\ watch'.addr = watch.addr /\ watch'.cached = watch.cached
           /\ shown' = shown
  BY <1>2, <1>8
<1>9. CASE Subscribe \/ AskPrevious \/ PreviousFails \/ TakeOther \/ Fail
  BY <1>2, <1>8, <1>9 DEF Subscribe, AskPrevious, PreviousFails, TakeOther, Fail
<1> QED  BY <1>3, <1>5, <1>6, <1>7, <1>9 DEF Proceed

LEMMA NextHeldInv == TypeInv /\ HeldInv /\ [Next]_vars => HeldInv'
<1> SUFFICES ASSUME TypeInv, HeldInv, [Next]_vars PROVE HeldInv'
  OBVIOUS
<1>1. (\A a \in Address : Has(at[a], Carried(queue, a)))'
  BY NextWaitsHeld
<1>2. /\ watch.addr \in Address /\ "old" \in Address /\ "new" \in Address
      /\ watch.state \in SUBSET GenuineRecords /\ watch.cached \in SUBSET GenuineRecords
      /\ mig.read \in SUBSET GenuineRecords
      /\ mig \in [stage : {"idle", "read", "put"}, read : SUBSET Record]
  BY DEF TypeInv, TypeOK, Settled, Address
<1>3. /\ Has(at'[watch.addr], watch.state) /\ Has(at'.old, watch.cached)
      /\ mig.stage = "put" => Has(at'.new, mig.read)
  BY <1>2, NodesForgetNothing DEF HeldInv
<1>4. /\ Has(at[watch.addr], watch.state)' /\ Has(at.old, watch.cached)'
      /\ Has(watch.state, shown)'
  <2>1. CASE Open \/ Proceed \/ Fail
    BY <2>1, NextClientHeld, Untouched
  <2>2. CASE UNCHANGED <<watch, shown>>
    BY <1>3, <2>2 DEF HeldInv
  <2> QED  BY <2>1, <2>2, Untouched DEF Next, vars
<1>5. (mig.stage = "put" => Has(at.new, mig.read))'
  <2>1. CASE MigratePut
    <3>1. mig' = [mig EXCEPT !.stage = "put"] /\ mig'.read = mig.read
      BY <1>2, <2>1 DEF MigratePut
    <3>2. mig.read \in SUBSET GenuineRecords /\ mig.read \in SUBSET Record /\ Store("new", mig.read)
      BY <2>1, PutStores
    <3>3. Has(at'["new"], mig.read)
      <4>1. \E N \in SUBSET GenuineRecords : Stores("new", mig.read, N)
        BY <1>2, <3>2, StoreStep
      <4> QED  BY <3>2, <4>1 DEF Stores
    <3> QED  BY <3>1, <3>3
  <2>2. CASE mig' = mig
    BY <1>3, <2>2
  <2>3. CASE mig'.stage # "put"
    BY <2>3
  <2>4. MigrateRead \/ MigrateRebind \/ MigrateStop => mig'.stage # "put"
    BY DEF MigrateRead, MigrateRebind, MigrateStop, NoMigration
  <2> QED  BY <2>1, <2>2, <2>3, <2>4, Untouched DEF Next, vars
<1> QED  BY <1>1, <1>4, <1>5 DEF HeldInv
-----------------------------------------------------------------------------
\* When the delegate is told of the new address, everything that the migration read at
\* the old one has been stored there, and what has come since took nothing away.
THEOREM MigrationCarriesAll == Spec => MigrationLosesNothing
<1>1. TypeInv /\ HeldInv /\ [Next]_vars => (bound' # bound => ApplyDelta(at'.new, mig.read) = at'.new)
  <2> SUFFICES ASSUME TypeInv, HeldInv, [Next]_vars, bound' # bound
               PROVE  ApplyDelta(at'.new, mig.read) = at'.new
    OBVIOUS
  <2>1. MigrateRebind
    BY Untouched DEF Next, vars, MigrateRead, MigrateStop
  <2>2. Has(at.new, mig.read) /\ at' = at
    BY <2>1 DEF MigrateRebind, HeldInv
  <2>3. at.new \in SUBSET GenuineRecords /\ mig.read \in SUBSET GenuineRecords
    BY DEF TypeInv, Address, Settled
  <2>4. ApplyDelta(at.new, mig.read) = Canon(at.new \cup mig.read)
    BY <2>3, MergeIsCanon
  <2> QED  BY <2>2, <2>4 DEF Has
<1> QED  BY <1>1, InitTypeInv, NextTypeInv, InitHeldInv, NextHeldInv, PTL DEF Spec, MigrationLosesNothing

\* What a client shows next of a game at the same address has taken in what it showed.
LEMMA ShownIsTakenIn ==
  ASSUME TypeInv, HeldInv, [Next]_vars, watch'.addr = watch.addr, shown' # shown
  PROVE  Settled(shown') /\ Has(shown', shown)
<1>1. Settled(shown')
  <2>1. TypeInv'
    BY NextTypeInv
  <2> QED  BY <2>1 DEF TypeInv
<1>2. /\ shown \in SUBSET GenuineRecords /\ watch.state \in SUBSET GenuineRecords
      /\ \A a \in Address : at[a] \in SUBSET GenuineRecords
      /\ watch.addr \in Address /\ bound \in Address
      /\ Has(watch.state, shown) /\ Has(at[watch.addr], watch.state)
      /\ watch \in [pc : Following \cup Ended \cup {"opened", "subscribing"}, addr : Address,
                previous : BOOLEAN, state : SUBSET Record, cached : SUBSET Record,
                unreachable : BOOLEAN, skewed : BOOLEAN]
  BY DEF TypeInv, TypeOK, HeldInv, Settled
<1>3. Open \/ Subscribed \/ TakeUpdate
  BY Untouched DEF Next, Proceed, vars, Subscribe, AskPrevious, PreviousAnswers, PreviousFails, TakeOther, Fail
<1>4. CASE Open
  <2>1. shown' = at[bound] /\ watch'.addr = bound
    BY <1>4 DEF Open, Off
  <2>2. Has(at[watch.addr], shown)
    BY <1>2, HasIsTransitive
  <2> QED  BY <1>1, <2>1, <2>2
<1>5. CASE Subscribed
  <2> DEFINE st == Canon(watch.state \cup at[watch.addr])
  <2>1. shown' = Merge(watch.state, at[watch.addr])
    BY <1>5 DEF Subscribed
  <2>2. Merge(watch.state, at[watch.addr]) = st
    BY <1>2, MergeIsCanon
  <2>3. Has(st, shown)
    BY <1>2, HadStaysHad
  <2> HIDE DEF st
  <2> QED  BY <1>1, <2>1, <2>2, <2>3
<1>6. CASE TakeUpdate
  <2> DEFINE n == Head(queue)
             st == Canon(watch.state \cup Said(n))
  <2>1. queue # <<>> /\ shown' = Received(watch.state, n)
    BY <1>6 DEF TakeUpdate
  <2>2. Said(n) \in SUBSET GenuineRecords
    BY <2>1, TypeInvParts, NextNotice
  <2>3. Received(watch.state, n) = st
    BY <1>2, <2>2, ReceivedIsMerged
  <2>4. Has(st, shown)
    BY <1>2, <2>2, HadStaysHad
  <2> HIDE DEF st
  <2> QED  BY <1>1, <2>1, <2>3, <2>4
<1> QED  BY <1>3, <1>4, <1>5, <1>6

\* No report to the user takes a move back that an earlier one had, as long as it
\* uncovers no double sign.
THEOREM ShownMovesStay == Spec => MovesShownStay
<1>1. TypeInv /\ HeldInv /\ [Next]_vars => MovesShownStand
  <2> SUFFICES ASSUME TypeInv, HeldInv, [Next]_vars, watch'.addr = watch.addr, shown' # shown,
                      DoubleSignedPlies(shown') = DoubleSignedPlies(shown)
               PROVE  LET before == Walk(shown).chain  after == Walk(shown').chain IN
                      Len(after) >= Len(before) /\ SubSeq(after, 1, Len(before)) = before
    BY DEF MovesShownStand
  <2> DEFINE U == shown' \cup shown
  <2>1. Settled(shown') /\ Has(shown', shown) /\ Settled(shown)
    BY ShownIsTakenIn DEF TypeInv
  <2>2. U \in SUBSET GenuineRecords /\ shown \in SUBSET U /\ Canon(U) = shown'
    BY <2>1 DEF Settled, Has
  <2>3. shown \in SUBSET Record /\ shown' \in SUBSET Record
    BY <2>1, SettledIsState
  <2> HIDE DEF U
  <2>4. Same(Walk(shown), Walk(Canon(U))) \/ Behind(shown, Walk(shown), Walk(Canon(U)))
    BY <2>2, MergedWalk
  <2>5. Shaped(Walk(shown)) /\ Shaped(Walk(shown'))
    BY <2>3, WalkOfRecords
  <2> QED  BY <2>2, <2>4, <2>5, FurtherChain
<1> QED  BY <1>1, InitTypeInv, NextTypeInv, InitHeldInv, NextHeldInv, PTL DEF Spec, MovesShownStay
-----------------------------------------------------------------------------
\* A client that follows is subscribed, and what it holds and what waits for it make up
\* what the node has.
FollowInv ==
  /\ watch.pc \in Following \cup {"subscribing"} => watch.addr \in subs
  /\ watch.pc \in Following => Canon(watch.state \cup Coming) = at[watch.addr]
LEMMA NextFollowInv == TypeInv /\ HeldInv /\ FollowInv /\ [Next]_vars => FollowInv'
<1> SUFFICES ASSUME TypeInv, HeldInv, FollowInv, [Next]_vars PROVE FollowInv'
  OBVIOUS
<1> DEFINE a == watch.addr
           A == at[a]
           C == Carried(queue, a)
           st == watch.state
<1>1. /\ QueueTyped /\ queue \in Seq(Note) /\ a \in Address /\ Settled(A) /\ A \in SUBSET GenuineRecords
      /\ st \in SUBSET GenuineRecords /\ C \in SUBSET GenuineRecords
      /\ watch \in [pc : Following \cup Ended \cup {"opened", "subscribing"}, addr : Address,
                previous : BOOLEAN, state : SUBSET Record, cached : SUBSET Record,
                unreachable : BOOLEAN, skewed : BOOLEAN]
  <2>1. QueueTyped /\ NodeTyped /\ ClientTyped
    BY TypeInvParts
  <2>2. Settled(A) /\ Settled(st)
    BY <2>1 DEF NodeTyped, ClientTyped
  <2> QED  BY <2>1, <2>2, CarriedTyped DEF QueueTyped, ClientTyped, Settled
<1>2. /\ Has(A, C) /\ Has(A, st)
      /\ watch.pc \in Following \cup {"subscribing"} => a \in subs
      /\ watch.pc \in Following => Canon(st \cup C) = A
  BY <1>1, ComingIsCarried DEF HeldInv, FollowInv
<1>3. Coming' = Carried(queue', watch'.addr)
  <2>1. (Coming = Carried(queue, watch.addr))'
    BY ComingIsCarried, PTL
  <2> QED  BY <2>1
<1>4. ASSUME NEW b \in Address, NEW recs \in SUBSET Record, Store(b, recs),
             recs \in SUBSET GenuineRecords \/ \A r \in recs : ~Verify(r),
             watch' = watch, subs' = subs
      PROVE  FollowInv'
  <2>1. PICK N \in SUBSET GenuineRecords : Stores(b, recs, N)
    BY <1>4, StoreStep
  <2>2. at \in [Address -> SUBSET GenuineRecords]
    BY DEF TypeInv
  <2>3. ASSUME watch.pc \in Following PROVE Canon(st \cup Carried(queue', a)) = at'[a]
    <3>1. CASE queue' = queue /\ at' = at
      BY <1>2, <2>3, <3>1
    <3>2. CASE queue' = queue /\ b \notin subs
      BY <1>1, <1>2, <2>1, <2>2, <2>3, <3>2 DEF Stores
    <3>3. ASSUME NEW n \in Note, n.from = b, Said(n) = N, queue' = Append(queue, n)
          PROVE  Canon(st \cup Carried(queue', a)) = at'[a]
      <4>1. Carried(queue', a) = C \cup (IF n.from = a THEN N ELSE {})
        BY <1>1, <3>3, CarriedMore
      <4>2. CASE b # a
        BY <1>1, <1>2, <2>1, <2>2, <2>3, <3>3, <4>1, <4>2 DEF Stores
      <4>3. CASE b = a
        <5>1. at'[a] = Canon(A \cup N)
          BY <1>1, <2>1, <2>2, <4>3 DEF Stores
        <5>2. st \cup C \in SUBSET GenuineRecords /\ (st \cup C) \cup N = st \cup (C \cup N)
          BY <1>1
        <5> HIDE DEF st, C, A
        <5>3. Canon(Canon(st \cup C) \cup N) = Canon((st \cup C) \cup N)
          BY <5>2, CanonOfParts
        <5> QED  BY <1>2, <2>3, <3>3, <4>1, <4>3, <5>1, <5>2, <5>3
      <4> QED  BY <4>2, <4>3
    <3> QED  BY <2>1, <3>1, <3>2, <3>3 DEF Stores
  <2> QED  BY <1>2, <1>3, <1>4, <2>3 DEF FollowInv
<1>5. ASSUME NEW b \in Address, NEW i \in Id, Arrive(b, i) PROVE FollowInv'
  <2>1. watch' = watch /\ subs' = subs
    BY <1>5, Untouched
  <2> QED  BY <1>4, <1>5, <2>1, ArriveStores
<1>6. CASE MigratePut
  <2>1. watch' = watch /\ subs' = subs
    BY <1>6, Untouched
  <2> QED  BY <1>4, <1>6, <2>1, PutStores DEF Address
<1>7. CASE MigrateRead \/ MigrateRebind \/ MigrateStop \/ UNCHANGED vars
  <2>1. UNCHANGED <<at, watch, subs, queue>>
    BY <1>7, Untouched DEF vars
  <2> QED  BY <1>2, <1>3, <2>1 DEF FollowInv
<1>8. CASE Open
  <2>1. watch'.pc \in {"done", "opened"}
    BY <1>8 DEF Open, Off
  <2> QED  BY <2>1 DEF FollowInv, Following
<1>9. CASE Subscribe
  <2>1. watch'.pc = "subscribing" /\ watch'.addr = a /\ a \in subs'
    BY <1>1, <1>9 DEF Subscribe
  <2> QED  BY <2>1 DEF FollowInv, Following
<1>10. CASE Subscribed
  <2>1. /\ at' = at /\ queue' = queue /\ subs' = subs /\ watch'.addr = a
        /\ watch'.state = Merge(st, A) /\ watch.pc = "subscribing"
    BY <1>1, <1>10, Untouched DEF Subscribed, Proceed
  <2>2. Merge(st, A) = A
    <3>1. Merge(st, A) = Canon(st \cup A) /\ st \cup A = A \cup st
      BY <1>1, MergeIsCanon
    <3> QED  BY <1>2, <3>1 DEF Has
  <2>3. Canon(A \cup C) = A
    BY <1>2 DEF Has
  <2> QED  BY <1>2, <1>3, <2>1, <2>2, <2>3 DEF FollowInv
<1>11. CASE TakeUpdate
  <2> DEFINE n == Head(queue)
             D == Carried(queue', a)
             S == Said(n)
  <2>1. /\ at' = at /\ queue' = Tail(queue) /\ subs' = subs /\ watch'.addr = a /\ queue # <<>>
        /\ watch'.state = Received(st, n) /\ watch.pc \in Following /\ n.from = a
    BY <1>1, <1>11, Untouched DEF TakeUpdate, Proceed, Following
  <2>2. C = D \cup S /\ D \in SUBSET GenuineRecords /\ S \in SUBSET GenuineRecords
    <3>1. C = Carried(Tail(queue), a) \cup (IF Head(queue).from = a THEN Said(Head(queue)) ELSE {})
      BY <1>1, <2>1, CarriedLess
    <3>2. C = D \cup S
      BY <2>1, <3>1
    <3> HIDE DEF C, D, S
    <3> QED  BY <1>1, <3>2
  <2>3. Received(st, n) = Canon(st \cup S)
    BY <1>1, <2>2, ReceivedIsMerged
  <2>4. st \cup S \in SUBSET GenuineRecords /\ (st \cup S) \cup D = st \cup C
    BY <1>1, <2>2
  <2> HIDE DEF n, D, S, C, st, A
  <2>5. Canon(Canon(st \cup S) \cup D) = Canon((st \cup S) \cup D)
    BY <2>2, <2>4, CanonOfParts
  <2>6. Canon(Canon(st \cup S) \cup D) = A
    BY <1>2, <2>1, <2>4, <2>5
  <2>7. watch'.addr \in subs'
    BY <1>2, <2>1
  <2>8. Canon(watch'.state \cup Carried(queue', watch'.addr)) = at'[watch'.addr]
    BY <2>1, <2>3, <2>6 DEF D, A
  <2> QED  BY <1>3, <2>7, <2>8 DEF FollowInv
<1>12. CASE TakeOther
  <2>1. /\ at' = at /\ queue' = Tail(queue) /\ subs' = subs /\ watch'.addr = a /\ queue # <<>>
        /\ watch'.state = st /\ watch.pc \in Following /\ Head(queue).from # a
    BY <1>1, <1>12, Untouched DEF TakeOther, Proceed, Following
  <2>2. C = Carried(queue', a)
    <3>1. C = Carried(Tail(queue), a) \cup (IF Head(queue).from = a THEN Said(Head(queue)) ELSE {})
      BY <1>1, <2>1, CarriedLess
    <3> QED  BY <2>1, <3>1
  <2> QED  BY <1>2, <1>3, <2>1, <2>2 DEF FollowInv
<1>13. CASE AskPrevious \/ PreviousAnswers \/ PreviousFails
  <2>1. /\ at' = at /\ queue' = queue /\ subs \subseteq subs' /\ watch'.addr = a
        /\ watch'.state = st /\ watch.pc \in Following
    BY <1>1, <1>13, Untouched DEF AskPrevious, PreviousAnswers, PreviousFails, Proceed, Following
  <2> QED  BY <1>2, <1>3, <2>1 DEF FollowInv
<1>14. CASE Fail
  <2>1. watch'.pc = "failed"
    BY <1>1, <1>14 DEF Fail
  <2> QED  BY <2>1 DEF FollowInv, Following
<1> QED
  BY <1>5, <1>6, <1>7, <1>8, <1>9, <1>10, <1>11, <1>12, <1>13, <1>14 DEF Next, Proceed

LEMMA InitFollowInv == Init => FollowInv
BY DEF Init, Off, FollowInv, Following

\* No record is lost to a client that follows: neither one that came between its first
\* look and its subscription, nor one that came while it asked about something else.
THEOREM NothingGoesMissing == Spec => []NothingIsMissed
<1>1. TypeInv /\ FollowInv => NothingIsMissed
  <2> SUFFICES ASSUME TypeInv, FollowInv, watch.pc \in Following
               PROVE  ApplyDelta(watch.state, Coming) = at[watch.addr]
    BY DEF NothingIsMissed
  <2>1. watch.state \in SUBSET GenuineRecords /\ Coming \in SUBSET GenuineRecords
    BY TypeInvParts, ComingIsCarried, CarriedTyped DEF TypeInv, Settled
  <2>2. ApplyDelta(watch.state, Coming) = Canon(watch.state \cup Coming)
    BY <2>1, MergeIsCanon
  <2> QED  BY <2>2 DEF FollowInv
<1> QED  BY <1>1, InitTypeInv, NextTypeInv, InitHeldInv, NextHeldInv, InitFollowInv, NextFollowInv, PTL DEF Spec
-----------------------------------------------------------------------------
LEMMA RecordsAreFinite ==
  ASSUME NEW R \in SUBSET GenuineRecords
  PROVE  IsFiniteSet(R)
<1> DEFINE f == [r \in GenuineRecords |-> r.id]
<1>1. ASSUME NEW r \in GenuineRecords, NEW x \in GenuineRecords, r.id = x.id PROVE r = x
  <2>1. r.id \in Id /\ r \in Genuine /\ x \in Genuine
    BY DEF GenuineRecords, Record, Verify
  <2>2. PICK y \in Genuine : {z \in Genuine : z.id = r.id} = {y}
    BY <2>1, SignatureAssumption
  <2> QED  BY <1>1, <2>1, <2>2
<1>2. f \in Injection(GenuineRecords, Id)
  <2>1. f \in [GenuineRecords -> Id]
    BY DEF GenuineRecords, Record
  <2>2. ASSUME NEW r \in GenuineRecords, NEW x \in GenuineRecords, f[r] = f[x] PROVE r = x
    BY <1>1, <2>2
  <2>3. DOMAIN f = GenuineRecords
    OBVIOUS
  <2> HIDE DEF f
  <2> QED  BY <2>1, <2>2, <2>3 DEF Injection, IsInjective
<1>3. IsFiniteSet(GenuineRecords)
  BY <1>2, IdAssumption, FS_Injection
<1> QED  BY <1>3, FS_Subset

\* Until it is subscribed a client holds what it has shown.  From then on what it holds
\* may be something else only if something shown was pushed out of it.
LookInv ==
  /\ watch.pc \in {"opened", "subscribing"} => shown = watch.state
  /\ ShownIsHeld

LEMMA InitLookInv == Init => LookInv
BY DEF Init, Off, LookInv, ShownIsHeld, Following

LEMMA NextLookInv == TypeInv /\ LookInv /\ [Next]_vars => LookInv'
<1> SUFFICES ASSUME TypeInv, LookInv, [Next]_vars PROVE LookInv'
  OBVIOUS
<1>1. /\ watch \in [pc : Following \cup Ended \cup {"opened", "subscribing"}, addr : Address,
                previous : BOOLEAN, state : SUBSET Record, cached : SUBSET Record,
                unreachable : BOOLEAN, skewed : BOOLEAN]
      /\ watch.state \in SUBSET GenuineRecords /\ at[watch.addr] \in SUBSET GenuineRecords
  BY DEF TypeInv, TypeOK, Settled
<1>2. CASE UNCHANGED <<watch, shown>>
  BY <1>2 DEF LookInv, ShownIsHeld
<1>3. CASE Open
  BY <1>3 DEF Open, Off, LookInv, ShownIsHeld, Following
<1>4. CASE Subscribe
  BY <1>1, <1>4 DEF Subscribe, LookInv, ShownIsHeld, Following
<1>5. CASE Subscribed
  <2> DEFINE st == Merge(watch.state, at[watch.addr])
             moved == Cardinality(st) # Cardinality(watch.state)
  <2>1. IsFiniteSet(st)
    <3>1. watch.state \cup at[watch.addr] \in SUBSET GenuineRecords
      BY <1>1
    <3>2. st = Canon(watch.state \cup at[watch.addr])
      BY <1>1, MergeIsCanon
    <3>3. st \in SUBSET GenuineRecords
      BY <3>1, <3>2, CanonIsState
    <3> QED  BY <3>3, RecordsAreFinite
  <2>2. /\ watch.pc = "subscribing" /\ shown = watch.state
        /\ shown' = IF moved THEN st ELSE shown
        /\ watch'.state = st /\ watch'.pc \notin {"opened", "subscribing"}
    BY <1>1, <1>5 DEF Subscribed, LookInv, Then
  <2> HIDE DEF st
  <2>3. shown' \subseteq watch'.state => shown' = watch'.state
    <3>1. CASE moved
      BY <2>2, <3>1
    <3>2. CASE ~moved
      BY <2>1, <2>2, <3>2, FS_Subset
    <3> QED  BY <3>1, <3>2
  <2> QED  BY <2>2, <2>3 DEF LookInv, ShownIsHeld
<1>6. CASE TakeUpdate
  <2>1. watch'.state = shown' /\ watch.pc = "waiting" /\ watch'.pc \in {"waiting", "done"}
    BY <1>1, <1>6 DEF TakeUpdate
  <2> QED  BY <2>1 DEF LookInv, ShownIsHeld
<1>7. CASE AskPrevious \/ PreviousAnswers \/ PreviousFails \/ TakeOther
  <2>1. /\ watch'.state = watch.state /\ shown' = shown
        /\ watch.pc \in Following /\ watch'.pc \in Following
    BY <1>1, <1>7 DEF AskPrevious, PreviousAnswers, PreviousFails, TakeOther, Following
  <2> QED  BY <2>1 DEF LookInv, ShownIsHeld, Following
<1>8. CASE Fail
  <2>1. watch'.pc = "failed"
    BY <1>1, <1>8 DEF Fail
  <2> QED  BY <2>1 DEF LookInv, ShownIsHeld, Following
<1> QED  BY <1>2, <1>3, <1>4, <1>5, <1>6, <1>7, <1>8, Untouched DEF Next, Proceed, vars

\* Counting the records is enough to tell a client whether to report what it got with
\* its subscription, unless a record it reported was pushed out.
THEOREM WhatIsHeldIsShown == Spec => []ShownIsHeld
<1>1. LookInv => ShownIsHeld
  BY DEF LookInv
<1> QED  BY <1>1, InitTypeInv, NextTypeInv, InitLookInv, NextLookInv, PTL DEF Spec
-----------------------------------------------------------------------------
\* A client that waits has its user told by what it holds and what it keeps of the
\* previous address; and that is what is there, or a notification says otherwise.
Watches == "old" \in subs /\ watch.previous /\ ~watch.unreachable
SkewInv ==
  /\ watch.pc \in {"opened", "subscribing", "previous"} =>
       watch.cached = Empty /\ ~watch.skewed /\ ~watch.unreachable
  /\ watch.pc = "waiting" /\ Watches =>
       /\ watch.skewed = OpponentAhead(watch.state, watch.cached)
       /\ watch.cached = at.old \/ \E n \in DOMAIN queue : queue[n].from = "old"

LEMMA OthersStayQueued ==
  ASSUME NEW q \in Seq(Note), q # <<>>, NEW n \in DOMAIN q, q[n].from # Head(q).from
  PROVE  \E m \in DOMAIN Tail(q) : Tail(q)[m].from = q[n].from
<1>1. /\ Len(q) \in Nat /\ Len(q) >= 1 /\ Len(Tail(q)) = Len(q) - 1
      /\ DOMAIN q = 1..Len(q) /\ DOMAIN Tail(q) = 1..(Len(q) - 1)
      /\ \A m \in 1..(Len(q) - 1) : Tail(q)[m] = q[m + 1]
      /\ q[1] = Head(q)
  BY HeadTailProperties
<1>2. n # 1 /\ n - 1 \in 1..(Len(q) - 1) /\ (n - 1) + 1 = n
  BY <1>1
<1> QED  BY <1>1, <1>2

LEMMA InitSkewInv == Init => SkewInv
BY DEF Init, Off, SkewInv

LEMMA NextSkewInv == TypeInv /\ HeldInv /\ SkewInv /\ [Next]_vars => SkewInv'
<1> SUFFICES ASSUME TypeInv, HeldInv, SkewInv, [Next]_vars PROVE SkewInv'
  OBVIOUS
<1>1. /\ watch \in [pc : Following \cup Ended \cup {"opened", "subscribing"}, addr : Address,
                previous : BOOLEAN, state : SUBSET Record, cached : SUBSET Record,
                unreachable : BOOLEAN, skewed : BOOLEAN]
      /\ queue \in Seq(Note)
      /\ watch.previous => watch.addr = "new"
      /\ at \in [Address -> SUBSET GenuineRecords]
  BY DEF TypeInv, TypeOK
<1>2. ASSUME NEW b \in Address, NEW recs \in SUBSET Record, Store(b, recs),
             recs \in SUBSET GenuineRecords \/ \A r \in recs : ~Verify(r),
             watch' = watch, subs' = subs
      PROVE  SkewInv'
  <2>1. PICK N \in SUBSET GenuineRecords : Stores(b, recs, N)
    BY <1>2, StoreStep
  <2>2. ASSUME watch.pc = "waiting", Watches
        PROVE  \/ \E n \in DOMAIN queue' : queue'[n].from = "old"
               \/ at'.old = at.old /\ \A n \in DOMAIN queue : n \in DOMAIN queue' /\ queue'[n] = queue[n]
    <3>1. CASE queue' = queue
      BY <1>1, <2>1, <2>2, <3>1 DEF Stores, Watches, Address
    <3>2. ASSUME NEW n \in Note, n.from = b, queue' = Append(queue, n)
          PROVE  \/ \E m \in DOMAIN queue' : queue'[m].from = "old"
                 \/ at'.old = at.old /\ \A m \in DOMAIN queue : m \in DOMAIN queue' /\ queue'[m] = queue[m]
      <4>1. /\ Len(queue) + 1 \in DOMAIN queue' /\ queue'[Len(queue) + 1] = n
            /\ \A m \in DOMAIN queue : m \in DOMAIN queue' /\ queue'[m] = queue[m]
        BY <1>1, <3>2
      <4>2. CASE b = "old"
        BY <3>2, <4>1, <4>2
      <4>3. CASE b # "old"
        BY <1>1, <2>1, <4>1, <4>3 DEF Stores, Address
      <4> QED  BY <4>2, <4>3
    <3>3. queue' = queue \/ \E n \in Note : n.from = b /\ queue' = Append(queue, n)
      BY <2>1 DEF Stores
    <3> QED  BY <3>1, <3>2, <3>3
  <2> QED  BY <1>2, <2>2 DEF SkewInv, Watches
<1>3. ASSUME NEW b \in Address, NEW i \in Id, Arrive(b, i) PROVE SkewInv'
  <2>1. watch' = watch /\ subs' = subs
    BY <1>3, Untouched
  <2> QED  BY <1>2, <1>3, <2>1, ArriveStores
<1>4. CASE MigratePut
  <2>1. watch' = watch /\ subs' = subs
    BY <1>4, Untouched
  <2> QED  BY <1>2, <1>4, <2>1, PutStores DEF Address
<1>5. CASE MigrateRead \/ MigrateRebind \/ MigrateStop \/ UNCHANGED vars
  <2>1. UNCHANGED <<at, watch, subs, queue>>
    BY <1>5, Untouched DEF vars
  <2> QED  BY <2>1 DEF SkewInv, Watches
<1>6. CASE Open
  <2>1. /\ watch'.pc \in {"done", "opened"} /\ watch'.cached = Empty
        /\ watch'.skewed = FALSE /\ watch'.unreachable = FALSE
    BY <1>6 DEF Open, Off
  <2> QED  BY <2>1 DEF SkewInv
<1>7. CASE Subscribe \/ Subscribed
  <2>1. /\ watch'.pc \in {"subscribing", "done", "previous", "waiting"}
        /\ watch'.pc = "waiting" => ~watch'.previous
        /\ watch'.cached = watch.cached /\ watch'.skewed = watch.skewed
        /\ watch'.unreachable = watch.unreachable /\ watch.pc \in {"opened", "subscribing"}
    BY <1>1, <1>7 DEF Subscribe, Subscribed, Then
  <2> QED  BY <2>1 DEF SkewInv, Watches
<1>8. CASE AskPrevious
  <2>1. CASE watch' = [watch EXCEPT !.pc = "asking"]
    <3>1. watch'.pc = "asking"
      BY <1>1, <2>1
    <3> QED  BY <3>1 DEF SkewInv
  <2>2. CASE at.old = Empty /\ watch' = [watch EXCEPT !.pc = "waiting"]
    <3>1. /\ watch'.pc = "waiting" /\ watch'.cached = Empty /\ watch'.skewed = FALSE
          /\ at'.old = Empty
      BY <1>1, <1>8, <2>2 DEF AskPrevious, SkewInv
    <3>2. OpponentAhead(watch'.state, Empty) = FALSE
      BY DEF OpponentAhead, Empty
    <3> QED  BY <3>1, <3>2 DEF SkewInv
  <2> QED  BY <1>8, <2>1, <2>2 DEF AskPrevious
<1>9. CASE PreviousAnswers
  <2> DEFINE cached == IF at.old = Empty THEN watch.cached ELSE at.old
  <2>1. /\ watch' = [watch EXCEPT !.pc = "waiting", !.cached = cached, !.skewed = Skew(watch.state, cached)]
        /\ at' = at
    BY <1>9 DEF PreviousAnswers
  <2>2. cached = at.old
    <3>1. Settled(watch.cached) /\ Has(at.old, watch.cached)
      BY DEF TypeInv, HeldInv
    <3>2. at.old = Empty => at.old \cup watch.cached = watch.cached
      BY DEF Empty
    <3> QED  BY <3>1, <3>2 DEF Settled, Has
  <2>3. Skew(watch.state, cached) \in BOOLEAN
    BY DEF Skew, OpponentAhead
  <2> HIDE DEF cached
  <2>4. /\ watch'.pc = "waiting" /\ watch'.cached = cached /\ watch'.state = watch.state
        /\ watch'.skewed = Skew(watch.state, cached)
    BY <1>1, <2>1, <2>3
  <2> QED  BY <2>1, <2>2, <2>4 DEF SkewInv, Skew
<1>10. CASE PreviousFails
  <2>1. watch'.pc = "waiting" /\ watch'.unreachable = TRUE
    BY <1>1, <1>10 DEF PreviousFails
  <2> QED  BY <2>1 DEF SkewInv, Watches
<1>11. CASE TakeUpdate
  <2> DEFINE st == Received(watch.state, Head(queue))
  <2>1. /\ watch' = [watch EXCEPT !.state = st,
                            !.skewed = IF watch.previous THEN Skew(st, watch.cached) ELSE @,
                            !.pc = IF IsOver(st) THEN "done" ELSE @]
        /\ at' = at /\ subs' = subs /\ queue' = Tail(queue) /\ queue # <<>>
        /\ watch.pc = "waiting" /\ Head(queue).from = watch.addr
    BY <1>11 DEF TakeUpdate
  <2> HIDE DEF st
  <2>2. Skew(st, watch.cached) \in BOOLEAN
    BY DEF Skew, OpponentAhead
  <2>3. /\ watch'.pc \in {"waiting", "done"} /\ watch'.state = st /\ watch'.cached = watch.cached
        /\ watch'.previous = watch.previous /\ watch'.unreachable = watch.unreachable
        /\ watch.previous => watch'.skewed = Skew(st, watch.cached)
    BY <1>1, <2>1, <2>2
  <2>4. ASSUME Watches'
        PROVE  watch.cached = at.old \/ \E n \in DOMAIN queue' : queue'[n].from = "old"
    <3>1. Watches /\ Head(queue).from = "new"
      BY <1>1, <2>1, <2>3, <2>4 DEF Watches
    <3>2. ASSUME NEW n \in DOMAIN queue, queue[n].from = "old"
          PROVE  \E m \in DOMAIN queue' : queue'[m].from = "old"
      BY <1>1, <2>1, <3>1, <3>2, OthersStayQueued
    <3> QED  BY <2>1, <3>1, <3>2 DEF SkewInv
  <2>5. Watches' => watch.previous
    BY <2>3 DEF Watches
  <2> QED  BY <2>1, <2>3, <2>4, <2>5 DEF SkewInv, Skew
<1>12. CASE TakeOther
  <2>1. CASE watch.previous /\ ~watch.unreachable
    <3>1. watch'.pc = "asking"
      BY <1>1, <1>12, <2>1 DEF TakeOther
    <3> QED  BY <3>1 DEF SkewInv
  <2>2. CASE ~(watch.previous /\ ~watch.unreachable)
    <3>1. watch' = watch /\ watch.pc = "waiting"
      BY <1>12, <2>2 DEF TakeOther
    <3> QED  BY <2>2, <3>1 DEF SkewInv, Watches
  <2> QED  BY <2>1, <2>2
<1>13. CASE Fail
  <2>1. watch'.pc = "failed"
    BY <1>1, <1>13 DEF Fail
  <2> QED  BY <2>1 DEF SkewInv
<1> QED
  BY <1>3, <1>4, <1>5, <1>6, <1>7, <1>8, <1>9, <1>10, <1>11, <1>12, <1>13 DEF Next, Proceed

\* A user is warned of an opponent who has been left behind when that is so, and only
\* then, once the client has taken in all it was told.
THEOREM SkewIsTold == Spec => []SkewIsReported
<1>1. TypeInv /\ FollowInv /\ SkewInv => SkewIsReported
  <2> SUFFICES ASSUME TypeInv, FollowInv, SkewInv, watch.pc = "waiting", queue = <<>>, "old" \in subs,
                      watch.previous, ~watch.unreachable
               PROVE  watch.skewed = OpponentAhead(at.new, at.old)
    BY DEF SkewIsReported
  <2>1. watch.addr = "new" /\ Settled(watch.state)
    BY DEF TypeInv, TypeOK
  <2>2. Coming = {}
    BY ComingIsCarried DEF Carried
  <2>3. watch.state = at.new
    BY <2>1, <2>2 DEF FollowInv, Following, Settled
  <2>4. watch.cached = at.old /\ watch.skewed = OpponentAhead(watch.state, watch.cached)
    BY DEF SkewInv, Watches
  <2> QED  BY <2>3, <2>4
<1> QED  BY <1>1, InitTypeInv, NextTypeInv, InitHeldInv, NextHeldInv, InitFollowInv, NextFollowInv,
            InitSkewInv, NextSkewInv, PTL DEF Spec
============================================================================
