------------------------- MODULE ProjectionTheorems -------------------------
(***************************************************************************)
(* The walk of project.rs for every set of records and every board.        *)
(*                                                                         *)
(* What a walk comes to is proved along its turns.  A fact about all of    *)
(* them holds after none and is handed from each to the next: the first    *)
(* turn at which it failed would be a least element of a set of numbers,   *)
(* and the turn before it a contradiction (CountingUp).                    *)
(*                                                                         *)
(* Two sets of records are compared turn by turn: their walks are the      *)
(* same until one of them stops, if they share no double sign              *)
(* (WalksDoNotPart), or if one keeps the other's moves up to the ply of    *)
(* the first (WalkKeepsUp).                                                *)
(***************************************************************************)
EXTENDS Projection, CanonicalTheorems

\* Counting up from 0 reaches every number.
LEMMA CountingUp ==
  ASSUME NEW m \in Nat, NEW S, 0 \in S,
         \A n \in 0..m : n < m /\ n \in S => n + 1 \in S
  PROVE  \A n \in 0..m : n \in S
<1> DEFINE Missed == {n \in 0..m : n \notin S}
<1>1. ASSUME Missed # {} PROVE FALSE
  <2>1. Missed \in SUBSET Nat
    OBVIOUS
  <2>2. PICK k \in Missed : \A n \in Missed : k <= n
    BY <1>1, <2>1, LeastNatural
  <2>3. k # 0 /\ k - 1 \in 0..m /\ k - 1 < m
    BY <2>2
  <2>4. k - 1 \in S
    BY <2>2, <2>3
  <2>5. (k - 1) + 1 \in S
    BY <2>3, <2>4
  <2> QED  BY <2>2, <2>5
<1> QED  BY <1>1

\* The turns of a walk are well defined: each follows from the one before.
LEMMA TurnsUnfold ==
  ASSUME NEW R
  PROVE  Turns(R) = [n \in 0..MAX_PLY |->
                       IF n = 0 THEN {Unmoved(R)} ELSE {Advance(R, w) : w \in Turns(R)[n - 1]}]
<1> DEFINE Turn(W) == {Advance(R, w) : w \in W}
           IsUpTo(f, m) == f = [n \in 0..m |-> IF n = 0 THEN {Unmoved(R)} ELSE Turn(f[n - 1])]
           Reached == {m \in 0..MAX_PLY : \E f : IsUpTo(f, m)}
<1> HIDE DEF Turn
<1>0. MAX_PLY \in Nat
  BY MaxPlyAssumption
<1>1. 0 \in Reached
  <2>1. IsUpTo([n \in 0..0 |-> {Unmoved(R)}], 0)
    OBVIOUS
  <2> HIDE DEF IsUpTo
  <2>2. \E f : IsUpTo(f, 0)
    BY <2>1
  <2> QED  BY <2>2, <1>0
<1>2. ASSUME NEW m \in 0..MAX_PLY, m < MAX_PLY, m \in Reached
      PROVE  m + 1 \in Reached
  <2>1. PICK f : IsUpTo(f, m)
    BY <1>2
  <2> DEFINE g == [n \in 0..(m + 1) |-> IF n = 0 THEN {Unmoved(R)} ELSE Turn(f[n - 1])]
  <2>2. ASSUME NEW n \in 0..m PROVE g[n] = f[n]
    <3>1. f[n] = IF n = 0 THEN {Unmoved(R)} ELSE Turn(f[n - 1])
      BY <2>1
    <3>2. n \in 0..(m + 1)
      BY <1>0
    <3> QED  BY <3>1, <3>2
  <2>3. ASSUME NEW n \in 0..(m + 1)
        PROVE  g[n] = IF n = 0 THEN {Unmoved(R)} ELSE Turn(g[n - 1])
    <3>1. CASE n = 0
      BY <3>1
    <3>2. CASE n # 0
      <4>1. n - 1 \in 0..m
        BY <3>2, <1>0
      <4>2. g[n - 1] = f[n - 1]
        BY <2>2, <4>1
      <4>3. g[n] = Turn(f[n - 1])
        BY <3>2
      <4> QED  BY <3>2, <4>2, <4>3
    <3> QED  BY <3>1, <3>2
  <2>4. IsUpTo(g, m + 1)
    <3> DEFINE h == [n \in 0..(m + 1) |-> IF n = 0 THEN {Unmoved(R)} ELSE Turn(g[n - 1])]
    <3>1. g = [n \in 0..(m + 1) |-> g[n]]
      OBVIOUS
    <3>2. [n \in 0..(m + 1) |-> g[n]] = h
      <4> HIDE DEF g
      <4> QED  BY <2>3
    <3> QED  BY <3>1, <3>2
  <2> HIDE DEF IsUpTo, g
  <2>5. \E f_1 : IsUpTo(f_1, m + 1)
    BY <2>4
  <2> QED  BY <2>5, <1>2, <1>0
<1>3. MAX_PLY \in Reached
  <2> HIDE DEF Reached
  <2> QED  BY <1>0, <1>1, <1>2, CountingUp
<1>4. \E f : IsUpTo(f, MAX_PLY)
  BY <1>3
<1>5. Turns(R) = CHOOSE f : IsUpTo(f, MAX_PLY)
  BY DEF Turns, Turn
<1>6. IsUpTo(Turns(R), MAX_PLY)
  <2> HIDE DEF IsUpTo
  <2> QED  BY <1>4, <1>5
<1> QED  BY <1>6 DEF Turn
-----------------------------------------------------------------------------
\* A walk as it is after n turns.
WalkAt(R, n) == CHOOSE w \in Turns(R)[n] : TRUE

\* A walk starts unmoved and takes MAX_PLY turns.
LEMMA WalkUnfolds ==
  ASSUME NEW R
  PROVE  /\ WalkAt(R, 0) = Unmoved(R)
         /\ \A n \in 0..MAX_PLY : n < MAX_PLY => WalkAt(R, n + 1) = Advance(R, WalkAt(R, n))
         /\ Walk(R) = WalkAt(R, MAX_PLY)
<1> DEFINE Single == {n \in 0..MAX_PLY : \E w : Turns(R)[n] = {w}}
<1>0. MAX_PLY \in Nat
  BY MaxPlyAssumption
<1>1. Turns(R)[0] = {Unmoved(R)}
  BY <1>0, TurnsUnfold
<1>2. ASSUME NEW n \in 0..MAX_PLY, n < MAX_PLY
      PROVE  Turns(R)[n + 1] = {Advance(R, w) : w \in Turns(R)[n]}
  <2>1. n + 1 \in 0..MAX_PLY /\ n + 1 # 0 /\ (n + 1) - 1 = n
    BY <1>0, <1>2
  <2> QED  BY <2>1, TurnsUnfold
<1>3. 0 \in Single
  BY <1>0, <1>1
<1>4. ASSUME NEW n \in 0..MAX_PLY, n < MAX_PLY, n \in Single PROVE n + 1 \in Single
  <2>1. PICK w : Turns(R)[n] = {w}
    BY <1>4
  <2>2. Turns(R)[n + 1] = {Advance(R, w)}
    BY <1>2, <1>4, <2>1
  <2>3. n + 1 \in 0..MAX_PLY
    BY <1>0, <1>4
  <2> QED  BY <2>2, <2>3
<1>5. \A n \in 0..MAX_PLY : n \in Single
  <2> HIDE DEF Single
  <2> QED  BY <1>0, <1>3, <1>4, CountingUp
<1>6. ASSUME NEW n \in 0..MAX_PLY, n < MAX_PLY
      PROVE  WalkAt(R, n + 1) = Advance(R, WalkAt(R, n))
  <2>1. PICK w : Turns(R)[n] = {w}
    BY <1>5
  <2>2. Turns(R)[n + 1] = {Advance(R, w)}
    BY <1>2, <1>6, <2>1
  <2>3. WalkAt(R, n) = w /\ WalkAt(R, n + 1) = Advance(R, w)
    BY <2>1, <2>2 DEF WalkAt
  <2> QED  BY <2>3
<1> QED  BY <1>1, <1>6 DEF WalkAt, Walk

\* What a walk is, whatever it has come to.
Shaped(w) ==
  /\ w \in [chain : Seq(Id), seen : Seq(Position), stops : SUBSET Nat]
  /\ Len(w.seen) = Len(w.chain) + 1

\* One turn appends the one candidate there is, and the position it leads to.
LEMMA OneTurn ==
  ASSUME NEW R \in SUBSET Record, NEW w, Shaped(w), GoesOn(R, w)
  PROVE  \E i \in Id :
           /\ Candidates(R, w) = {i}
           /\ <<PosOf(w), Statement[i].uci>> \in DOMAIN Play
           /\ Play[<<PosOf(w), Statement[i].uci>>] \in Position
           /\ Advance(R, w) = [chain |-> Append(w.chain, i),
                               seen |-> Append(w.seen, Play[<<PosOf(w), Statement[i].uci>>]),
                               stops |-> w.stops]
<1>1. Candidates(R, w) \in SUBSET Id
  BY DEF Candidates, Says, IdsOf, Record
<1>2. IsFiniteSet(Candidates(R, w))
  BY <1>1, IdAssumption, FS_Subset
<1>3. PICK i : Candidates(R, w) = {i}
  BY <1>2, FS_Singleton DEF GoesOn
<1>4. i \in Id /\ <<PosOf(w), Statement[i].uci>> \in DOMAIN Play
  BY <1>1, <1>3 DEF Candidates
<1>5. Play[<<PosOf(w), Statement[i].uci>>] \in Position
  BY <1>4, BoardAssumption
<1>6. (CHOOSE j \in Candidates(R, w) : TRUE) = i
  BY <1>3
<1>7. Advance(R, w) = [w EXCEPT !.chain = Append(@, i),
                                !.seen = Append(@, Play[<<PosOf(w), Statement[i].uci>>])]
  BY <1>6 DEF Advance
<1>8. Advance(R, w) = [chain |-> Append(w.chain, i),
                       seen |-> Append(w.seen, Play[<<PosOf(w), Statement[i].uci>>]),
                       stops |-> w.stops]
  BY <1>7 DEF Shaped
<1> QED  BY <1>3, <1>4, <1>5, <1>8

\* Every move of the chain is a record of the mover's, at its ply, after the move
\* before it, and legal there; and no double sign is at its ply or before.
LinksUp(R, w) ==
  /\ w.seen[1] = Start
  /\ \A n \in 1..Len(w.chain) :
       /\ w.chain[n] \in Says(R, MoverAt(n), "Move")
       /\ Statement[w.chain[n]].ply = n
       /\ Statement[w.chain[n]].ref = IF n = 1 THEN Genesis ELSE w.chain[n - 1]
       /\ <<w.seen[n], Statement[w.chain[n]].uci>> \in DOMAIN Play
       /\ w.seen[n + 1] = Play[<<w.seen[n], Statement[w.chain[n]].uci>>]
       /\ \A ply \in w.stops : n < ply

\* A turn keeps the shape and the links.
LEMMA TurnLinksUp ==
  ASSUME NEW R \in SUBSET Record, NEW w, Shaped(w), LinksUp(R, w), GoesOn(R, w)
  PROVE  /\ Shaped(Advance(R, w))
         /\ LinksUp(R, Advance(R, w))
         /\ Len(Advance(R, w).chain) = Len(w.chain) + 1
         /\ Advance(R, w).stops = w.stops
<1>1. PICK i \in Id :
        /\ Candidates(R, w) = {i}
        /\ <<PosOf(w), Statement[i].uci>> \in DOMAIN Play
        /\ Play[<<PosOf(w), Statement[i].uci>>] \in Position
        /\ Advance(R, w) = [chain |-> Append(w.chain, i),
                            seen |-> Append(w.seen, Play[<<PosOf(w), Statement[i].uci>>]),
                            stops |-> w.stops]
  BY OneTurn
<1> DEFINE v == Advance(R, w)
           pos == Play[<<PosOf(w), Statement[i].uci>>]
           len == Len(w.chain)
<1>2. w.chain \in Seq(Id) /\ w.seen \in Seq(Position) /\ w.stops \in SUBSET Nat
      /\ len \in Nat /\ Len(w.seen) = len + 1
  BY DEF Shaped
<1>3. v.chain = Append(w.chain, i) /\ v.seen = Append(w.seen, pos) /\ v.stops = w.stops
  BY <1>1
<1>4. v.chain \in Seq(Id) /\ v.seen \in Seq(Position)
      /\ Len(v.chain) = len + 1 /\ Len(v.seen) = len + 2
  BY <1>1, <1>2, <1>3
<1>5. Shaped(v)
  <2>1. v \in [chain : Seq(Id), seen : Seq(Position), stops : SUBSET Nat]
    BY <1>1, <1>2, <1>4
  <2> QED  BY <1>4, <2>1 DEF Shaped
<1>6. /\ \A n \in 1..len : v.chain[n] = w.chain[n]
      /\ \A n \in 1..(len + 1) : v.seen[n] = w.seen[n]
      /\ v.chain[len + 1] = i /\ v.seen[len + 2] = pos
  BY <1>1, <1>2, <1>3
<1>7. PosOf(w) = w.seen[len + 1] /\ (HeadOf(w) = IF len = 0 THEN Genesis ELSE w.chain[len])
  BY <1>2 DEF PosOf, HeadOf
<1>8. i \in Says(R, MoverAt(len + 1), "Move") /\ Statement[i].ply = len + 1
      /\ Statement[i].ref = HeadOf(w)
  BY <1>1 DEF Candidates, TurnOf
<1>9. \A ply \in w.stops : len + 1 < ply
  BY <1>2 DEF GoesOn, Stopped
<1>10. ASSUME NEW n \in 1..Len(v.chain)
       PROVE  /\ v.chain[n] \in Says(R, MoverAt(n), "Move")
              /\ Statement[v.chain[n]].ply = n
              /\ Statement[v.chain[n]].ref = IF n = 1 THEN Genesis ELSE v.chain[n - 1]
              /\ <<v.seen[n], Statement[v.chain[n]].uci>> \in DOMAIN Play
              /\ v.seen[n + 1] = Play[<<v.seen[n], Statement[v.chain[n]].uci>>]
              /\ \A ply \in v.stops : n < ply
  <2>1. CASE n \in 1..len
    <3>1. v.chain[n] = w.chain[n] /\ v.seen[n] = w.seen[n] /\ v.seen[n + 1] = w.seen[n + 1]
      BY <1>2, <1>6, <2>1
    <3>2. n # 1 => v.chain[n - 1] = w.chain[n - 1]
      BY <1>2, <1>6, <2>1
    <3> HIDE DEF v
    <3> QED  BY <1>3, <2>1, <3>1, <3>2 DEF LinksUp
  <2>2. CASE n = len + 1
    <3>1. v.chain[n] = i /\ v.seen[n] = PosOf(w) /\ v.seen[n + 1] = pos
      BY <1>2, <1>6, <1>7, <2>2
    <3>2. (IF n = 1 THEN Genesis ELSE v.chain[n - 1]) = HeadOf(w)
      BY <1>2, <1>6, <1>7, <2>2
    <3> HIDE DEF v
    <3> QED  BY <1>1, <1>3, <1>8, <1>9, <2>2, <3>1, <3>2
  <2> QED  BY <1>2, <1>4, <2>1, <2>2
<1>11. v.seen[1] = Start
  BY <1>2, <1>6 DEF LinksUp
<1>12. LinksUp(R, v)
  BY <1>10, <1>11 DEF LinksUp
<1> QED  BY <1>3, <1>4, <1>5, <1>12

\* The walk at every turn: it has gone on at every one, or goes on no more.
WalkIsFine(R, n) ==
  LET w == WalkAt(R, n) IN
  /\ Shaped(w)
  /\ LinksUp(R, w)
  /\ w.stops = DoubleSignedPlies(R)
  /\ Len(w.chain) <= n
  /\ Len(w.chain) = n \/ ~GoesOn(R, w)

\* The statements of a set of records are well formed.
LEMMA StatementsOf ==
  ASSUME NEW R \in SUBSET Record
  PROVE  /\ IdsOf(R) \in SUBSET Id
         /\ MovesIn(R) \in SUBSET Id
         /\ DoubleSigned(R) \in SUBSET Id
         /\ DoubleSignedPlies(R) \in SUBSET Nat
         /\ \A i \in Id : Statement[i] \in Statements /\ Statement[i].ply \in Nat
<1>1. \A i \in Id : Statement[i] \in Statements /\ Statement[i].ply \in Nat
  BY StatementAssumption DEF Statements
<1>2. IdsOf(R) \in SUBSET Id
  BY DEF IdsOf, Record
<1>3. MovesIn(R) \in SUBSET Id /\ DoubleSigned(R) \in SUBSET Id
  BY <1>2 DEF MovesIn, Says, DoubleSigned
<1> QED  BY <1>1, <1>2, <1>3 DEF DoubleSignedPlies

\* The walk is fine at every turn.
LEMMA WalkIsAlwaysFine ==
  ASSUME NEW R \in SUBSET Record, NEW n \in 0..MAX_PLY
  PROVE  WalkIsFine(R, n)
<1> DEFINE Fine == {m \in 0..MAX_PLY : WalkIsFine(R, m)}
<1>0. MAX_PLY \in Nat
  BY MaxPlyAssumption
<1>1. 0 \in Fine
  <2>1. WalkAt(R, 0) = [chain |-> <<>>, seen |-> <<Start>>, stops |-> DoubleSignedPlies(R)]
    BY WalkUnfolds DEF Unmoved
  <2>2. DoubleSignedPlies(R) \in SUBSET Nat /\ Start \in Position
    BY StatementsOf, BoardAssumption
  <2>3. Shaped(WalkAt(R, 0))
    <3>1. <<>> \in Seq(Id) /\ <<Start>> \in Seq(Position)
      BY <2>2
    <3>2. Len(<<Start>>) = Len(<<>>) + 1
      OBVIOUS
    <3>3. WalkAt(R, 0) \in [chain : Seq(Id), seen : Seq(Position), stops : SUBSET Nat]
      <4>1. \A c \in Seq(Id), s \in Seq(Position), p \in SUBSET Nat :
              [chain |-> c, seen |-> s, stops |-> p]
                \in [chain : Seq(Id), seen : Seq(Position), stops : SUBSET Nat]
        OBVIOUS
      <4>2. DoubleSignedPlies(R) \in SUBSET Nat
        BY <2>2
      <4>3. [chain |-> <<>>, seen |-> <<Start>>, stops |-> DoubleSignedPlies(R)]
              \in [chain : Seq(Id), seen : Seq(Position), stops : SUBSET Nat]
        <5> HIDE DEF DoubleSignedPlies
        <5> QED  BY <3>1, <4>1, <4>2
      <4> QED  BY <2>1, <4>3
    <3>4. WalkAt(R, 0).chain = <<>> /\ WalkAt(R, 0).seen = <<Start>>
      BY <2>1
    <3> QED  BY <3>2, <3>3, <3>4 DEF Shaped
  <2>4. LinksUp(R, WalkAt(R, 0)) /\ Len(WalkAt(R, 0).chain) = 0
    BY <2>1 DEF LinksUp
  <2> QED  BY <1>0, <2>1, <2>3, <2>4 DEF WalkIsFine
<1>2. ASSUME NEW m \in 0..MAX_PLY, m < MAX_PLY, m \in Fine
      PROVE  m + 1 \in Fine
  <2> DEFINE w == WalkAt(R, m)
  <2>1. Shaped(w) /\ LinksUp(R, w) /\ w.stops = DoubleSignedPlies(R)
        /\ Len(w.chain) <= m /\ (Len(w.chain) = m \/ ~GoesOn(R, w)) /\ Len(w.chain) \in Nat
    BY <1>2 DEF WalkIsFine, Shaped
  <2>2. WalkAt(R, m + 1) = Advance(R, w) /\ m + 1 \in 0..MAX_PLY
    BY <1>0, <1>2, WalkUnfolds
  <2> HIDE DEF w
  <2>3. CASE GoesOn(R, w)
    <3>1. Len(w.chain) = m
      BY <2>1, <2>3
    <3> QED  BY <2>1, <2>2, <2>3, <3>1, TurnLinksUp DEF WalkIsFine
  <2>4. CASE ~GoesOn(R, w)
    <3>1. WalkAt(R, m + 1) = w
      BY <2>2, <2>4 DEF Advance
    <3> QED  BY <2>1, <2>2, <2>4, <3>1 DEF WalkIsFine
  <2> QED  BY <2>3, <2>4
<1>3. n \in Fine
  <2> HIDE DEF Fine
  <2> QED  BY <1>0, <1>1, <1>2, CountingUp
<1> QED  BY <1>3

\* What a game shows of its walk.
LEMMA WalkOfRecords ==
  ASSUME NEW R \in SUBSET Record
  PROVE  /\ Shaped(Walk(R))
         /\ LinksUp(R, Walk(R))
         /\ Walk(R).stops = DoubleSignedPlies(R)
         /\ Len(Walk(R).chain) \in 0..MAX_PLY
         /\ Len(Walk(R).chain) = MAX_PLY \/ ~GoesOn(R, Walk(R))
<1>1. MAX_PLY \in 0..MAX_PLY
  BY MaxPlyAssumption
<1>2. WalkIsFine(R, MAX_PLY)
  BY <1>1, WalkIsAlwaysFine
<1>3. Walk(R) = WalkAt(R, MAX_PLY)
  BY WalkUnfolds
<1>4. Len(Walk(R).chain) \in Nat
  BY <1>2, <1>3 DEF WalkIsFine, Shaped
<1> QED  BY <1>2, <1>3, <1>4, MaxPlyAssumption DEF WalkIsFine

\* Two different moves of one signer at one ply are a double sign, wherever they
\* are seen together.
LEMMA TwoMovesAreADoubleSign ==
  ASSUME NEW R \in SUBSET Record, NEW i \in MovesIn(R), NEW j \in MovesIn(R), i # j,
         SameSignerAt(i, j)
  PROVE  i \in DoubleSigned(R) /\ Statement[i].ply \in DoubleSignedPlies(R)
         /\ Statement[i].signer \in Forfeiters(R)
BY DEF DoubleSigned, DoubleSignedPlies, Forfeiters

\* The walk of a set of records never stops because it has to choose: where no
\* double sign stops it, there is at most one move to go on with.
THEOREM AtMostOneCandidate ==
  ASSUME NEW R \in SUBSET Record
  PROVE  Stopped(Walk(R)) \/ Cardinality(Candidates(R, Walk(R))) <= 1
<1> DEFINE w == Walk(R)
           S == Candidates(R, w)
<1>1. w.stops = DoubleSignedPlies(R)
  BY WalkOfRecords
<1>2. S \in SUBSET Id /\ IsFiniteSet(S)
  <2>1. S \in SUBSET Id
    BY StatementsOf DEF Candidates, Says
  <2> QED  BY <2>1, IdAssumption, FS_Subset
<1>3. CASE \E i, j \in S : i # j
  <2>1. PICK i \in S, j \in S : i # j
    BY <1>3
  <2>2. i \in MovesIn(R) /\ j \in MovesIn(R) /\ SameSignerAt(i, j)
        /\ Statement[i].ply = Len(w.chain) + 1
    BY DEF Candidates, MovesIn, Says, SameSignerAt, TurnOf, MoverAt
  <2>3. Len(w.chain) + 1 \in w.stops
    BY <1>1, <2>1, <2>2, TwoMovesAreADoubleSign
  <2>4. Len(w.chain) \in Nat
    BY WalkOfRecords DEF Shaped
  <2> QED  BY <2>3, <2>4 DEF Stopped
<1>4. CASE S = {}
  BY <1>4, FS_EmptySet
<1>5. CASE \E i : S = {i}
  BY <1>5, FS_Singleton
<1> QED  BY <1>3, <1>4, <1>5
-----------------------------------------------------------------------------
\* Two walks that have come to the same.
Same(v, w) == v.chain = w.chain /\ v.seen = w.seen

\* A walk that goes on no more, though no draw forces it to stop, while another has
\* gone further on the same way.
Behind(R, v, w) ==
  /\ ~GoesOn(R, v) /\ ~AutoDraw(v)
  /\ Len(v.chain) < Len(w.chain)
  /\ \A n \in 1..Len(v.chain) : w.chain[n] = v.chain[n]
  /\ \A n \in 1..Len(v.seen) : w.seen[n] = v.seen[n]

\* Of two walks that are the same but that one has gone further, the chain of that
\* one extends the other's.
LEMMA FurtherChain ==
  ASSUME NEW R, NEW v, NEW w, Shaped(v), Shaped(w), Same(v, w) \/ Behind(R, v, w)
  PROVE  /\ Len(w.chain) >= Len(v.chain)
         /\ SubSeq(w.chain, 1, Len(v.chain)) = v.chain
<1> DEFINE s == w.chain
           t == v.chain
<1>1. s \in Seq(Id) /\ t \in Seq(Id) /\ Len(s) \in Nat /\ Len(t) \in Nat
  BY DEF Shaped
<1>2. Len(s) >= Len(t) /\ \A n \in 1..Len(t) : s[n] = t[n]
  BY <1>1 DEF Same, Behind
<1> HIDE DEF s, t
<1>3. SubSeq(s, 1, Len(t)) = t
  BY <1>1, <1>2
<1> QED  BY <1>2, <1>3 DEF s, t

\* Who has fallen behind stays behind.
LEMMA BehindStaysBehind ==
  ASSUME NEW A \in SUBSET Record, NEW B \in SUBSET Record, NEW n \in 0..MAX_PLY, n < MAX_PLY,
         Behind(A, WalkAt(A, n), WalkAt(B, n))
  PROVE  Behind(A, WalkAt(A, n + 1), WalkAt(B, n + 1))
<1> DEFINE v == WalkAt(A, n)
           w == WalkAt(B, n)
<1>1. WalkAt(A, n + 1) = v
  BY WalkUnfolds DEF Behind, Advance
<1>2. WalkAt(B, n + 1) = Advance(B, w)
  BY WalkUnfolds
<1>3. Shaped(w) /\ Shaped(v)
  BY WalkIsAlwaysFine DEF WalkIsFine
<1> HIDE DEF v, w
<1>4. CASE ~GoesOn(B, w)
  <2>1. Advance(B, w) = w
    BY <1>4 DEF Advance
  <2> QED  BY <1>1, <1>2, <2>1 DEF v, w
<1>5. CASE GoesOn(B, w)
  <2>1. PICK i \in Id :
          /\ Play[<<PosOf(w), Statement[i].uci>>] \in Position
          /\ Advance(B, w) = [chain |-> Append(w.chain, i),
                              seen |-> Append(w.seen, Play[<<PosOf(w), Statement[i].uci>>]),
                              stops |-> w.stops]
    BY <1>3, <1>5, OneTurn
  <2> DEFINE x == Advance(B, w)
             pos == Play[<<PosOf(w), Statement[i].uci>>]
  <2>2. x.chain = Append(w.chain, i) /\ x.seen = Append(w.seen, pos) /\ pos \in Position
    BY <2>1
  <2> HIDE DEF x, pos
  <2>3. /\ Len(x.chain) = Len(w.chain) + 1
        /\ \A m \in 1..Len(w.chain) : x.chain[m] = w.chain[m]
        /\ \A m \in 1..Len(w.seen) : x.seen[m] = w.seen[m]
    BY <1>3, <2>2 DEF Shaped
  <2>4. Behind(A, v, w)
    BY DEF v, w
  <2>5. Len(v.chain) \in Nat /\ Len(w.chain) \in Nat /\ Len(v.seen) \in Nat /\ Len(w.seen) \in Nat
        /\ Len(v.seen) = Len(v.chain) + 1 /\ Len(w.seen) = Len(w.chain) + 1
    BY <1>3 DEF Shaped
  <2>6. Behind(A, v, x)
    <3>1. ~GoesOn(A, v) /\ ~AutoDraw(v) /\ Len(v.chain) < Len(x.chain)
      BY <2>3, <2>4, <2>5 DEF Behind
    <3>2. ASSUME NEW m \in 1..Len(v.chain) PROVE x.chain[m] = v.chain[m]
      <4>1. m \in 1..Len(w.chain) /\ w.chain[m] = v.chain[m]
        BY <2>4, <2>5 DEF Behind
      <4> QED  BY <2>3, <4>1
    <3>3. ASSUME NEW m \in 1..Len(v.seen) PROVE x.seen[m] = v.seen[m]
      <4>1. m \in 1..Len(w.seen) /\ w.seen[m] = v.seen[m]
        BY <2>4, <2>5 DEF Behind
      <4> QED  BY <2>3, <4>1
    <3> QED  BY <3>1, <3>2, <3>3 DEF Behind
  <2> QED  BY <1>1, <1>2, <2>6 DEF x
<1> QED  BY <1>4, <1>5

\* Of two walks at the same place, what one can go on with and the other cannot
\* leaves the other behind.
LEMMA FallingBehind ==
  ASSUME NEW A \in SUBSET Record, NEW B \in SUBSET Record, NEW n \in 0..MAX_PLY, n < MAX_PLY,
         Same(WalkAt(A, n), WalkAt(B, n)), ~GoesOn(A, WalkAt(A, n)), GoesOn(B, WalkAt(B, n))
  PROVE  Behind(A, WalkAt(A, n + 1), WalkAt(B, n + 1))
<1> DEFINE v == WalkAt(A, n)
           w == WalkAt(B, n)
<1>1. WalkAt(A, n + 1) = v
  BY WalkUnfolds DEF Advance
<1>2. WalkAt(B, n + 1) = Advance(B, w)
  BY WalkUnfolds
<1>3. Shaped(w) /\ Same(v, w) /\ ~GoesOn(A, v) /\ GoesOn(B, w)
  BY WalkIsAlwaysFine DEF WalkIsFine
<1> HIDE DEF v, w
<1>4. PICK i \in Id :
        /\ Play[<<PosOf(w), Statement[i].uci>>] \in Position
        /\ Advance(B, w) = [chain |-> Append(w.chain, i),
                            seen |-> Append(w.seen, Play[<<PosOf(w), Statement[i].uci>>]),
                            stops |-> w.stops]
  BY <1>3, OneTurn
<1> DEFINE x == Advance(B, w)
           pos == Play[<<PosOf(w), Statement[i].uci>>]
<1>5. x.chain = Append(w.chain, i) /\ x.seen = Append(w.seen, pos) /\ pos \in Position
  BY <1>4
<1> HIDE DEF x, pos
<1>6. /\ Len(x.chain) = Len(w.chain) + 1
      /\ \A m \in 1..Len(w.chain) : x.chain[m] = w.chain[m]
      /\ \A m \in 1..Len(w.seen) : x.seen[m] = w.seen[m]
  BY <1>3, <1>5 DEF Shaped
<1>7. Len(w.chain) \in Nat
  BY <1>3 DEF Shaped
<1>8. ~AutoDraw(v)
  BY <1>3 DEF GoesOn, Same, AutoDraw, Repetitions, PosOf
<1>9. Behind(A, v, x)
  BY <1>3, <1>6, <1>7, <1>8 DEF Behind, Same
<1> QED  BY <1>1, <1>2, <1>9 DEF x

\* Two walks at the same place that go on with the same move come to the same.
LEMMA SameTurn ==
  ASSUME NEW A \in SUBSET Record, NEW B \in SUBSET Record, NEW n \in 0..MAX_PLY, n < MAX_PLY,
         Same(WalkAt(A, n), WalkAt(B, n)), GoesOn(A, WalkAt(A, n)), GoesOn(B, WalkAt(B, n)),
         Candidates(A, WalkAt(A, n)) = Candidates(B, WalkAt(B, n))
  PROVE  Same(WalkAt(A, n + 1), WalkAt(B, n + 1))
<1> DEFINE v == WalkAt(A, n)
           w == WalkAt(B, n)
<1>1. WalkAt(A, n + 1) = Advance(A, v) /\ WalkAt(B, n + 1) = Advance(B, w)
  BY WalkUnfolds
<1>2. Shaped(v) /\ Shaped(w) /\ Same(v, w) /\ GoesOn(A, v) /\ GoesOn(B, w)
      /\ Candidates(A, v) = Candidates(B, w)
  BY WalkIsAlwaysFine DEF WalkIsFine
<1> HIDE DEF v, w
<1>3. PICK i \in Id :
        /\ Candidates(A, v) = {i}
        /\ Advance(A, v) = [chain |-> Append(v.chain, i),
                            seen |-> Append(v.seen, Play[<<PosOf(v), Statement[i].uci>>]),
                            stops |-> v.stops]
  BY <1>2, OneTurn
<1>4. PICK j \in Id :
        /\ Candidates(B, w) = {j}
        /\ Advance(B, w) = [chain |-> Append(w.chain, j),
                            seen |-> Append(w.seen, Play[<<PosOf(w), Statement[j].uci>>]),
                            stops |-> w.stops]
  BY <1>2, OneTurn
<1>5. i = j /\ v.chain = w.chain /\ v.seen = w.seen /\ PosOf(v) = PosOf(w)
  BY <1>2, <1>3, <1>4 DEF Same, PosOf
<1>6. Same(Advance(A, v), Advance(B, w))
  BY <1>3, <1>4, <1>5 DEF Same
<1> QED  BY <1>1, <1>6 DEF v, w

\* Every walk starts at the same place.
LEMMA SameStart ==
  ASSUME NEW A, NEW B
  PROVE  Same(WalkAt(A, 0), WalkAt(B, 0))
BY WalkUnfolds DEF Same, Unmoved

\* The walks of two sets of records whose union has no double sign are one walk,
\* of which either may have gone further.
OneGoesFurther(A, B, n) ==
  \/ Same(WalkAt(A, n), WalkAt(B, n))
  \/ Behind(A, WalkAt(A, n), WalkAt(B, n))
  \/ Behind(B, WalkAt(B, n), WalkAt(A, n))

\* Walks without a double sign between them part nowhere.
LEMMA WalksDoNotPart ==
  ASSUME NEW A \in SUBSET Record, NEW B \in SUBSET Record, DoubleSigned(A \cup B) = {},
         NEW n \in 0..MAX_PLY
  PROVE  OneGoesFurther(A, B, n)
<1> DEFINE Together == {m \in 0..MAX_PLY : OneGoesFurther(A, B, m)}
<1>0. MAX_PLY \in Nat
  BY MaxPlyAssumption
<1>1. 0 \in Together
  BY <1>0, SameStart DEF OneGoesFurther
<1>2. ASSUME NEW m \in 0..MAX_PLY, m < MAX_PLY, m \in Together
      PROVE  m + 1 \in Together
  <2> DEFINE v == WalkAt(A, m)
             w == WalkAt(B, m)
  <2>0. m + 1 \in 0..MAX_PLY /\ OneGoesFurther(A, B, m)
    BY <1>0, <1>2
  <2>1. CASE Behind(A, v, w)
    BY <1>2, <2>0, <2>1, BehindStaysBehind DEF OneGoesFurther
  <2>2. CASE Behind(B, w, v)
    BY <1>2, <2>0, <2>2, BehindStaysBehind DEF OneGoesFurther
  <2>3. CASE Same(v, w) /\ GoesOn(A, v) /\ GoesOn(B, w)
    <3>1. Shaped(v) /\ Shaped(w)
      BY WalkIsAlwaysFine DEF WalkIsFine
    <3> HIDE DEF v, w
    <3>2. PICK i \in Id : Candidates(A, v) = {i}
      BY <2>3, <3>1, OneTurn
    <3>3. PICK j \in Id : Candidates(B, w) = {j}
      BY <2>3, <3>1, OneTurn
    <3>4. TurnOf(v) = TurnOf(w) /\ Len(v.chain) = Len(w.chain)
      BY <2>3 DEF Same, TurnOf
    <3>5. i \in MovesIn(A \cup B) /\ j \in MovesIn(A \cup B) /\ SameSignerAt(i, j)
      <4>1. i \in Says(A, TurnOf(v), "Move") /\ Statement[i].ply = Len(v.chain) + 1
        BY <3>2 DEF Candidates
      <4>2. j \in Says(B, TurnOf(w), "Move") /\ Statement[j].ply = Len(w.chain) + 1
        BY <3>3 DEF Candidates
      <4>3. TurnOf(v) \in {White, Black}
        BY DEF TurnOf, MoverAt
      <4> QED  BY <3>4, <4>1, <4>2, <4>3 DEF MovesIn, Says, IdsOf, SameSignerAt
    <3>6. i = j
      <4>1. A \cup B \in SUBSET Record
        OBVIOUS
      <4> QED  BY <3>5, <4>1, TwoMovesAreADoubleSign
    <3>7. Candidates(A, v) = Candidates(B, w)
      BY <3>2, <3>3, <3>6
    <3>8. Same(WalkAt(A, m + 1), WalkAt(B, m + 1))
      BY <1>2, <2>3, <3>7, SameTurn DEF v, w
    <3> QED  BY <2>0, <3>8 DEF OneGoesFurther
  <2>4. CASE Same(v, w) /\ ~GoesOn(A, v) /\ GoesOn(B, w)
    BY <1>2, <2>0, <2>4, FallingBehind DEF OneGoesFurther
  <2>5. CASE Same(v, w) /\ GoesOn(A, v) /\ ~GoesOn(B, w)
    <3>1. Same(w, v)
      BY <2>5 DEF Same
    <3> QED  BY <1>2, <2>0, <2>5, <3>1, FallingBehind DEF OneGoesFurther
  <2>6. CASE Same(v, w) /\ ~GoesOn(A, v) /\ ~GoesOn(B, w)
    <3>1. WalkAt(A, m + 1) = v /\ WalkAt(B, m + 1) = w
      BY <1>2, <2>6, WalkUnfolds DEF Advance
    <3> QED  BY <2>0, <2>6, <3>1 DEF OneGoesFurther
  <2> QED  BY <2>0, <2>1, <2>2, <2>3, <2>4, <2>5, <2>6 DEF OneGoesFurther
<1>3. n \in Together
  <2> HIDE DEF Together
  <2> QED  BY <1>0, <1>1, <1>2, CountingUp
<1> QED  BY <1>3

\* A set of records that has every move another could have gone on with, and the
\* same double signs, goes as far as that one.
LEMMA WalkKeepsUp ==
  ASSUME NEW A \in SUBSET Record, NEW B \in SUBSET Record,
         DoubleSignedPlies(A) = DoubleSignedPlies(B),
         \A i \in MovesIn(A) :
           (\A ply \in DoubleSignedPlies(A) : Statement[i].ply < ply) => i \in MovesIn(B),
         NEW n \in 0..MAX_PLY
  PROVE  Same(WalkAt(A, n), WalkAt(B, n)) \/ Behind(A, WalkAt(A, n), WalkAt(B, n))
<1> DEFINE KeepsUp(m) == Same(WalkAt(A, m), WalkAt(B, m)) \/ Behind(A, WalkAt(A, m), WalkAt(B, m))
           Together == {m \in 0..MAX_PLY : KeepsUp(m)}
<1>0. MAX_PLY \in Nat
  BY MaxPlyAssumption
<1>1. 0 \in Together
  BY <1>0, SameStart
<1>2. ASSUME NEW m \in 0..MAX_PLY, m < MAX_PLY, m \in Together
      PROVE  m + 1 \in Together
  <2> DEFINE v == WalkAt(A, m)
             w == WalkAt(B, m)
  <2>0. m + 1 \in 0..MAX_PLY /\ KeepsUp(m)
    BY <1>0, <1>2
  <2>1. CASE Behind(A, v, w)
    BY <1>2, <2>0, <2>1, BehindStaysBehind
  <2>2. CASE Same(v, w) /\ GoesOn(A, v)
    <3>1. Shaped(v) /\ Shaped(w) /\ v.stops = DoubleSignedPlies(A) /\ w.stops = DoubleSignedPlies(A)
      BY WalkIsAlwaysFine DEF WalkIsFine
    <3> HIDE DEF v, w
    <3>2. PICK i \in Id : Candidates(A, v) = {i}
      BY <2>2, <3>1, OneTurn
    <3>3. /\ TurnOf(v) = TurnOf(w) /\ Len(v.chain) = Len(w.chain) /\ PosOf(v) = PosOf(w)
          /\ HeadOf(v) = HeadOf(w) /\ AutoDraw(v) = AutoDraw(w)
      <4>1. v.chain = w.chain /\ v.seen = w.seen
        BY <2>2 DEF Same
      <4>2. PosOf(v) = PosOf(w)
        BY <4>1 DEF PosOf
      <4>3. Repetitions(v) = Repetitions(w)
        BY <4>1, <4>2 DEF Repetitions
      <4> QED  BY <4>1, <4>2, <4>3 DEF TurnOf, HeadOf, AutoDraw
    <3>4. ~Stopped(v) /\ ~AutoDraw(v)
      BY <2>2 DEF GoesOn
    <3>5. \A ply \in DoubleSignedPlies(A) : Len(v.chain) + 1 < ply
      <4>1. DoubleSignedPlies(A) \in SUBSET Nat /\ Len(v.chain) \in Nat
        BY <3>1, StatementsOf DEF Shaped
      <4> QED  BY <3>1, <3>4, <4>1 DEF Stopped
    <3>6. i \in Says(A, TurnOf(v), "Move") /\ Statement[i].ply = Len(v.chain) + 1
          /\ Statement[i].ref = HeadOf(v) /\ <<PosOf(v), Statement[i].uci>> \in DOMAIN Play
      BY <3>2 DEF Candidates
    <3>7. TurnOf(v) \in {White, Black}
      BY DEF TurnOf, MoverAt
    <3>8. i \in MovesIn(A)
      BY <3>6, <3>7 DEF MovesIn
    <3>9. i \in MovesIn(B)
      BY <3>5, <3>6, <3>8
    <3>10. i \in Candidates(B, w)
      BY <3>3, <3>6, <3>9 DEF Candidates, MovesIn, Says
    <3>11. ASSUME NEW j \in Candidates(B, w) PROVE j = i
      <4>1. j \in MovesIn(B) /\ SameSignerAt(i, j)
        BY <3>3, <3>6, <3>7, <3>11 DEF Candidates, MovesIn, Says, SameSignerAt
      <4>2. SUFFICES ASSUME i # j PROVE FALSE
        OBVIOUS
      <4>3. Statement[i].ply \in DoubleSignedPlies(A)
        BY <3>9, <4>1, <4>2, TwoMovesAreADoubleSign
      <4>4. Len(v.chain) \in Nat
        BY <3>1 DEF Shaped
      <4> QED  BY <3>5, <3>6, <4>3, <4>4
    <3>12. Candidates(B, w) = {i}
      BY <3>10, <3>11
    <3>13. ~Stopped(w)
      BY <3>1, <3>3, <3>4 DEF Stopped
    <3>14. GoesOn(B, w)
      BY <3>3, <3>4, <3>12, <3>13, FS_Singleton DEF GoesOn
    <3>15. Same(WalkAt(A, m + 1), WalkAt(B, m + 1))
      BY <1>2, <2>2, <3>2, <3>12, <3>14, SameTurn DEF v, w
    <3> QED  BY <2>0, <3>15
  <2>3. CASE Same(v, w) /\ ~GoesOn(A, v) /\ GoesOn(B, w)
    BY <1>2, <2>0, <2>3, FallingBehind
  <2>4. CASE Same(v, w) /\ ~GoesOn(A, v) /\ ~GoesOn(B, w)
    <3>1. WalkAt(A, m + 1) = v /\ WalkAt(B, m + 1) = w
      BY <1>2, <2>4, WalkUnfolds DEF Advance
    <3> QED  BY <2>0, <2>4, <3>1
  <2> QED  BY <2>0, <2>1, <2>2, <2>3, <2>4
<1>3. n \in Together
  <2> HIDE DEF Together
  <2> QED  BY <1>0, <1>1, <1>2, CountingUp
<1> QED  BY <1>3

\* Sets of records without a double sign between them show one game, one of them
\* perhaps further on.
THEOREM OneWalk ==
  ASSUME NEW A \in SUBSET Record, NEW B \in SUBSET Record, DoubleSigned(A \cup B) = {}
  PROVE  \/ Same(Walk(A), Walk(B))
         \/ Behind(A, Walk(A), Walk(B))
         \/ Behind(B, Walk(B), Walk(A))
<1>1. MAX_PLY \in 0..MAX_PLY
  BY MaxPlyAssumption
<1> QED  BY <1>1, WalksDoNotPart, WalkUnfolds DEF OneGoesFurther
-----------------------------------------------------------------------------
\* A move evicted by its group leaves a double sign behind: two smaller moves of
\* its signer at its ply are kept.
LEMMA MovesOutlast ==
  ASSUME NEW U \in SUBSET GenuineRecords, NEW i \in MovesIn(U),
         Statement[i].ply \notin DoubleSignedPlies(Canon(U))
  PROVE  i \in MovesIn(Canon(U))
<1> DEFINE I == IdsOf(U)
           J == {j \in I : Stays(I, j)}
<1>1. U \in SUBSET Record /\ I \in SUBSET Id /\ J \in SUBSET Id /\ i \in I /\ i \in Id
  BY StatementsOf DEF GenuineRecords, MovesIn, Says
<1>2. Statement[i].kind = "Move" /\ Statement[i].signer \in {White, Black}
  BY DEF MovesIn, Says
<1>3. IdsOf(Canon(U)) = J
  <2>1. ASSUME NEW j \in J PROVE j \in IdsOf(Canon(U))
    <3>1. PICK r \in U : r.id = j /\ HasLeastSig(U, r)
      BY <1>1, LeastSignature
    <3>2. r \in Canon(U)
      BY <3>1 DEF Canon
    <3> QED  BY <3>1, <3>2 DEF IdsOf
  <2>2. ASSUME NEW j \in IdsOf(Canon(U)) PROVE j \in J
    BY DEF IdsOf, Canon
  <2> QED  BY <2>1, <2>2
<1>4. \A j \in J : Statement[j].kind = "Move" /\ Statement[j].signer \in {White, Black}
                   => j \in MovesIn(Canon(U))
  BY <1>3 DEF MovesIn, Says
<1>5. SUFFICES ASSUME ~Stays(I, i) PROVE FALSE
  BY <1>1, <1>2, <1>4
<1>6. ~Stays(J, i)
  BY <1>1, <1>5, EvictedByTheKept
<1> DEFINE S == Smaller(J, i)
<1>7. IsFiniteSet(S) /\ Cardinality(S) \in Nat /\ S \subseteq J /\ Cardinality(S) >= 2
  <2>1. K(Statement[i].kind) = 2
    BY <1>2 DEF K
  <2>2. S \subseteq J
    BY DEF Smaller
  <2> QED  BY <1>1, <1>6, <2>1, <2>2, SmallerIsFinite DEF Stays
<1>8. S # {} /\ \A j : S # {j}
  <2> HIDE DEF S
  <2>1. Cardinality(S) # 0 /\ Cardinality(S) # 1
    BY <1>7
  <2> QED  BY <1>7, <2>1, FS_EmptySet, FS_Singleton
<1>9. PICK j \in S, k \in S : j # k
  <2> HIDE DEF S
  <2>1. PICK j \in S : TRUE
    BY <1>8
  <2>2. PICK k \in S : k # j
    BY <1>8, <2>1
  <2> QED  BY <2>2
<1>10. /\ Statement[j].kind = "Move" /\ Statement[k].kind = "Move"
       /\ Statement[j].signer = Statement[i].signer /\ Statement[k].signer = Statement[i].signer
       /\ Statement[j].ply = Statement[i].ply /\ Statement[k].ply = Statement[i].ply
  BY <1>2, <1>9 DEF Smaller, SameGroup
<1>11. j \in MovesIn(Canon(U)) /\ k \in MovesIn(Canon(U)) /\ SameSignerAt(j, k)
  BY <1>2, <1>4, <1>7, <1>9, <1>10 DEF SameSignerAt
<1>12. Canon(U) \in SUBSET Record
  BY <1>1 DEF Canon
<1>13. Statement[j].ply \in DoubleSignedPlies(Canon(U))
  BY <1>9, <1>11, <1>12, TwoMovesAreADoubleSign
<1> QED  BY <1>10, <1>13

\* A double sign, once stored, stays at its ply: eviction keeps two moves of every
\* group that has two.
THEOREM DoubleSignsOutlast ==
  ASSUME NEW U \in SUBSET GenuineRecords, NEW A \in SUBSET U
  PROVE  DoubleSignedPlies(A) \subseteq DoubleSignedPlies(Canon(U))
<1> SUFFICES ASSUME NEW i \in DoubleSigned(A), Statement[i].ply \notin DoubleSignedPlies(Canon(U))
             PROVE  FALSE
  BY DEF DoubleSignedPlies
<1>1. PICK j \in MovesIn(A) : j # i /\ SameSignerAt(i, j)
  BY DEF DoubleSigned
<1>2. i \in MovesIn(U) /\ j \in MovesIn(U) /\ Statement[j].ply = Statement[i].ply
  BY <1>1 DEF DoubleSigned, MovesIn, Says, IdsOf, SameSignerAt
<1>3. i \in MovesIn(Canon(U)) /\ j \in MovesIn(Canon(U))
  BY <1>2, MovesOutlast
<1>4. Canon(U) \in SUBSET Record
  BY DEF Canon, GenuineRecords
<1> QED  BY <1>1, <1>3, <1>4, TwoMovesAreADoubleSign

\* Merging takes back no move, except to uncover a double sign.
THEOREM MergedWalk ==
  ASSUME NEW U \in SUBSET GenuineRecords, NEW A \in SUBSET U,
         DoubleSignedPlies(A) = DoubleSignedPlies(Canon(U))
  PROVE  Same(Walk(A), Walk(Canon(U))) \/ Behind(A, Walk(A), Walk(Canon(U)))
<1>1. A \in SUBSET Record /\ Canon(U) \in SUBSET Record
  BY DEF Canon, GenuineRecords
<1>2. ASSUME NEW i \in MovesIn(A), \A ply \in DoubleSignedPlies(A) : Statement[i].ply < ply
      PROVE  i \in MovesIn(Canon(U))
  <2>1. i \in MovesIn(U)
    BY DEF MovesIn, Says, IdsOf
  <2>2. Statement[i].ply \in Nat
    BY <1>1, StatementsOf
  <2>3. Statement[i].ply \notin DoubleSignedPlies(A)
    BY <1>2, <2>2
  <2> QED  BY <2>1, <2>3, MovesOutlast
<1>3. MAX_PLY \in 0..MAX_PLY
  BY MaxPlyAssumption
<1> QED  BY <1>1, <1>2, <1>3, WalkKeepsUp, WalkUnfolds
=============================================================================
