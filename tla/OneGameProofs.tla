---------------------------- MODULE OneGameProofs ----------------------------
(***************************************************************************)
(* Two honest players play one game, whatever their clients and the        *)
(* network do between any two steps: what both nodes know is a game of     *)
(* chess as if at one board, and its decisions stand.                      *)
(***************************************************************************)
EXTENDS GameProofs, SequenceTheorems

\* A move that is played in a game that has come to w, or can be played next: it
\* was made where play goes on.
Placed(w, i) ==
  /\ Statement[i].ply \in 1..(Len(w.chain) + 1)
  /\ w.seen[Statement[i].ply] \notin InsufficientMaterial
  /\ Statement[i].ply = Len(w.chain) + 1 => Continues(w, i) /\ ~AutoDraw(w)

\* The move after which n moves are made.
HeadAt(w, n) == IF n = 0 THEN Genesis ELSE w.chain[n]

\* An offer or a claim that names the move it was made after.
Anchored(w, i) ==
  /\ Statement[i].ply \in 0..Len(w.chain)
  /\ Statement[i].ref = HeadAt(w, Statement[i].ply)

\* An acceptance that names the opponent's offer at its ply.
Answers(w, i) ==
  LET j == Statement[i].ref IN
  /\ j \in Id /\ Statement[j].kind = "DrawOffer"
  /\ Statement[j].signer = Opponent(Statement[i].signer)
  /\ Statement[j].ply = Statement[i].ply
  /\ Anchored(w, j)

\* Whatever is said of a game that has come to w, is said of that game.
SaidOf(w, i) ==
  /\ Statement[i].kind = "Move" => Placed(w, i)
  /\ Statement[i].kind \in {"DrawOffer", "DrawClaim"} => Anchored(w, i)
  /\ Statement[i].kind = "DrawAccept" => Answers(w, i)

\* All that is said is said of the game that both nodes know together, and all the
\* moves published are played in it.
Along == \A p \in Players : \A i \in Said(p) : SaidOf(Walk(Everything), i)
AllPlayed == \A i \in MovesIn(Everything) : Statement[i].ply <= Len(Walk(Everything).chain)

HonestInv == TypeInv /\ SignedOnce /\ SaidAtHead /\ Along /\ AllPlayed

\* What is said of a game is said of it when it has gone on.
LEMMA SaidOfFurther ==
  ASSUME NEW R, NEW v, NEW w, Shaped(v), Shaped(w), Same(v, w) \/ Behind(R, v, w),
         NEW i \in Id, SaidOf(v, i)
  PROVE  SaidOf(w, i)
<1>1. /\ Len(v.chain) \in Nat /\ Len(w.chain) \in Nat
      /\ Len(v.seen) = Len(v.chain) + 1 /\ Len(w.seen) = Len(w.chain) + 1
      /\ \A j \in Id : Statement[j].ply \in Nat
  BY StatementAssumption DEF Shaped, Statements
<1>2. Len(v.chain) <= Len(w.chain) /\ (Len(v.chain) = Len(w.chain) => Same(v, w))
  BY <1>1 DEF Same, Behind
<1>3. /\ \A n \in 1..Len(v.chain) : w.chain[n] = v.chain[n]
      /\ \A n \in 1..(Len(v.chain) + 1) : w.seen[n] = v.seen[n]
  BY <1>1 DEF Same, Behind
<1>4. ASSUME Placed(v, i) PROVE Placed(w, i)
  <2>1. CASE Same(v, w)
    BY <1>4, <2>1 DEF Placed, Same, Continues, TurnOf, HeadOf, PosOf, AutoDraw, Repetitions
  <2>2. CASE Len(v.chain) < Len(w.chain)
    BY <1>1, <1>3, <1>4, <2>2 DEF Placed
  <2> QED  BY <1>1, <1>2, <2>1, <2>2
<1>5. ASSUME NEW j \in Id, Anchored(v, j) PROVE Anchored(w, j)
  <2>1. Statement[j].ply \in 0..Len(v.chain) /\ Statement[j].ref = HeadAt(v, Statement[j].ply)
    BY <1>5 DEF Anchored
  <2>2. HeadAt(w, Statement[j].ply) = HeadAt(v, Statement[j].ply)
    BY <1>1, <1>3, <2>1 DEF HeadAt
  <2> QED  BY <1>1, <1>2, <2>1, <2>2 DEF Anchored
<1>6. ASSUME Answers(v, i) PROVE Answers(w, i)
  BY <1>5, <1>6 DEF Answers
<1> QED  BY <1>4, <1>5, <1>6 DEF SaidOf

\* Where all players are honest there is no double sign, and each node shows the
\* game that both know together, as far as it knows it.
ShowsTheGame ==
  /\ Everything \in SUBSET Record
  /\ DoubleSigned(Everything) = {} /\ DoubleSignedPlies(Everything) = {}
  /\ Shaped(Walk(Everything))
  /\ \A p \in Players :
       /\ have[p] \in SUBSET Record /\ have[p] \subseteq Everything
       /\ DoubleSignedPlies(have[p]) = {} /\ Forfeiters(have[p]) = {}
       /\ Shaped(Walk(have[p]))
       /\ \/ Same(Walk(have[p]), Walk(Everything))
          \/ Behind(have[p], Walk(have[p]), Walk(Everything))

\* So it is as long as what is out is single.
LEMMA EachShowsTheGame == Honest = Players /\ TypeInv /\ SignedOnce => ShowsTheGame
<1> SUFFICES ASSUME Honest = Players, TypeInv, SignedOnce PROVE ShowsTheGame
  OBVIOUS
<1> DEFINE E == Everything
<1>1. have \in [Players -> SUBSET GenuineRecords] /\ GenuineRecords \subseteq Record
  BY DEF TypeInv, GenuineRecords
<1>2. E \in SUBSET Record /\ \A p \in Players : have[p] \in SUBSET Record /\ have[p] \subseteq E
  BY <1>1 DEF Everything, Players
<1>3. DoubleSigned(E) = {}
  <2>1. \A i \in DoubleSigned(E) : Statement[i].signer \in Players
    BY DEF DoubleSigned, MovesIn, Says, Players
  <2>2. \A p \in Players : p \notin Forfeiters(E)
    BY SingleMeansNoForfeit
  <2> QED  BY <2>1, <2>2 DEF Forfeiters
<1>4. ASSUME NEW p \in Players
      PROVE  /\ MovesIn(have[p]) \subseteq MovesIn(E)
             /\ DoubleSigned(have[p]) = {}
  <2>1. MovesIn(have[p]) \subseteq MovesIn(E)
    BY <1>2 DEF MovesIn, Says, IdsOf
  <2> QED  BY <1>3, <2>1 DEF DoubleSigned
<1>5. ASSUME NEW R, DoubleSigned(R) = {} PROVE DoubleSignedPlies(R) = {} /\ Forfeiters(R) = {}
  BY <1>5 DEF DoubleSignedPlies, Forfeiters
<1>6. ASSUME NEW p \in Players
      PROVE  \/ Same(Walk(have[p]), Walk(E))
             \/ Behind(have[p], Walk(have[p]), Walk(E))
  <2>1. DoubleSignedPlies(have[p]) = DoubleSignedPlies(E)
    BY <1>3, <1>4, <1>5
  <2>2. MAX_PLY \in 0..MAX_PLY
    BY MaxPlyAssumption
  <2>3. have[p] \in SUBSET Record /\ MovesIn(have[p]) \subseteq MovesIn(E)
    BY <1>2, <1>4
  <2> HIDE DEF E
  <2> QED  BY <1>2, <2>1, <2>2, <2>3, WalkKeepsUp, WalkUnfolds
<1>7. Shaped(Walk(E)) /\ \A p \in Players : Shaped(Walk(have[p]))
  BY <1>2, WalkOfRecords
<1> QED  BY <1>2, <1>3, <1>4, <1>5, <1>6, <1>7 DEF ShowsTheGame

\* No two things loose are in one group: nobody says two things of one kind at one
\* ply.
LEMMA NothingCompetes ==
  ASSUME Honest = Players, HonestInv, NEW i \in Loose, NEW j \in Loose, SameGroup(i, j)
  PROVE  i = j
<1> DEFINE w == Walk(Everything)
<1>1. have \in [Players -> SUBSET GenuineRecords] /\ op \in [Client -> Ops]
  BY DEF HonestInv, TypeInv, TypeOK
<1>2. ASSUME NEW k \in Loose
      PROVE  /\ k \in Id /\ Statement[k].signer \in Players /\ k \in Said(Statement[k].signer)
             /\ Statement[k].kind = "Move" => k \in Out(Statement[k].signer)
  <2>1. CASE k \in IdsOf(Everything)
    <3>1. PICK r \in Everything : k = r.id
      BY <2>1 DEF IdsOf
    <3>2. r \in Record /\ Verify(r)
      BY <1>1, <3>1 DEF Everything, Players, GenuineRecords
    <3>3. k \in Id /\ Statement[k].signer \in Players
      BY <3>1, <3>2 DEF Record, Verify, Players
    <3> QED  BY <2>1, <3>3 DEF Said, Out
  <2>2. ASSUME NEW c \in Client, op[c].stage = "signed", k = op[c].id
        PROVE  /\ k \in Id /\ Statement[k].signer \in Players /\ k \in Said(Statement[k].signer)
               /\ Statement[k].kind = "Move" => k \in Out(Statement[k].signer)
    <3>1. op[c] # Idle
      BY <2>2 DEF Idle
    <3>2. k \in Id /\ Statement[k].signer \in Players
      BY <1>1, <2>2, <3>1, ClientAssumption DEF Ops, HonestInv, TypeInv
    <3> QED  BY <2>2, <3>1, <3>2 DEF Said, Out
  <2> QED  BY <2>1, <2>2 DEF Loose
<1>3. i \in Id /\ j \in Id /\ Statement[i] \in Statements /\ Statement[j] \in Statements
  BY <1>2, StatementAssumption
<1>4. /\ Statement[i].signer = Statement[j].signer /\ Statement[i].kind = Statement[j].kind
      /\ Statement[i].ply = Statement[j].ply /\ Statement[i].kind # "Resign"
  BY DEF SameGroup, HasPly
<1>5. SaidOf(w, i) /\ SaidOf(w, j)
  BY <1>2 DEF HonestInv, Along
<1>6. ASSUME NEW k \in Id, NEW l \in Id,
             Statement[k].signer = Statement[l].signer, Statement[k].kind = Statement[l].kind,
             Statement[k].ply = Statement[l].ply, Statement[k].kind # "Move",
             Statement[k].ref = Statement[l].ref
      PROVE  k = l
  <2>1. Statement[k] \in Statements /\ Statement[l] \in Statements
    BY StatementAssumption
  <2>2. Statement[k].uci = NoUci /\ Statement[l].uci = NoUci
    BY <1>6, <2>1, BodyAssumption DEF Statements
  <2>3. Statement[k] = Statement[l]
    BY <1>6, <2>1, <2>2 DEF Statements
  <2> QED  BY <2>3, HashAssumption
<1>7. CASE Statement[i].kind = "Move"
  BY <1>2, <1>4, <1>7 DEF HonestInv, SignedOnce
<1>8. CASE Statement[i].kind \in {"DrawOffer", "DrawClaim"}
  BY <1>3, <1>4, <1>5, <1>6, <1>8 DEF SaidOf, Anchored
<1>9. CASE Statement[i].kind = "DrawAccept"
  <2> DEFINE k == Statement[i].ref
             l == Statement[j].ref
  <2>1. Answers(w, i) /\ Answers(w, j)
    BY <1>4, <1>5, <1>9 DEF SaidOf
  <2>2. k = l
    BY <1>4, <1>6, <2>1 DEF Answers, Anchored
  <2> QED  BY <1>3, <1>4, <1>6, <1>9, <2>2
<1> QED  BY <1>3, <1>4, <1>7, <1>8, <1>9 DEF Statements, Kinds

\* Eviction takes nothing from a set of records without two in one group.
LEMMA SingleStays ==
  ASSUME NEW U \in SUBSET GenuineRecords, \A i, j \in IdsOf(U) : SameGroup(i, j) => i = j
  PROVE  IdsOf(Canon(U)) = IdsOf(U)
<1>1. U \in SUBSET Record /\ IdsOf(U) \subseteq Id
  BY StatementsOf DEF GenuineRecords
<1>2. ASSUME NEW i \in IdsOf(U) PROVE i \in IdsOf(Canon(U))
  <2>1. i \in Nat
    BY <1>1, IdAssumption
  <2>2. \A j \in IdsOf(U) : ~(SameGroup(i, j) /\ j < i)
    BY <2>1
  <2>3. Smaller(IdsOf(U), i) = {}
    BY <2>2 DEF Smaller
  <2>4. Cardinality(Smaller(IdsOf(U), i)) = 0
    BY <2>3, FS_EmptySet
  <2>5. Stays(IdsOf(U), i)
    BY <2>4 DEF Stays, K
  <2>6. PICK r \in U : r.id = i /\ HasLeastSig(U, r)
    BY <1>1, LeastSignature
  <2>7. r \in Canon(U)
    BY <2>5, <2>6 DEF Canon
  <2> QED  BY <2>6, <2>7 DEF IdsOf
<1>3. IdsOf(Canon(U)) \subseteq IdsOf(U)
  BY DEF Canon, IdsOf
<1> QED  BY <1>2, <1>3

\* Nothing that is known is forgotten: honest players say nothing that eviction could
\* choose from.
LEMMA NothingForgotten ==
  ASSUME Honest = Players, HonestInv, [Next]_vars
  PROVE  /\ \A p \in Players : IdsOf(have[p]) \subseteq IdsOf(have'[p])
         /\ IdsOf(Everything) \subseteq IdsOf(Everything')
<1>1. ASSUME NEW p \in Players PROVE IdsOf(have[p]) \subseteq IdsOf(have'[p])
  <2>1. Kept(p)
    BY NodesOnlyMerge DEF HonestInv
  <2>2. ASSUME NEW G \in SUBSET GenuineRecords,
               \A r \in G : r.id \in Loose \/ Statement[r.id].signer \notin Honest,
               have'[p] = Canon(have[p] \cup G)
        PROVE  IdsOf(have[p]) \subseteq IdsOf(have'[p])
    <3> DEFINE U == have[p] \cup G
    <3>1. U \in SUBSET GenuineRecords
      BY DEF HonestInv, TypeInv
    <3>2. \A r \in G : Statement[r.id].signer \in Players
      BY DEF GenuineRecords, Verify, Players
    <3>3. IdsOf(U) \subseteq Loose
      BY <2>2, <3>2 DEF IdsOf, Loose, Everything, Players
    <3>4. \A i, j \in IdsOf(U) : SameGroup(i, j) => i = j
      BY <3>3, NothingCompetes
    <3>5. IdsOf(Canon(U)) = IdsOf(U)
      BY <3>1, <3>4, SingleStays
    <3> QED  BY <2>2, <3>5 DEF IdsOf
  <2> QED  BY <2>1, <2>2 DEF Kept
<1>2. IdsOf(Everything) \subseteq IdsOf(Everything')
  <2>1. White \in Players /\ Black \in Players
    BY DEF Players
  <2>2. IdsOf(have[White]) \subseteq IdsOf(have'[White]) /\ IdsOf(have[Black]) \subseteq IdsOf(have'[Black])
    BY <1>1, <2>1
  <2> QED  BY <2>2 DEF Everything, IdsOf
<1> QED  BY <1>1, <1>2

\* The only step that makes anything known is publishing it.
LEMMA OnlyPublished ==
  ASSUME Honest = Players, TypeInv, [Next]_vars
  PROVE  \/ IdsOf(Everything') \subseteq IdsOf(Everything)
         \/ \E c \in Client :
              /\ op[c].stage = "signed" /\ op[c].id \in Id /\ PlayerOf[c] \in Players
              /\ Statement[op[c].id].signer = PlayerOf[c]
              /\ IdsOf(Everything') \subseteq IdsOf(Everything) \cup {op[c].id}
<1>0. op \in [Client -> Ops] /\ have \in [Players -> SUBSET GenuineRecords]
  BY DEF TypeInv, TypeOK
<1>1. ASSUME UNCHANGED have PROVE IdsOf(Everything') \subseteq IdsOf(Everything)
  BY <1>1 DEF Everything
<1>2. ASSUME NEW c \in Client, NEW i \in Id, Opens(c, i) PROVE UNCHANGED have
  BY <1>2 DEF Opens
<1>3. ASSUME NEW c \in Client, Sign(c) \/ Abandon(c) PROVE UNCHANGED have
  BY <1>3 DEF Sign, Abandon
<1>4. ASSUME NEW c \in Client, Submit(c)
      PROVE  /\ op[c].stage = "signed" /\ op[c].id \in Id /\ PlayerOf[c] \in Players
             /\ Statement[op[c].id].signer = PlayerOf[c]
             /\ IdsOf(Everything') \subseteq IdsOf(Everything) \cup {op[c].id}
  <2>1. op[c] # Idle /\ op[c].stage = "signed"
    BY <1>4 DEF Submit, Idle
  <2>2. op[c].id \in Id /\ PlayerOf[c] \in Players
    BY <1>0, <2>1, ClientAssumption DEF Ops
  <2>3. RecordOf(op[c].id) \in Record /\ RecordOf(op[c].id).id = op[c].id
    BY <2>2, OneRecordEach
  <2>4. IdsOf(Everything') \subseteq IdsOf(Everything) \cup {op[c].id}
    BY <1>0, <1>4, <2>2, <2>3, StoreStep DEF Submit
  <2> QED  BY <2>1, <2>2, <2>4 DEF TypeInv
<1>5. ASSUME NEW q \in Players, NEW r \in Record, Gossip(q, r)
      PROVE  IdsOf(Everything') \subseteq IdsOf(Everything)
  <2>1. Opponent(q) \in Players
    BY DEF Opponent, Players
  <2>2. r.id \in IdsOf(Everything)
    BY <1>5 DEF Gossip, Everything, Players, IdsOf
  <2> QED  BY <1>0, <1>5, <2>1, <2>2, StoreStep DEF Gossip
<1>6. ASSUME NEW i \in Id, Cheat(i) PROVE FALSE
  BY <1>6 DEF Cheat
<1>7. CASE UNCHANGED vars
  BY <1>1, <1>7 DEF vars
<1> QED  BY <1>1, <1>2, <1>3, <1>4, <1>5, <1>6, <1>7, AskingOpens DEF Next

\* The game that both nodes know together only goes on, as each node's does.
LEMMA TheGameGoesOn ==
  ASSUME Honest = Players, HonestInv, TypeInv', SignedOnce', [Next]_vars
  PROVE  /\ \/ Same(Walk(Everything), Walk(Everything'))
            \/ Behind(Everything, Walk(Everything), Walk(Everything'))
         /\ \A p \in Players :
              \/ Same(Walk(have[p]), Walk(have'[p]))
              \/ Behind(have[p], Walk(have[p]), Walk(have'[p]))
<1>1. /\ Everything' \in SUBSET Record
      /\ DoubleSignedPlies(Everything') = {}
      /\ \A p \in Players : have'[p] \in SUBSET Record /\ DoubleSignedPlies(have'[p]) = {}
  <2>1. (Honest = Players /\ TypeInv /\ SignedOnce => ShowsTheGame)'
    BY EachShowsTheGame, PTL
  <2> QED  BY <2>1 DEF ShowsTheGame
<1>2. /\ Everything \in SUBSET Record
      /\ DoubleSignedPlies(Everything) = {}
      /\ \A p \in Players : have[p] \in SUBSET Record /\ DoubleSignedPlies(have[p]) = {}
  BY EachShowsTheGame DEF HonestInv, ShowsTheGame
<1>3. MAX_PLY \in 0..MAX_PLY
  BY MaxPlyAssumption
<1>4. ASSUME NEW A \in SUBSET Record, NEW B \in SUBSET Record, IdsOf(A) \subseteq IdsOf(B),
             DoubleSignedPlies(A) = {}, DoubleSignedPlies(B) = {}
      PROVE  Same(Walk(A), Walk(B)) \/ Behind(A, Walk(A), Walk(B))
  <2>1. MovesIn(A) \subseteq MovesIn(B)
    BY <1>4 DEF MovesIn, Says
  <2> QED  BY <1>3, <1>4, <2>1, WalkKeepsUp, WalkUnfolds
<1> QED  BY <1>1, <1>2, <1>4, NothingForgotten

\* What a client asks to say, it says of the game as its node shows it.
LEMMA AskedOfTheGame ==
  ASSUME Honest = Players, HonestInv, NEW c \in Client, NEW i \in Id, Asks(c, i)
  PROVE  SaidOf(Walk(have[PlayerOf[c]]), i)
<1> DEFINE p == PlayerOf[c]
           R == have[p]
           w == Walk(R)
<1>0. p \in Players
  BY ClientAssumption
<1>1. R \in SUBSET Record /\ Shaped(w) /\ R \subseteq Everything
  BY <1>0, EachShowsTheGame DEF HonestInv, ShowsTheGame
<1>2. Len(w.chain) \in Nat /\ Len(w.seen) = Len(w.chain) + 1 /\ Statement[i].ply \in Nat
  BY <1>1, StatementAssumption DEF Shaped, Statements
<1>3. HeadOf(w) = HeadAt(w, Len(w.chain))
  BY <1>1, <1>2 DEF HeadOf, HeadAt, Shaped
<1>4. Opens(c, i) /\ ~IsOver(R) /\ Statement[i].signer = p
  BY <1>0, AskingOpens DEF Asks, Opens
<1>5. BoardResult(w) = {}
  BY <1>4 DEF IsOver, Decision, OrElse
<1>6. PosOf(w) \notin InsufficientMaterial /\ ~AutoDraw(w)
  BY <1>5 DEF BoardResult, OrElse, If, Verdict
<1>7. ASSUME PlayMove(c, i) PROVE Statement[i].kind = "Move" /\ Placed(w, i)
  <2>1. Continues(w, i)
    BY <1>4, <1>7 DEF PlayMove, Continues
  <2>2. Statement[i].ply = Len(w.chain) + 1
    BY <2>1 DEF Continues
  <2>3. w.seen[Statement[i].ply] = PosOf(w)
    BY <1>2, <2>2 DEF PosOf
  <2> QED  BY <1>2, <1>6, <2>1, <2>2, <2>3 DEF Placed, Continues
<1>8. ASSUME ResignGame(c, i) PROVE Statement[i].kind = "Resign"
  BY <1>8 DEF ResignGame
<1>9. ASSUME DrawOffer(c, i) \/ DrawClaim(c, i)
      PROVE  Statement[i].kind \in {"DrawOffer", "DrawClaim"} /\ Anchored(w, i)
  <2>1. /\ Statement[i].kind \in {"DrawOffer", "DrawClaim"}
        /\ Statement[i].ply = Len(w.chain) /\ Statement[i].ref = HeadOf(w)
    BY <1>9 DEF DrawOffer, DrawClaim
  <2> QED  BY <1>2, <1>3, <2>1 DEF Anchored
<1>10. ASSUME DrawAccept(c, i) PROVE Statement[i].kind = "DrawAccept" /\ Answers(w, i)
  <2> DEFINE j == Statement[i].ref
  <2>1. /\ Statement[i].kind = "DrawAccept" /\ Statement[i].ply = Len(w.chain)
        /\ j \in Says(R, Opponent(p), "DrawOffer") /\ Statement[j].ref = HeadOf(w)
    BY <1>10 DEF DrawAccept
  <2>2. j \in Id /\ j \in IdsOf(Everything)
    BY <1>1, <2>1, StatementsOf DEF Says, IdsOf
  <2>3. Statement[j].signer = Opponent(p) /\ Statement[j].kind = "DrawOffer" /\ Opponent(p) \in Players
    BY <2>1 DEF Says, Opponent, Players
  <2>4. Statement[j].ply = PlyOfHead(HeadOf(w))
    <3>1. j \in Said(Opponent(p)) /\ Opponent(p) \in Honest
      BY <2>2, <2>3 DEF Said
    <3> QED  BY <2>1, <2>3, <3>1 DEF HonestInv, SaidAtHead
  <2>5. Statement[j].ply = Len(w.chain)
    BY <1>1, <2>4, HeadTellsPly
  <2>6. Anchored(w, j)
    BY <1>2, <1>3, <2>1, <2>5 DEF Anchored
  <2> QED  BY <1>4, <2>1, <2>2, <2>3, <2>5, <2>6 DEF Answers
<1> QED  BY <1>7, <1>8, <1>9, <1>10 DEF Asks, SaidOf

\* Every step keeps what is said to the game that both nodes know together.
LEMMA NextAlong ==
  ASSUME Honest = Players, HonestInv, TypeInv', SignedOnce', [Next]_vars
  PROVE  Along'
<1> SUFFICES ASSUME NEW p \in Players, NEW i \in Said(p)' PROVE SaidOf(Walk(Everything'), i)
  BY DEF Along
<1> DEFINE v == Walk(Everything)
           w == Walk(Everything')
<1>1. Same(v, w) \/ Behind(Everything, v, w)
  BY TheGameGoesOn
<1>2. Shaped(v) /\ Shaped(w) /\ i \in Id
  <2>1. (Honest = Players /\ TypeInv /\ SignedOnce => ShowsTheGame)'
    BY EachShowsTheGame, PTL
  <2> QED  BY <2>1, EachShowsTheGame DEF HonestInv, ShowsTheGame, Said
<1>3. SaidOf(v, i)
  <2>1. CASE i \in Said(p)
    BY <2>1 DEF HonestInv, Along
  <2>2. ASSUME NEW c \in Client, PlayerOf[c] = p, Asks(c, i) PROVE SaidOf(v, i)
    <3>1. SaidOf(Walk(have[p]), i)
      BY <1>2, <2>2, AskedOfTheGame
    <3>2. Shaped(Walk(have[p])) /\ (Same(Walk(have[p]), v) \/ Behind(have[p], Walk(have[p]), v))
      BY EachShowsTheGame DEF HonestInv, ShowsTheGame
    <3> QED  BY <1>2, <3>1, <3>2, SaidOfFurther
  <2> QED  BY <2>1, <2>2, OnlyAsked DEF HonestInv
<1> QED  BY <1>1, <1>2, <1>3, SaidOfFurther

\* Every step keeps the moves published in the game.
LEMMA NextAllPlayed ==
  ASSUME Honest = Players, HonestInv, TypeInv', SignedOnce', [Next]_vars
  PROVE  AllPlayed'
<1> DEFINE E == Everything
           F == Everything'
           v == Walk(E)
           w == Walk(F)
<1>1. Same(v, w) \/ Behind(E, v, w)
  BY TheGameGoesOn
<1>2. F \in SUBSET Record /\ DoubleSignedPlies(F) = {} /\ Shaped(v) /\ Shaped(w)
  <2>1. (Honest = Players /\ TypeInv /\ SignedOnce => ShowsTheGame)'
    BY EachShowsTheGame, PTL
  <2> QED  BY <2>1, EachShowsTheGame DEF HonestInv, ShowsTheGame
<1>3. Len(v.chain) \in Nat /\ Len(w.chain) \in Nat /\ Len(v.chain) <= Len(w.chain)
      /\ (Len(v.chain) = Len(w.chain) => Same(v, w))
  BY <1>1, <1>2 DEF Same, Behind, Shaped
<1>4. SUFFICES ASSUME NEW i \in MovesIn(F) PROVE Statement[i].ply <= Len(w.chain)
  BY DEF AllPlayed
<1>5. i \in Id /\ i \in IdsOf(F) /\ Statement[i].kind = "Move" /\ Statement[i].ply \in Nat
  BY <1>2, StatementsOf DEF MovesIn, Says
<1>6. CASE i \in MovesIn(E)
  BY <1>3, <1>5, <1>6 DEF HonestInv, AllPlayed
<1>7. ASSUME NEW c \in Client, op[c].stage = "signed", op[c].id = i, PlayerOf[c] \in Players,
             Statement[i].signer = PlayerOf[c]
      PROVE  Statement[i].ply <= Len(w.chain)
  <2>1. i \in Said(PlayerOf[c])
    BY <1>5, <1>7 DEF Said, Idle
  <2>2. Placed(v, i)
    BY <1>5, <1>7, <2>1 DEF HonestInv, Along, SaidOf
  <2>3. CASE Statement[i].ply <= Len(v.chain)
    BY <1>3, <1>5, <2>3
  <2>4. CASE ~(Statement[i].ply <= Len(v.chain))
    <3>1. Statement[i].ply = Len(v.chain) + 1 /\ Continues(v, i) /\ ~AutoDraw(v)
      BY <1>3, <1>5, <2>2, <2>4 DEF Placed
    <3>2. SUFFICES ASSUME Len(w.chain) = Len(v.chain) PROVE FALSE
      BY <1>3, <3>1
    <3>3. v.chain = w.chain /\ v.seen = w.seen
      BY <1>3, <3>2 DEF Same
    <3>4. Continues(w, i) /\ ~AutoDraw(w)
      BY <3>1, <3>3 DEF Continues, TurnOf, HeadOf, PosOf, AutoDraw, Repetitions
    <3>5. Statement[i].ply <= MAX_PLY
      <4>1. \A r \in F : Verify(r)
        BY DEF TypeInv, Everything, Players, GenuineRecords
      <4> QED  BY <1>5, <4>1 DEF IdsOf, Verify, HasPly
    <3> HIDE DEF F, v, w
    <3>6. w.stops = DoubleSignedPlies(F) /\ Len(w.chain) \in 0..MAX_PLY
          /\ (Len(w.chain) = MAX_PLY \/ ~GoesOn(F, w))
          /\ (Stopped(w) \/ Cardinality(Candidates(F, w)) <= 1)
      BY <1>2, WalkOfRecords, AtMostOneCandidate DEF w
    <3>7. ~GoesOn(F, w)
      BY <1>3, <1>5, <3>1, <3>2, <3>5, <3>6, MaxPlyAssumption
    <3>8. ~Stopped(w)
      BY <1>2, <3>6 DEF Stopped
    <3>9. i \in Candidates(F, w)
      BY <1>5, <3>4 DEF Continues, Candidates, Says
    <3>10. Candidates(F, w) \in SUBSET Id
      BY <1>2, StatementsOf DEF Candidates, Says
    <3>11. IsFiniteSet(Candidates(F, w))
      BY <3>10, IdAssumption, FS_Subset
    <3>12. Cardinality(Candidates(F, w)) \in Nat /\ Cardinality(Candidates(F, w)) # 0
      BY <3>9, <3>11, FS_CardinalityType, FS_EmptySet
    <3>13. Cardinality(Candidates(F, w)) = 1
      BY <3>6, <3>8, <3>12
    <3> QED  BY <3>4, <3>7, <3>8, <3>13 DEF GoesOn
  <2> QED  BY <2>3, <2>4
<1>8. i \in IdsOf(E) => i \in MovesIn(E)
  BY DEF MovesIn, Says
<1> QED  BY <1>5, <1>6, <1>7, <1>8, OnlyPublished DEF HonestInv
-----------------------------------------------------------------------------
\* What the steps keep, together.
LEMMA HonestInvariant == ASSUME Honest = Players PROVE Spec => []HonestInv
<1>1. Init => HonestInv
  <2> SUFFICES ASSUME Init PROVE HonestInv
    OBVIOUS
  <2>1. TypeInv /\ SignedOnce
    BY InitTypeInv, InitSignedOnce
  <2>2. SaidAtHead /\ Along
    BY NothingSaid DEF SaidAtHead, Along
  <2>3. AllPlayed
    BY DEF Init, AllPlayed, Everything, Players, Empty, MovesIn, Says, IdsOf
  <2> QED  BY <2>1, <2>2, <2>3 DEF HonestInv
<1>2. HonestInv /\ [Next]_vars => HonestInv'
  <2> SUFFICES ASSUME HonestInv, [Next]_vars PROVE HonestInv'
    OBVIOUS
  <2>1. TypeInv' /\ SignedOnce' /\ SaidAtHead'
    BY NextTypeInv, NextSignedOnce, NextSaidAtHead DEF HonestInv
  <2>2. Along' /\ AllPlayed'
    BY <2>1, NextAlong, NextAllPlayed
  <2> QED  BY <2>1, <2>2 DEF HonestInv
<1> QED  BY <1>1, <1>2, PTL DEF Spec

\* The rank of a decision without a forfeit.
LEMMA RankIs ==
  ASSUME NEW R, Forfeiters(R) = {}
  PROVE  LET w == Walk(R) IN
         Rank(R) = IF Resigned(R) = Players THEN 5
                   ELSE IF Resigned(R) # {} THEN 4
                   ELSE IF BoardResult(w) # {} THEN 3
                   ELSE IF DrawClaimed(R, w) # {} THEN 2
                   ELSE IF DrawAgreed(R, w) # {} THEN 1 ELSE 0
<1> DEFINE w == Walk(R)
           reasons == {d.reason : d \in Decision(R)}
<1>0. Players # {} /\ Forfeit(R) = {}
  BY DEF Players, Forfeit, If
<1>1. \A winner, reason : {d.reason : d \in Verdict(winner, reason)} = {reason}
  BY DEF Verdict
<1>2. Rank(R) = IF reasons = {} THEN 0
                ELSE IF reasons \subseteq {"DrawAgreement"} THEN 1
                ELSE IF reasons \subseteq {"ThreefoldClaim", "FiftyMoveClaim"} THEN 2
                ELSE IF reasons \subseteq {"Resignation"} THEN 4
                ELSE IF reasons \subseteq {"MutualResignation"} THEN 5
                ELSE IF reasons \subseteq {"DoubleSignForfeit"} THEN 6
                ELSE 3
  BY DEF Rank
<1>3. CASE Resigned(R) # {}
  <2> DEFINE reason == IF Resigned(R) = Players THEN "MutualResignation" ELSE "Resignation"
  <2>1. Decision(R) = Verdict(WinnerAgainst(Resigned(R)), reason)
    BY <1>0, <1>3 DEF Decision, OrElse, Resignation, If, Verdict
  <2>2. reasons = {reason}
    BY <1>1, <2>1
  <2> HIDE DEF reasons
  <2> QED  BY <1>0, <1>2, <1>3, <2>2
<1>4. CASE Resigned(R) = {} /\ BoardResult(w) # {}
  <2>1. Decision(R) = BoardResult(w)
    BY <1>0, <1>4 DEF Decision, OrElse, Resignation, If
  <2>2. PICK reason \in {"Checkmate", "Stalemate", "InsufficientMaterial", "AutomaticDraw"} :
          \E winner : BoardResult(w) = Verdict(winner, reason)
    BY <1>4 DEF BoardResult, OrElse, If
  <2>3. reasons = {reason}
    <3>1. PICK winner : BoardResult(w) = Verdict(winner, reason)
      BY <2>2
    <3> QED  BY <1>1, <2>1, <3>1
  <2> HIDE DEF reasons
  <2> QED  BY <1>0, <1>2, <1>4, <2>3
<1>5. CASE Resigned(R) = {} /\ BoardResult(w) = {} /\ DrawClaimed(R, w) # {}
  <2>1. Decision(R) = DrawClaimed(R, w)
    BY <1>0, <1>5 DEF Decision, OrElse, Resignation, If
  <2>2. PICK reason \in {"ThreefoldClaim", "FiftyMoveClaim"} : DrawClaimed(R, w) = Verdict(Nobody, reason)
    BY <1>5 DEF DrawClaimed, OrElse, If
  <2>3. reasons = {reason}
    BY <1>1, <2>1, <2>2
  <2> HIDE DEF reasons
  <2> QED  BY <1>0, <1>2, <1>5, <2>3
<1>6. CASE Resigned(R) = {} /\ BoardResult(w) = {} /\ DrawClaimed(R, w) = {} /\ DrawAgreed(R, w) # {}
  <2>1. Decision(R) = DrawAgreed(R, w)
    BY <1>0, <1>6 DEF Decision, OrElse, Resignation, If
  <2>2. DrawAgreed(R, w) = Verdict(Nobody, "DrawAgreement")
    BY <1>6 DEF DrawAgreed, If
  <2>3. reasons = {"DrawAgreement"}
    BY <1>1, <2>1, <2>2
  <2> HIDE DEF reasons
  <2> QED  BY <1>0, <1>2, <1>6, <2>3
<1>7. CASE Resigned(R) = {} /\ BoardResult(w) = {} /\ DrawClaimed(R, w) = {} /\ DrawAgreed(R, w) = {}
  <2>1. Decision(R) = {}
    BY <1>0, <1>7 DEF Decision, OrElse, Resignation, If
  <2>2. reasons = {}
    BY <2>1
  <2> HIDE DEF reasons
  <2> QED  BY <1>0, <1>2, <1>7, <2>2
<1> HIDE DEF reasons
<1> QED  BY <1>3, <1>4, <1>5, <1>6, <1>7

\* The board has nothing to say where a game went on.
LEMMA NoResultGoneBy ==
  ASSUME NEW A \in SUBSET Record, NEW B \in SUBSET Record,
         Behind(A, Walk(A), Walk(B)), PosOf(Walk(A)) \notin InsufficientMaterial
  PROVE  BoardResult(Walk(A)) = {}
<1> DEFINE v == Walk(A)
           w == Walk(B)
           n == Len(v.chain) + 1
<1>1. Shaped(v) /\ Shaped(w) /\ LinksUp(B, w)
  BY WalkOfRecords
<1>2. Behind(A, v, w) /\ PosOf(v) \notin InsufficientMaterial
  OBVIOUS
<1> HIDE DEF v, w
<1>3. n \in 1..Len(w.chain) /\ Len(v.seen) = n /\ n \in 1..Len(v.seen)
  BY <1>1, <1>2 DEF Shaped, Behind
<1>4. w.seen[n] = PosOf(v)
  BY <1>2, <1>3 DEF Behind, PosOf
<1>5. <<w.seen[n], Statement[w.chain[n]].uci>> \in DOMAIN Play
  BY <1>1, <1>3 DEF LinksUp
<1>6. PosOf(v) \notin Checkmate \cup Stalemate
  BY <1>4, <1>5, BoardAssumption
<1>7. BoardResult(v) = {}
  BY <1>2, <1>6 DEF Behind, BoardResult, OrElse, If
<1> QED  BY <1>7 DEF v

\* Between honest players a decided game stays decided and yields only to a stronger
\* reason, unless a move was made after the draw was agreed or claimed: resignations
\* and claims are never evicted, and nothing follows a result on the board.
THEOREM DecisionsAreKept == ASSUME Honest = Players PROVE Spec => DecisionsStand
<1>1. HonestInv /\ HonestInv' /\ [Next]_vars => DecisionsHold
  <2> SUFFICES ASSUME HonestInv, HonestInv', [Next]_vars, NEW p \in Players
               PROVE  \/ Rank(have'[p]) >= Rank(have[p])
                      \/ Rank(have[p]) <= 2 /\ Len(Chain(have'[p])) > Len(Chain(have[p]))
    BY DEF DecisionsHold
  <2> DEFINE A == have[p]
             B == have'[p]
             v == Walk(A)
             w == Walk(B)
  <2>1. /\ A \in SUBSET Record /\ Forfeiters(A) = {} /\ Shaped(v)
        /\ B \in SUBSET Record /\ Forfeiters(B) = {} /\ Shaped(w)
        /\ Everything' \in SUBSET Record /\ Shaped(Walk(Everything'))
        /\ Same(w, Walk(Everything')) \/ Behind(B, w, Walk(Everything'))
    <3>1. (Honest = Players /\ TypeInv /\ SignedOnce => ShowsTheGame)'
      BY EachShowsTheGame, PTL
    <3> QED  BY <3>1, EachShowsTheGame DEF HonestInv, ShowsTheGame
  <2>2. Same(v, w) \/ Behind(A, v, w)
    BY TheGameGoesOn DEF HonestInv
  <2>3. IdsOf(A) \subseteq IdsOf(B)
    BY NothingForgotten
  <2>4. Resigned(A) \subseteq Resigned(B) /\ Resigned(B) \subseteq Players
    BY <2>3 DEF Resigned, Says
  <2>5. /\ Rank(A) = IF Resigned(A) = Players THEN 5 ELSE IF Resigned(A) # {} THEN 4
                     ELSE IF BoardResult(v) # {} THEN 3 ELSE IF DrawClaimed(A, v) # {} THEN 2
                     ELSE IF DrawAgreed(A, v) # {} THEN 1 ELSE 0
        /\ Rank(B) = IF Resigned(B) = Players THEN 5 ELSE IF Resigned(B) # {} THEN 4
                     ELSE IF BoardResult(w) # {} THEN 3 ELSE IF DrawClaimed(B, w) # {} THEN 2
                     ELSE IF DrawAgreed(B, w) # {} THEN 1 ELSE 0
    BY <2>1, RankIs
  <2>6. CASE Same(v, w)
    <3>1. v.chain = w.chain /\ v.seen = w.seen /\ PosOf(v) = PosOf(w) /\ HeadOf(v) = HeadOf(w)
          /\ TurnOf(v) = TurnOf(w)
      BY <2>6 DEF Same, PosOf, HeadOf, TurnOf
    <3>2. Repetitions(v) = Repetitions(w) /\ (AutoDraw(v) <=> AutoDraw(w))
      BY <3>1 DEF Repetitions, AutoDraw
    <3>3. BoardResult(v) = BoardResult(w)
      BY <3>1, <3>2 DEF BoardResult, If
    <3>4. DrawClaimed(A, v) # {} => DrawClaimed(B, w) # {}
      BY <2>3, <3>1, <3>2 DEF DrawClaimed, If, Says
    <3>5. DrawAgreed(A, v) # {} => DrawAgreed(B, w) # {}
      <4>1. SUFFICES ASSUME DrawAgreed(A, v) # {} PROVE DrawAgreed(B, w) # {}
        OBVIOUS
      <4>2. PICK a \in Players : \E i \in Says(A, a, "DrawAccept") : \E j \in Says(A, Opponent(a), "DrawOffer") :
              Statement[i].ref = j /\ Statement[j].ref = HeadOf(v)
        BY <4>1 DEF DrawAgreed, If
      <4>3. \A q, kind : Says(A, q, kind) \subseteq Says(B, q, kind)
        BY <2>3 DEF Says
      <4>4. \E i \in Says(B, a, "DrawAccept") : \E j \in Says(B, Opponent(a), "DrawOffer") :
              Statement[i].ref = j /\ Statement[j].ref = HeadOf(w)
        BY <3>1, <4>2, <4>3
      <4> QED  BY <4>4 DEF DrawAgreed, If, Verdict
    <3>6. Rank(B) >= Rank(A)
      <4> HIDE DEF A, B, v, w
      <4> QED  BY <2>4, <2>5, <3>3, <3>4, <3>5
    <3> QED  BY <3>6
  <2>7. CASE Behind(A, v, w)
    <3>1. Len(w.chain) > Len(v.chain)
      BY <2>1, <2>7 DEF Behind, Shaped
    <3>2. PosOf(v) \notin InsufficientMaterial
      <4> DEFINE u == Walk(Everything')
                 n == Len(v.chain) + 1
      <4>1. LinksUp(B, w) /\ n \in 1..Len(w.chain) /\ Len(v.seen) = n /\ n \in 1..Len(v.seen)
        BY <2>1, <2>7, WalkOfRecords DEF Behind, Shaped
      <4>2. /\ w.chain[n] \in Says(B, MoverAt(n), "Move") /\ Statement[w.chain[n]].ply = n
        BY <4>1 DEF LinksUp
      <4>3. IdsOf(B) \subseteq IdsOf(Everything') /\ MoverAt(n) \in Players
        BY DEF IdsOf, Everything, Players, MoverAt
      <4>4. w.chain[n] \in Id
        BY <2>1, <4>2, StatementsOf DEF Says
      <4>5. ASSUME NEW q \in Players, NEW i \in Id, q = MoverAt(n), i = w.chain[n]
            PROVE  Placed(u, i)
        <5>1. i \in Said(q)'
          BY <4>2, <4>3, <4>5 DEF Says, Said
        <5> QED  BY <4>2, <4>5, <5>1 DEF HonestInv, Along, SaidOf, Says
      <4>6. Placed(u, w.chain[n])
        BY <4>3, <4>4, <4>5
      <4>7. u.seen[n] \notin InsufficientMaterial
        BY <4>2, <4>6 DEF Placed
      <4>8. w.seen[n] = u.seen[n] /\ v.seen[n] = w.seen[n]
        <5>1. n \in 1..Len(w.seen)
          BY <2>1, <4>1 DEF Shaped
        <5> HIDE DEF u, v, w, n
        <5> QED  BY <2>1, <2>7, <4>1, <5>1 DEF Same, Behind, u
      <4> QED  BY <4>1, <4>7, <4>8 DEF PosOf
    <3>3. BoardResult(v) = {}
      BY <2>1, <2>7, <3>2, NoResultGoneBy
    <3>4. CASE Resigned(A) # {}
      <4>1. Rank(B) >= Rank(A)
        <5> HIDE DEF A, B, v, w
        <5> QED  BY <2>4, <2>5, <3>4
      <4> QED  BY <4>1
    <3>5. CASE Resigned(A) = {}
      <4>1. Players # {}
        BY DEF Players
      <4>2. Rank(A) <= 2
        <5> HIDE DEF A, B, v, w
        <5> QED  BY <2>5, <3>3, <3>5, <4>1
      <4> QED  BY <3>1, <4>2 DEF Chain
    <3> QED  BY <3>4, <3>5
  <2> QED  BY <2>2, <2>6, <2>7
<1>2. Spec => []HonestInv
  BY HonestInvariant
<1> QED  BY <1>1, <1>2, PTL DEF Spec, DecisionsStand
-----------------------------------------------------------------------------
\* The moves of a chain, as the abstract game has them.
Told(chain) == [n \in 1..Len(chain) |-> [by |-> Statement[chain[n]].signer,
                                         uci |-> Statement[chain[n]].uci]]

\* They are the moves a set of records shows.
LEMMA MovesAreTold == ASSUME NEW R PROVE MovesOf(R) = Told(Chain(R))
BY DEF MovesOf, Told

\* One move more is told as one move more.
LEMMA ToldOneMore ==
  ASSUME NEW s \in Seq(Id), NEW t \in Seq(Id), Len(t) = Len(s) + 1,
         \A n \in 1..Len(s) : t[n] = s[n]
  PROVE  Told(t) = Append(Told(s), [by |-> Statement[t[Len(t)]].signer,
                                    uci |-> Statement[t[Len(t)]].uci])
<1> DEFINE Told1(i) == [by |-> Statement[i].signer, uci |-> Statement[i].uci]
           x == Told1(t[Len(t)])
           len == Len(s)
           M == {Told1(i) : i \in Id}
<1>1. len \in Nat /\ Len(t) = len + 1
  OBVIOUS
<1>2. Told(s) = [n \in 1..len |-> Told1(s[n])] /\ Told(t) = [n \in 1..(len + 1) |-> Told1(t[n])]
  BY <1>1 DEF Told
<1> HIDE DEF Told1, x
<1>3. Told(s) \in Seq(M) /\ Len(Told(s)) = len
  <2>1. \A n \in 1..len : Told1(s[n]) \in M
    BY <1>1
  <2> HIDE DEF M
  <2> QED  BY <1>1, <1>2, <2>1
<1>4. Told(t) \in Seq(M) /\ Len(Told(t)) = len + 1
  <2>1. \A n \in 1..(len + 1) : Told1(t[n]) \in M
    BY <1>1
  <2> HIDE DEF M
  <2> QED  BY <1>1, <1>2, <2>1
<1>5. x \in M /\ x = Told1(t[len + 1])
  BY <1>1 DEF x
<1> HIDE DEF M
<1>6. Append(Told(s), x) \in Seq(M) /\ Len(Append(Told(s), x)) = len + 1
  BY <1>1, <1>3, <1>5
<1>7. ASSUME NEW n \in 1..(len + 1) PROVE Told(t)[n] = Append(Told(s), x)[n]
  <2>1. CASE n \in 1..len
    BY <1>1, <1>2, <1>3, <1>5, <2>1
  <2>2. CASE n = len + 1
    BY <1>1, <1>2, <1>3, <1>5, <2>2
  <2>3. n \in 1..len \/ n = len + 1
    BY <1>1
  <2> QED  BY <2>1, <2>2, <2>3
<1>8. Told(t) = Append(Told(s), x)
  BY <1>1, <1>4, <1>6, <1>7, SeqEqual
<1> QED  BY <1>8 DEF x, Told1

\* One step of the game that both nodes know together: nobody sees it, a move is
\* made, or somebody resigns.
LEMMA OneStep ==
  ASSUME Honest = Players, HonestInv, HonestInv', [Next]_vars
  PROVE  LET v == Walk(Everything)  w == Walk(Everything') IN
         \/ Same(v, w) /\ Resigned(Everything') = Resigned(Everything)
         \/ Same(v, w) /\ \E q \in Players : Resigned(Everything') = Resigned(Everything) \cup {q}
         \/ /\ Behind(Everything, v, w) /\ Len(w.chain) = Len(v.chain) + 1
            /\ Resigned(Everything') = Resigned(Everything)
<1> DEFINE E == Everything
           F == Everything'
           v == Walk(E)
           w == Walk(F)
<1>1. Same(v, w) \/ Behind(E, v, w)
  BY TheGameGoesOn DEF HonestInv
<1>2. /\ E \in SUBSET Record /\ Shaped(v) /\ DoubleSignedPlies(E) = {}
      /\ F \in SUBSET Record /\ Shaped(w) /\ DoubleSignedPlies(F) = {}
  <2>1. (Honest = Players /\ TypeInv /\ SignedOnce => ShowsTheGame)'
    BY EachShowsTheGame, PTL
  <2> QED  BY <2>1, EachShowsTheGame DEF HonestInv, ShowsTheGame
<1>3. IdsOf(E) \subseteq IdsOf(F)
  BY NothingForgotten
<1>4. Len(v.chain) \in Nat /\ Len(w.chain) \in Nat
  BY <1>2 DEF Shaped
<1>5. \A n \in 1..Len(w.chain) : w.chain[n] \in MovesIn(F) /\ Statement[w.chain[n]].ply = n
  <2>1. LinksUp(F, w)
    BY <1>2, WalkOfRecords
  <2>2. ASSUME NEW n \in 1..Len(w.chain)
        PROVE  w.chain[n] \in MovesIn(F) /\ Statement[w.chain[n]].ply = n
    <3>1. MoverAt(n) \in {White, Black}
      BY DEF MoverAt
    <3>2. w.chain[n] \in Says(F, MoverAt(n), "Move") /\ Statement[w.chain[n]].ply = n
      BY <2>1 DEF LinksUp
    <3> QED  BY <3>1, <3>2 DEF MovesIn
  <2> QED  BY <2>2
<1>6. \A i \in MovesIn(E) : Statement[i].ply <= Len(v.chain)
  BY DEF HonestInv, AllPlayed
<1>7. ASSUME Behind(E, v, w), NEW j \in Id, IdsOf(F) \subseteq IdsOf(E) \cup {j}
      PROVE  Statement[j].kind = "Move" /\ Len(w.chain) = Len(v.chain) + 1
  <2> HIDE DEF E, F, v, w
  <2>1. Len(v.chain) < Len(w.chain)
    BY <1>7 DEF Behind
  <2>2. ASSUME NEW n \in 1..Len(w.chain), n > Len(v.chain)
        PROVE  w.chain[n] = j /\ n = Statement[j].ply /\ Statement[j].kind = "Move"
    <3>1. w.chain[n] \in MovesIn(F) /\ Statement[w.chain[n]].ply = n
      BY <1>5
    <3>2. w.chain[n] \notin MovesIn(E)
      BY <1>4, <1>6, <2>2, <3>1
    <3> QED  BY <1>7, <3>1, <3>2 DEF MovesIn, Says
  <2>3. Len(v.chain) + 1 \in 1..Len(w.chain) /\ Len(w.chain) \in 1..Len(w.chain)
    BY <1>4, <2>1
  <2>4. Len(v.chain) + 1 > Len(v.chain) /\ Len(w.chain) > Len(v.chain)
    BY <1>4, <2>1
  <2>5. Len(v.chain) + 1 = Statement[j].ply /\ Len(w.chain) = Statement[j].ply /\ Statement[j].kind = "Move"
    BY <2>2, <2>3, <2>4
  <2> QED  BY <2>5
<1>8. ASSUME NEW I, NEW J, NEW j \in Id, I = IdsOf(E), J = IdsOf(F), I \subseteq J, J \subseteq I \cup {j},
             Statement[j].signer \in Players
      PROVE  \/ Resigned(F) = Resigned(E)
             \/ Statement[j].kind = "Resign" /\ Resigned(F) = Resigned(E) \cup {Statement[j].signer}
  BY <1>8 DEF Resigned, Says
<1>9. CASE IdsOf(F) \subseteq IdsOf(E)
  <2>1. IdsOf(F) = IdsOf(E)
    BY <1>3, <1>9
  <2>2. Resigned(F) = Resigned(E)
    BY <2>1 DEF Resigned, Says
  <2>3. ~Behind(E, v, w)
    <3>1. SUFFICES ASSUME Behind(E, v, w) PROVE FALSE
      OBVIOUS
    <3>2. Len(w.chain) \in 1..Len(w.chain) /\ Len(w.chain) > Len(v.chain)
      BY <1>4, <3>1 DEF Behind
    <3>3. w.chain[Len(w.chain)] \in MovesIn(E) /\ Statement[w.chain[Len(w.chain)]].ply = Len(w.chain)
      BY <1>5, <2>1, <3>2 DEF MovesIn, Says
    <3>4. Len(w.chain) <= Len(v.chain)
      BY <1>6, <3>3
    <3> QED  BY <1>4, <3>2, <3>4
  <2> QED  BY <1>1, <2>2, <2>3
<1>10. ASSUME NEW j \in Id, Statement[j].signer \in Players, IdsOf(F) \subseteq IdsOf(E) \cup {j}
       PROVE  \/ Same(v, w) /\ Resigned(F) = Resigned(E)
              \/ Same(v, w) /\ \E q \in Players : Resigned(F) = Resigned(E) \cup {q}
              \/ /\ Behind(E, v, w) /\ Len(w.chain) = Len(v.chain) + 1
                 /\ Resigned(F) = Resigned(E)
  <2>1. \/ Resigned(F) = Resigned(E)
        \/ Statement[j].kind = "Resign" /\ Resigned(F) = Resigned(E) \cup {Statement[j].signer}
    BY <1>3, <1>8, <1>10
  <2>2. CASE Same(v, w)
    BY <1>10, <2>1, <2>2
  <2>3. CASE Behind(E, v, w)
    BY <1>7, <1>10, <2>1, <2>3
  <2> QED  BY <1>1, <2>2, <2>3
<1>11. ASSUME NEW c \in Client, op[c].id \in Id, PlayerOf[c] \in Players,
              Statement[op[c].id].signer = PlayerOf[c], IdsOf(F) \subseteq IdsOf(E) \cup {op[c].id}
       PROVE  \E j \in Id : Statement[j].signer \in Players /\ IdsOf(F) \subseteq IdsOf(E) \cup {j}
  BY <1>11
<1> QED  BY <1>9, <1>10, <1>11, OnlyPublished DEF HonestInv

\* What both nodes know is one game, played as if at one board: between honest
\* players every step of the nodes, the delegates and the clients is a legal move, a
\* resignation, or seen by nobody.
THEOREM OneGameIsPlayed == ASSUME Honest = Players PROVE Spec => ImplementsOneGame
<1>1. Init => Board!Init
  <2> SUFFICES ASSUME Init PROVE Board!Init
    OBVIOUS
  <2> DEFINE E == Everything
             w == Walk(E)
  <2>1. IdsOf(E) = {} /\ E \in SUBSET Record
    BY DEF Init, Everything, Players, Empty, IdsOf
  <2>2. Resigned(E) = {}
    BY <2>1 DEF Resigned, Says
  <2>3. Shaped(w) /\ LinksUp(E, w)
    BY <2>1, WalkOfRecords
  <2>4. w.chain = <<>>
    <3> HIDE DEF E, w
    <3>1. w.chain \in Seq(Id) /\ Len(w.chain) \in Nat
      BY <2>3 DEF Shaped
    <3>2. ASSUME Len(w.chain) # 0 PROVE w.chain[1] \in Says(E, MoverAt(1), "Move")
      <4>1. 1 \in 1..Len(w.chain)
        BY <3>1, <3>2
      <4> QED  BY <2>3, <4>1 DEF LinksUp
    <3>3. Len(w.chain) = 0
      BY <2>1, <3>2 DEF Says
    <3> QED  BY <3>1, <3>3
  <2>5. w.seen = <<Start>>
    <3> HIDE DEF E, w
    <3>1. w.seen \in Seq(Position) /\ Len(w.seen) = 1 /\ w.seen[1] = Start
      BY <2>3, <2>4 DEF Shaped, LinksUp
    <3> QED  BY <3>1
  <2>6. MovesOf(E) = <<>>
    BY <2>4, MovesAreTold DEF Told, Chain
  <2> QED  BY <2>2, <2>5, <2>6 DEF Board!Init
<1>2. HonestInv /\ HonestInv' /\ [Next]_vars => [Board!Next]_(Board!vars)
  <2> SUFFICES ASSUME HonestInv, HonestInv', [Next]_vars PROVE [Board!Next]_(Board!vars)
    OBVIOUS
  <2> DEFINE E == Everything
             F == Everything'
             v == Walk(E)
             w == Walk(F)
  <2>1. /\ E \in SUBSET Record /\ Shaped(v)
        /\ F \in SUBSET Record /\ Shaped(w)
    <3>1. (Honest = Players /\ TypeInv /\ SignedOnce => ShowsTheGame)'
      BY EachShowsTheGame, PTL
    <3> QED  BY <3>1, EachShowsTheGame DEF HonestInv, ShowsTheGame
  <2>2. MovesOf(E) = Told(v.chain) /\ MovesOf(F) = Told(w.chain)
    BY MovesAreTold DEF Chain
  <2>3. CASE Same(v, w) /\ Resigned(F) = Resigned(E)
    BY <2>2, <2>3 DEF Same, Board!vars
  <2>4. CASE Same(v, w) /\ \E q \in Players : Resigned(F) = Resigned(E) \cup {q}
    BY <2>2, <2>4 DEF Same, Players, Board!Next, Board!Resign
  <2>5. CASE Behind(E, v, w) /\ Len(w.chain) = Len(v.chain) + 1 /\ Resigned(F) = Resigned(E)
    <3> DEFINE n == Len(w.chain)
               i == w.chain[n]
               uci == Statement[i].uci
    <3>1. LinksUp(F, w) /\ n \in 1..n /\ n = Len(v.chain) + 1 /\ n \in Nat
      BY <2>1, <2>5, WalkOfRecords DEF Shaped
    <3>2. /\ v.chain \in Seq(Id) /\ w.chain \in Seq(Id) /\ v.seen \in Seq(Position) /\ w.seen \in Seq(Position)
          /\ Len(v.seen) = n /\ Len(w.seen) = n + 1
      BY <2>1, <3>1 DEF Shaped
    <3>3. /\ \A m \in 1..Len(v.chain) : w.chain[m] = v.chain[m]
          /\ \A m \in 1..Len(v.seen) : w.seen[m] = v.seen[m]
          /\ ~AutoDraw(v)
      BY <2>5 DEF Behind
    <3>4. /\ i \in Says(F, MoverAt(n), "Move")
          /\ <<w.seen[n], uci>> \in DOMAIN Play
          /\ w.seen[n + 1] = Play[<<w.seen[n], uci>>]
      BY <3>1 DEF LinksUp
    <3>5. v.seen[n] = w.seen[n] /\ w.seen[n + 1] \in Position
      BY <3>1, <3>2, <3>3
    <3>6. w.seen = Append(v.seen, Play[<<v.seen[Len(v.seen)], uci>>])
      <4> DEFINE pos == w.seen[n + 1]
                 s == Append(v.seen, pos)
      <4>1. s \in Seq(Position) /\ Len(s) = n + 1
        BY <3>2, <3>5
      <4>2. ASSUME NEW m \in 1..(n + 1) PROVE w.seen[m] = s[m]
        <5>1. m \in 1..n \/ m = n + 1
          BY <3>1
        <5>2. CASE m \in 1..n
          BY <3>2, <3>3, <3>5, <5>2
        <5>3. CASE m = n + 1
          BY <3>2, <3>5, <5>3
        <5> QED  BY <5>1, <5>2, <5>3
      <4> HIDE DEF s
      <4>3. w.seen = s
        BY <3>2, <4>1, <4>2, SeqEqual
      <4> QED  BY <3>2, <3>4, <3>5, <4>3 DEF s
    <3>7. Told(w.chain) = Append(Told(v.chain), [by |-> Statement[i].signer, uci |-> uci])
      BY <3>1, <3>2, <3>3, ToldOneMore
    <3>8. Statement[i].signer = MoverAt(n)
      BY <3>4 DEF Says
    <3>9. Len(Told(v.chain)) = Len(v.chain) /\ Len(v.chain) \in Nat
      <4>1. Len(v.chain) \in Nat /\ Told(v.chain) = [m \in 1..Len(v.chain) |-> Told(v.chain)[m]]
        BY <3>2 DEF Told
      <4> QED  BY <4>1
    <3>10. (IF Len(Told(v.chain)) % 2 = 0 THEN White ELSE Black) = MoverAt(n)
      <4>1. ASSUME NEW k \in Nat PROVE k % 2 = 0 <=> (k + 1) % 2 = 1
        BY <4>1
      <4> HIDE DEF v, w, n
      <4>2. MoverAt(n) = IF (Len(v.chain) + 1) % 2 = 1 THEN White ELSE Black
        BY <3>1 DEF MoverAt
      <4> QED  BY <3>9, <4>1, <4>2
    <3>11. ~MustEnd(v.seen)
      BY <3>3 DEF MustEnd, AutoDraw, Repetitions, PosOf
    <3>12. Board!Move(uci)
      BY <2>2, <2>5, <3>6, <3>7, <3>8, <3>10, <3>11 DEF Board!Move, Board!Board, Board!Mover
    <3>13. uci \in Board!LegalMoves
      <4>1. <<v.seen[Len(v.seen)], uci>> \in DOMAIN Play
        BY <3>2, <3>4, <3>5
      <4> QED  BY <4>1 DEF Board!LegalMoves, Board!Board
    <3> QED  BY <3>12, <3>13 DEF Board!Next
  <2> QED  BY <2>3, <2>4, <2>5, OneStep
<1>3. Spec => []HonestInv
  BY HonestInvariant
<1> QED  BY <1>1, <1>2, <1>3, PTL DEF Spec, ImplementsOneGame, Board!Spec
==============================================================================
