----------------------------- MODULE GameProofs -----------------------------
(***************************************************************************)
(* Playing a game is correct for every board, every set of clients and     *)
(* statements, and whatever a player who is not honest publishes.          *)
(***************************************************************************)
EXTENDS Game, ProjectionTheorems

\* Every statement is carried by one genuine record.
LEMMA OneRecordEach ==
  ASSUME NEW i \in Id
  PROVE  RecordOf(i) \in Genuine /\ RecordOf(i) \in Record /\ RecordOf(i).id = i
<1>1. PICK r \in Genuine : {x \in Genuine : x.id = i} = {r}
  BY SignatureAssumption
<1>2. r.id = i
  BY <1>1
<1> QED  BY <1>2, SigAssumption DEF RecordOf

\* What each node stores, and what each client is at, is of its type; and clients
\* have only their own player's statements signed, and only honest players'.
TypeInv ==
  /\ TypeOK
  /\ have \in [Players -> SUBSET GenuineRecords]
  /\ \A c \in Client : op[c] # Idle => /\ PlayerOf[c] \in Honest
                                       /\ Statement[op[c].id].signer = PlayerOf[c]

\* What storing a record at a node does.
LEMMA StoreStep ==
  ASSUME have \in [Players -> SUBSET GenuineRecords],
         NEW p \in Players, NEW r \in Record,
         have' = [have EXCEPT ![p] = ApplyDelta(@, {r})]
  PROVE  /\ have' \in [Players -> SUBSET GenuineRecords]
         /\ IsState(have'[p])
         /\ \E G \in SUBSET GenuineRecords : G \subseteq {r} /\ have'[p] = Canon(have[p] \cup G)
         /\ \A q \in Players : q # p => have'[q] = have[q]
         /\ IdsOf(Everything') \subseteq IdsOf(Everything) \cup {r.id}
<1> DEFINE G == {x \in {r} : Verify(x)}
           U == have[p] \cup G
<1>1. G \in SUBSET GenuineRecords /\ U \in SUBSET GenuineRecords /\ have[p] \in SUBSET GenuineRecords
  BY DEF GenuineRecords
<1>2. have'[p] = Canon(U)
  <2>1. have'[p] = ApplyDelta(have[p], {r})
    OBVIOUS
  <2> QED  BY <1>1, <2>1, ApplyIsCanon
<1>3. Canon(U) \in SUBSET GenuineRecords /\ Canon(U) \subseteq U /\ IsState(Canon(U))
  BY <1>1, CanonIsState
<1>4. \A q \in Players : q # p => have'[q] = have[q]
  OBVIOUS
<1>5. have' \in [Players -> SUBSET GenuineRecords]
  <2>1. \A q \in Players : have'[q] \in SUBSET GenuineRecords
    BY <1>1, <1>2, <1>3, <1>4
  <2> QED  BY <2>1
<1>6. \A q \in Players : have'[q] \subseteq have[q] \cup {r}
  BY <1>2, <1>3, <1>4
<1>7. Everything' \subseteq Everything \cup {r}
  BY <1>6 DEF Everything, Players
<1>8. IdsOf(Everything') \subseteq IdsOf(Everything) \cup {r.id}
  BY <1>7 DEF IdsOf
<1> QED  BY <1>1, <1>2, <1>3, <1>4, <1>5, <1>8

\* Asking for a signature leaves everything else as it was.
LEMMA AskingOpens ==
  ASSUME NEW c \in Client, NEW i \in Id,
         PlayMove(c, i) \/ ResignGame(c, i) \/ DrawOffer(c, i) \/ DrawAccept(c, i) \/ DrawClaim(c, i)
  PROVE  Opens(c, i)
BY DEF PlayMove, ResignGame, DrawOffer, DrawAccept, DrawClaim

\* Before anything is said, the state is of its type.
LEMMA InitTypeInv == Init => TypeInv
<1> SUFFICES ASSUME Init PROVE TypeInv
  OBVIOUS
<1>1. have \in [Players -> SUBSET GenuineRecords] /\ \A p \in Players : IsState(have[p])
  BY DEF Init, Empty, IsState
<1>2. last \in [Players -> 0..MAX_PLY] /\ hash \in [Players -> Id \cup {None}]
  BY MaxPlyAssumption DEF Init
<1>3. op \in [Client -> Ops] /\ \A c \in Client : op[c] = Idle
  BY DEF Init, Ops
<1> QED  BY <1>1, <1>2, <1>3 DEF TypeInv, TypeOK

\* Every step keeps the state of its type.
LEMMA NextTypeInv == TypeInv /\ [Next]_vars => TypeInv'
<1> SUFFICES ASSUME TypeInv, [Next]_vars PROVE TypeInv'
  OBVIOUS
<1> USE DEF TypeInv
<1>0. \A c \in Client : op[c] # Idle => op[c].id \in Id /\ PlayerOf[c] \in Players
  BY ClientAssumption DEF TypeOK, Ops
<1>1. ASSUME NEW c \in Client, NEW i \in Id, Opens(c, i) PROVE TypeInv'
  <2>1. op' \in [Client -> Ops]
    BY <1>1 DEF Opens, TypeOK, Ops
  <2>2. \A d \in Client : op'[d] # Idle => /\ PlayerOf[d] \in Honest
                                           /\ Statement[op'[d].id].signer = PlayerOf[d]
    BY <1>1 DEF Opens, TypeOK
  <2> QED  BY <1>1, <2>1, <2>2 DEF Opens, TypeOK
<1>2. ASSUME NEW c \in Client, Sign(c) PROVE TypeInv'
  <2>1. op[c] # Idle /\ op[c].id \in Id /\ PlayerOf[c] \in Players
    <3>1. op[c] # Idle
      BY <1>2 DEF Sign, Idle
    <3> QED  BY <1>0, <3>1
  <2>2. op' \in [Client -> Ops]
    BY <1>2, <2>1 DEF Sign, TypeOK, Ops
  <2>3. \A d \in Client : op'[d] # Idle => /\ PlayerOf[d] \in Honest
                                           /\ Statement[op'[d].id].signer = PlayerOf[d]
    BY <1>2, <2>1 DEF Sign, TypeOK
  <2>4. last' \in [Players -> 0..MAX_PLY] /\ hash' \in [Players -> Id \cup {None}]
    <3>1. Statement[op[c].id].ply \in Nat
      BY <2>1, StatementAssumption DEF Statements
    <3>2. Statement[op[c].id].kind = "Move" => Statement[op[c].id].ply \in 0..MAX_PLY
      BY <1>2, <3>1, MaxPlyAssumption DEF Sign, MaySign
    <3> QED  BY <1>2, <2>1, <3>2 DEF Sign, Remember, TypeOK
  <2> QED  BY <1>2, <2>2, <2>3, <2>4 DEF Sign, TypeOK
<1>3. ASSUME NEW c \in Client, Submit(c) PROVE TypeInv'
  <2>1. op[c] # Idle /\ op[c].id \in Id /\ PlayerOf[c] \in Players
    <3>1. op[c] # Idle
      BY <1>3 DEF Submit, Idle
    <3> QED  BY <1>0, <3>1
  <2>2. RecordOf(op[c].id) \in Record
    BY <2>1, OneRecordEach
  <2>3. have' \in [Players -> SUBSET GenuineRecords] /\ \A p \in Players : IsState(have'[p])
    BY <1>3, <2>1, <2>2, StoreStep DEF Submit, TypeOK
  <2>4. op' \in [Client -> Ops] /\ \A d \in Client : d # c => op'[d] = op[d]
    BY <1>3 DEF Submit, TypeOK, Ops
  <2>5. op'[c] = Idle
    BY <1>3 DEF Submit, TypeOK
  <2> QED  BY <1>3, <2>3, <2>4, <2>5 DEF Submit, TypeOK
<1>4. ASSUME NEW c \in Client, Abandon(c) PROVE TypeInv'
  <2>1. op' \in [Client -> Ops] /\ \A d \in Client : d # c => op'[d] = op[d]
    BY <1>4 DEF Abandon, TypeOK, Ops
  <2>2. op'[c] = Idle
    BY <1>4 DEF Abandon, TypeOK
  <2> QED  BY <1>4, <2>1, <2>2 DEF Abandon, TypeOK
<1>5. ASSUME NEW p \in Players, NEW r \in Record, Gossip(p, r) PROVE TypeInv'
  <2>1. Opponent(p) \in Players
    BY DEF Opponent, Players
  <2>2. have' \in [Players -> SUBSET GenuineRecords] /\ \A q \in Players : IsState(have'[q])
    BY <1>5, <2>1, StoreStep DEF Gossip, TypeOK
  <2> QED  BY <1>5, <2>2 DEF Gossip, TypeOK
<1>6. ASSUME NEW i \in Id, Cheat(i) PROVE TypeInv'
  <2>1. RecordOf(i) \in Record
    BY OneRecordEach
  <2>2. have' \in [Players -> SUBSET GenuineRecords] /\ \A q \in Players : IsState(have'[q])
    BY <1>6, <2>1, StoreStep DEF Cheat, TypeOK
  <2> QED  BY <1>6, <2>2 DEF Cheat, TypeOK
<1>7. CASE UNCHANGED vars
  BY <1>7 DEF vars, TypeOK, Everything
<1> QED  BY <1>1, <1>2, <1>3, <1>4, <1>5, <1>6, <1>7, AskingOpens DEF Next

\* The nodes, the delegates and the clients keep their types: no node stores a
\* record twice, and no delegate counts past the cap.
THEOREM TypeCorrect == Spec => []TypeOK
<1>1. TypeInv => TypeOK
  BY DEF TypeInv
<1> QED  BY <1>1, InitTypeInv, NextTypeInv, PTL DEF Spec
-----------------------------------------------------------------------------
\* The moves an honest player's delegate has ever let out: published anywhere, or
\* signed for a client that has not published them yet.
Out(p) ==
  {i \in Id : /\ Statement[i].signer = p /\ Statement[i].kind = "Move"
              /\ \/ i \in IdsOf(Everything)
                 \/ \E c \in Client : op[c].stage = "signed" /\ op[c].id = i}

\* The delegate's count is above all of them, or at the one it remembers; and no
\* two are at one ply.
SignedOnce ==
  \A p \in Honest : \A i \in Out(p) :
    /\ Statement[i].ply <= last[p]
    /\ Statement[i].ply = last[p] => i = hash[p]
    /\ \A j \in Out(p) : Statement[j].ply = Statement[i].ply => j = i

\* Nothing is out before the game.
LEMMA InitSignedOnce == Init => SignedOnce
<1> SUFFICES ASSUME Init PROVE SignedOnce
  OBVIOUS
<1>1. IdsOf(Everything) = {}
  BY DEF Init, Everything, Players, Empty, IdsOf
<1>2. \A c \in Client : op[c].stage # "signed"
  BY DEF Init, Idle
<1>3. \A p \in Honest : Out(p) = {}
  BY <1>1, <1>2 DEF Out
<1> QED  BY <1>3 DEF SignedOnce

\* Every step keeps what is out below the count, and single.
LEMMA NextSignedOnce == TypeInv /\ SignedOnce /\ [Next]_vars => SignedOnce'
<1> SUFFICES ASSUME TypeInv, SignedOnce, [Next]_vars PROVE SignedOnce'
  OBVIOUS
<1>1. ASSUME \A p \in Honest : Out(p)' \subseteq Out(p), UNCHANGED <<last, hash>>
      PROVE  SignedOnce'
  BY <1>1 DEF SignedOnce
<1>2. op \in [Client -> Ops] /\ have \in [Players -> SUBSET GenuineRecords]
      /\ last \in [Players -> 0..MAX_PLY] /\ hash \in [Players -> Id \cup {None}]
  BY DEF TypeInv, TypeOK
<1>3. ASSUME NEW c \in Client, NEW i \in Id, Opens(c, i) PROVE SignedOnce'
  <2>1. \A d \in Client : op'[d].stage = "signed" => op[d].stage = "signed" /\ op'[d].id = op[d].id
    BY <1>2, <1>3 DEF Opens
  <2>2. Everything' = Everything /\ UNCHANGED <<last, hash>>
    BY <1>3 DEF Opens, Everything
  <2>3. \A p \in Honest : Out(p)' \subseteq Out(p)
    BY <2>1, <2>2 DEF Out
  <2> QED  BY <1>1, <2>2, <2>3
<1>4. ASSUME NEW c \in Client, Sign(c) PROVE SignedOnce'
  <2> DEFINE p == PlayerOf[c]
             i == op[c].id
  <2>1. p \in Honest /\ p \in Players /\ i \in Id /\ Statement[i].signer = p
    <3>1. op[c] # Idle
      BY <1>4 DEF Sign, Idle
    <3>2. op[c].id \in Id
      BY <1>2, <3>1 DEF Ops
    <3> QED  BY <3>1, <3>2, ClientAssumption DEF TypeInv
  <2>2. Everything' = Everything
    BY <1>4 DEF Sign, Everything
  <2>3. \A d \in Client : op'[d].id = op[d].id
                          /\ (op'[d].stage = "signed" => op[d].stage = "signed" \/ d = c)
    BY <1>2, <1>4 DEF Sign
  <2>4. \A q \in Honest : \A j \in Out(q)' : j \in Out(q) \/ (j = i /\ q = p)
    BY <2>1, <2>2, <2>3 DEF Out
  <2>5. CASE Statement[i].kind # "Move"
    <3>1. UNCHANGED <<last, hash>>
      BY <1>4, <2>5 DEF Sign, Remember
    <3>2. i \notin Out(p)'
      BY <2>5 DEF Out
    <3> QED  BY <1>1, <2>4, <3>1, <3>2
  <2>6. CASE Statement[i].kind = "Move"
    <3>1. /\ last' = [last EXCEPT ![p] = Statement[i].ply]
          /\ hash' = [hash EXCEPT ![p] = i]
          /\ Statement[i].ply > last[p] \/ (Statement[i].ply = last[p] /\ hash[p] = i)
      BY <1>4, <2>6 DEF Sign, Remember, MaySign
    <3>2. Statement[i].ply \in Nat /\ last[p] \in Nat
      BY <1>2, <2>1, StatementAssumption DEF Statements
    <3>3. ASSUME NEW q \in Honest, q # p PROVE Out(q)' \subseteq Out(q) /\ last'[q] = last[q] /\ hash'[q] = hash[q]
      BY <1>2, <2>4, <3>1, <3>3, ClientAssumption
    <3>4. last'[p] = Statement[i].ply /\ hash'[p] = i
      BY <1>2, <2>1, <3>1
    <3>5. \A j \in Out(p) : j \in Id /\ Statement[j].ply \in Nat
      BY StatementAssumption DEF Out, Statements
    <3>6. ASSUME NEW j \in Out(p)
          PROVE  Statement[j].ply <= Statement[i].ply /\ (Statement[j].ply = Statement[i].ply => j = i)
      <4>1. Statement[j].ply <= last[p] /\ (Statement[j].ply = last[p] => j = hash[p])
        BY <2>1 DEF SignedOnce
      <4> QED  BY <3>1, <3>2, <3>5, <4>1
    <3>7. ASSUME NEW q \in Honest, NEW j \in Out(q)'
          PROVE  /\ Statement[j].ply <= last'[q]
                 /\ Statement[j].ply = last'[q] => j = hash'[q]
                 /\ \A k \in Out(q)' : Statement[k].ply = Statement[j].ply => k = j
      <4>1. CASE q = p
        BY <2>4, <3>2, <3>4, <3>6, <4>1 DEF SignedOnce
      <4>2. CASE q # p
        BY <3>3, <4>2 DEF SignedOnce
      <4> QED  BY <4>1, <4>2
    <3> QED  BY <3>7 DEF SignedOnce
  <2> QED  BY <2>5, <2>6
<1>5. ASSUME NEW c \in Client, Submit(c) PROVE SignedOnce'
  <2> DEFINE p == PlayerOf[c]
             i == op[c].id
  <2>1. p \in Players /\ i \in Id
    <3>1. op[c] # Idle
      BY <1>5 DEF Submit, Idle
    <3> QED  BY <1>2, <3>1, ClientAssumption DEF Ops
  <2>2. RecordOf(i) \in Record /\ RecordOf(i).id = i
    BY <2>1, OneRecordEach
  <2>3. IdsOf(Everything') \subseteq IdsOf(Everything) \cup {i}
    BY <1>2, <1>5, <2>1, <2>2, StoreStep DEF Submit
  <2>4. op[c].stage = "signed"
        /\ \A d \in Client : op'[d].stage = "signed" => op[d].stage = "signed" /\ op'[d].id = op[d].id
    BY <1>2, <1>5 DEF Submit, Idle
  <2>5. \A q \in Honest : Out(q)' \subseteq Out(q)
    BY <2>3, <2>4 DEF Out
  <2> QED  BY <1>1, <1>5, <2>5 DEF Submit
<1>6. ASSUME NEW c \in Client, Abandon(c) PROVE SignedOnce'
  <2>1. Everything' = Everything /\ UNCHANGED <<last, hash>>
    BY <1>6 DEF Abandon, Everything
  <2>2. \A d \in Client : op'[d].stage = "signed" => op[d].stage = "signed" /\ op'[d].id = op[d].id
    BY <1>2, <1>6 DEF Abandon, Idle
  <2>3. \A q \in Honest : Out(q)' \subseteq Out(q)
    BY <2>1, <2>2 DEF Out
  <2> QED  BY <1>1, <2>1, <2>3
<1>7. ASSUME NEW p \in Players, NEW r \in Record, Gossip(p, r) PROVE SignedOnce'
  <2>1. Opponent(p) \in Players
    BY DEF Opponent, Players
  <2>2. r.id \in IdsOf(Everything)
    BY <1>7 DEF Gossip, Everything, Players, IdsOf
  <2>3. IdsOf(Everything') \subseteq IdsOf(Everything)
    BY <1>2, <1>7, <2>1, <2>2, StoreStep DEF Gossip
  <2>4. \A q \in Honest : Out(q)' \subseteq Out(q)
    BY <1>7, <2>3 DEF Out, Gossip
  <2> QED  BY <1>1, <1>7, <2>4 DEF Gossip
<1>8. ASSUME NEW i \in Id, Cheat(i) PROVE SignedOnce'
  <2>1. Statement[i].signer \in Players \ Honest /\ RecordOf(i) \in Record /\ RecordOf(i).id = i
    BY <1>8, OneRecordEach DEF Cheat
  <2>2. IdsOf(Everything') \subseteq IdsOf(Everything) \cup {i}
    BY <1>2, <1>8, <2>1, StoreStep DEF Cheat
  <2>3. \A q \in Honest : Out(q)' \subseteq Out(q)
    BY <1>8, <2>1, <2>2 DEF Out, Cheat
  <2> QED  BY <1>1, <1>8, <2>3 DEF Cheat
<1>9. CASE UNCHANGED vars
  <2>1. \A p \in Honest : Out(p)' \subseteq Out(p)
    BY <1>9 DEF vars, Out, Everything
  <2> QED  BY <1>1, <1>9, <2>1 DEF vars
<1> QED  BY <1>3, <1>4, <1>5, <1>6, <1>7, <1>8, <1>9, AskingOpens DEF Next

\* Whose moves are all out, and single, has not double-signed.
LEMMA SingleMeansNoForfeit ==
  ASSUME TypeInv, SignedOnce, NEW p \in Honest
  PROVE  p \notin Forfeiters(Everything)
<1> SUFFICES ASSUME NEW i \in DoubleSigned(Everything), Statement[i].signer = p PROVE FALSE
  BY DEF Forfeiters
<1>1. PICK j \in MovesIn(Everything) : j # i /\ SameSignerAt(i, j)
  BY DEF DoubleSigned
<1>2. Everything \in SUBSET Record
  BY DEF TypeInv, Everything, Players, GenuineRecords
<1>3. i \in Out(p) /\ j \in Out(p)
  BY <1>1, <1>2, StatementsOf DEF DoubleSigned, MovesIn, Says, SameSignerAt, Out
<1> QED  BY <1>1, <1>3 DEF SignedOnce, SameSignerAt

\* However many clients an honest player runs, on however old a view, and whatever
\* of theirs fails between signing and publishing, no two records of the player
\* anywhere make a double sign: the delegate's count is above every move it has
\* let out, and remembers the one at the count.
THEOREM HonestAreSafe == Spec => []HonestNeverForfeits
<1>1. TypeInv /\ SignedOnce => HonestNeverForfeits
  BY SingleMeansNoForfeit DEF HonestNeverForfeits
<1> QED  BY <1>1, InitTypeInv, NextTypeInv, InitSignedOnce, NextSignedOnce, PTL DEF Spec
-----------------------------------------------------------------------------
\* Who has come to the same, or further on the same way, extends the chain.
LEMMA FurtherExtends ==
  ASSUME NEW R, NEW v, NEW w, Shaped(v), Shaped(w), Same(v, w) \/ Behind(R, v, w)
  PROVE  Extends(w.chain, v.chain)
BY FurtherChain DEF Extends

\* The walk never stops because it has to choose: where no double sign stops it,
\* there is at most one move to go on with.
THEOREM NeverChooses == Spec => []NeverTwoCandidates
<1>1. TypeInv => NeverTwoCandidates
  <2> SUFFICES ASSUME TypeInv, NEW p \in Players
               PROVE  Stopped(Walk(have[p])) \/ Cardinality(Candidates(have[p], Walk(have[p]))) <= 1
    BY DEF NeverTwoCandidates
  <2>1. have[p] \in SUBSET Record
    BY DEF TypeInv, GenuineRecords
  <2> QED  BY <2>1, AtMostOneCandidate
<1> QED  BY <1>1, InitTypeInv, NextTypeInv, PTL DEF Spec

\* The nodes show the same game, one of them perhaps further on, unless a player
\* has double-signed: whatever each has stored, and in whatever order it came.
THEOREM OneGameShown == Spec => []NodesShowOneGame
<1>1. TypeInv => NodesShowOneGame
  <2> SUFFICES ASSUME TypeInv, DoubleSignedPlies(Everything) = {}
               PROVE  \/ Extends(Chain(have[White]), Chain(have[Black]))
                      \/ Extends(Chain(have[Black]), Chain(have[White]))
    BY DEF NodesShowOneGame
  <2> DEFINE A == have[White]
             B == have[Black]
  <2>1. A \in SUBSET Record /\ B \in SUBSET Record
    BY DEF TypeInv, GenuineRecords, Players
  <2>2. DoubleSigned(A \cup B) = {}
    BY DEF DoubleSignedPlies, Everything
  <2>3. Shaped(Walk(A)) /\ Shaped(Walk(B))
    BY <2>1, WalkOfRecords
  <2>4. \/ Same(Walk(A), Walk(B))
        \/ Behind(A, Walk(A), Walk(B))
        \/ Behind(B, Walk(B), Walk(A))
    BY <2>1, <2>2, OneWalk
  <2> QED  BY <2>3, <2>4, FurtherExtends DEF Chain
<1> QED  BY <1>1, InitTypeInv, NextTypeInv, PTL DEF Spec

\* What is published, or signed to be.
Loose == IdsOf(Everything) \cup {op[c].id : c \in {d \in Client : op[d].stage = "signed"}}

\* What a step leaves of what a node has stored: all of it, or the canonical form
\* of that and of a record that was loose, or that its player should not have
\* signed.
Kept(p) ==
  \/ have'[p] = have[p]
  \/ \E G \in SUBSET GenuineRecords :
       /\ \A r \in G : r.id \in Loose \/ Statement[r.id].signer \notin Honest
       /\ have'[p] = Canon(have[p] \cup G)

\* Nothing a step does to a node's records is anything but a merge.
LEMMA NodesOnlyMerge ==
  ASSUME TypeInv, [Next]_vars, NEW p \in Players
  PROVE  Kept(p)
<1>1. have \in [Players -> SUBSET GenuineRecords] /\ op \in [Client -> Ops]
  BY DEF TypeInv, TypeOK
<1>2. ASSUME NEW q \in Players, NEW r \in Record, have' = [have EXCEPT ![q] = ApplyDelta(@, {r})],
             r.id \in Loose \/ Statement[r.id].signer \notin Honest
      PROVE  Kept(p)
  <2>1. CASE p # q
    BY <1>1, <1>2, <2>1 DEF Kept
  <2>2. CASE p = q
    <3>1. PICK G \in SUBSET GenuineRecords : G \subseteq {r} /\ have'[q] = Canon(have[q] \cup G)
      BY <1>1, <1>2, StoreStep
    <3> QED  BY <1>2, <2>2, <3>1 DEF Kept
  <2> QED  BY <2>1, <2>2
<1>3. ASSUME NEW c \in Client, NEW i \in Id, Opens(c, i) PROVE Kept(p)
  BY <1>3 DEF Opens, Kept
<1>4. ASSUME NEW c \in Client, Sign(c) \/ Abandon(c) PROVE Kept(p)
  BY <1>4 DEF Sign, Abandon, Kept
<1>5. ASSUME NEW c \in Client, Submit(c) PROVE Kept(p)
  <2>1. op[c] # Idle /\ op[c].stage = "signed"
    BY <1>5 DEF Submit, Idle
  <2>2. op[c].id \in Id /\ PlayerOf[c] \in Players
    BY <1>1, <2>1, ClientAssumption DEF Ops
  <2>3. op[c].id \in Loose
    BY <2>1 DEF Loose
  <2> QED  BY <1>2, <1>5, <2>2, <2>3, OneRecordEach DEF Submit
<1>6. ASSUME NEW q \in Players, NEW r \in Record, Gossip(q, r) PROVE Kept(p)
  <2>1. Opponent(q) \in Players
    BY DEF Opponent, Players
  <2>2. r.id \in Loose
    BY <1>6 DEF Gossip, Loose, Everything, Players, IdsOf
  <2> QED  BY <1>2, <1>6, <2>1, <2>2 DEF Gossip
<1>7. ASSUME NEW i \in Id, Cheat(i) PROVE Kept(p)
  <2>1. Statement[i].signer \in Players \ Honest /\ RecordOf(i) \in Record /\ RecordOf(i).id = i
    BY <1>7, OneRecordEach DEF Cheat
  <2> QED  BY <1>2, <1>7, <2>1 DEF Cheat
<1>8. CASE UNCHANGED vars
  BY <1>8 DEF vars, Kept
<1> QED  BY <1>3, <1>4, <1>5, <1>6, <1>7, <1>8, AskingOpens DEF Next

\* A node's game only goes on, while its double signs are the same.
LEMMA KeptWalk ==
  ASSUME TypeInv, NEW p \in Players, Kept(p),
         DoubleSignedPlies(have'[p]) = DoubleSignedPlies(have[p])
  PROVE  /\ Shaped(Walk(have[p])) /\ Shaped(Walk(have'[p]))
         /\ \/ Same(Walk(have[p]), Walk(have'[p]))
            \/ Behind(have[p], Walk(have[p]), Walk(have'[p]))
<1> DEFINE A == have[p]
           B == have'[p]
<1>1. A \in SUBSET GenuineRecords /\ A \in SUBSET Record
  BY DEF TypeInv, GenuineRecords
<1>2. CASE B = A
  BY <1>1, <1>2, WalkOfRecords DEF Same
<1>3. ASSUME NEW G \in SUBSET GenuineRecords, B = Canon(A \cup G)
      PROVE  B \in SUBSET Record /\ (Same(Walk(A), Walk(B)) \/ Behind(A, Walk(A), Walk(B)))
  <2> DEFINE U == A \cup G
  <2>1. U \in SUBSET GenuineRecords /\ A \in SUBSET U
    BY <1>1
  <2>2. DoubleSignedPlies(A) = DoubleSignedPlies(Canon(U))
    BY <1>3
  <2>3. Canon(U) \in SUBSET Record
    BY <2>1 DEF Canon, GenuineRecords
  <2> HIDE DEF U
  <2>4. Same(Walk(A), Walk(Canon(U))) \/ Behind(A, Walk(A), Walk(Canon(U)))
    BY <2>1, <2>2, MergedWalk
  <2> QED  BY <1>3, <2>3, <2>4 DEF U
<1> QED  BY <1>1, <1>2, <1>3, WalkOfRecords DEF Kept

\* No node takes back a move, except to uncover a double sign.
THEOREM NoMoveTakenBack == Spec => NoMoveIsTakenBack
<1>1. TypeInv /\ [Next]_vars => MovesStand
  <2> SUFFICES ASSUME TypeInv, [Next]_vars, NEW p \in Players,
                      DoubleSignedPlies(have'[p]) = DoubleSignedPlies(have[p])
               PROVE  Extends(Chain(have'[p]), Chain(have[p]))
    BY DEF MovesStand
  <2> QED  BY NodesOnlyMerge, KeptWalk, FurtherExtends DEF Chain
<1> QED  BY <1>1, InitTypeInv, NextTypeInv, PTL DEF Spec, NoMoveIsTakenBack
-----------------------------------------------------------------------------
\* A client begins to say something.
Asks(c, i) ==
  PlayMove(c, i) \/ ResignGame(c, i) \/ DrawOffer(c, i) \/ DrawAccept(c, i) \/ DrawClaim(c, i)

\* What is said in a player's name: published anywhere, or on its way there.
Said(p) ==
  {i \in Id : /\ Statement[i].signer = p
              /\ \/ i \in IdsOf(Everything)
                 \/ \E c \in Client : op[c] # Idle /\ op[c].id = i}

\* An honest player says only what one of its clients has asked for.
LEMMA OnlyAsked ==
  ASSUME TypeInv, [Next]_vars, NEW p \in Honest, NEW i \in Said(p)'
  PROVE  i \in Said(p) \/ \E c \in Client : PlayerOf[c] = p /\ Asks(c, i)
<1>0. op \in [Client -> Ops] /\ have \in [Players -> SUBSET GenuineRecords] /\ i \in Id
      /\ Statement[i].signer = p
  BY DEF TypeInv, TypeOK, Said
<1>1. ASSUME IdsOf(Everything') \subseteq IdsOf(Everything),
             \A d \in Client : op'[d] # Idle => op[d] # Idle /\ op'[d].id = op[d].id
      PROVE  i \in Said(p)
  BY <1>1 DEF Said
<1>2. ASSUME NEW c \in Client, NEW j \in Id, Asks(c, j)
      PROVE  i \in Said(p) \/ (PlayerOf[c] = p /\ Asks(c, i))
  <2>1. Opens(c, j)
    BY <1>2, AskingOpens DEF Asks
  <2>2. Everything' = Everything /\ Statement[j].signer = PlayerOf[c]
    BY <2>1 DEF Opens, Everything
  <2>3. \A d \in Client : d # c => op'[d] = op[d]
    BY <1>0, <2>1 DEF Opens
  <2>4. op'[c].id = j
    BY <1>0, <2>1 DEF Opens
  <2> QED  BY <1>0, <1>2, <2>2, <2>3, <2>4 DEF Said
<1>3. ASSUME NEW c \in Client, Sign(c) PROVE i \in Said(p)
  <2>1. Everything' = Everything /\ op[c] # Idle
    BY <1>3 DEF Sign, Everything, Idle
  <2>2. \A d \in Client : op'[d] # Idle => op[d] # Idle /\ op'[d].id = op[d].id
    BY <1>0, <1>3, <2>1 DEF Sign
  <2> QED  BY <1>1, <2>1, <2>2
<1>4. ASSUME NEW c \in Client, Submit(c) PROVE i \in Said(p)
  <2>1. op[c] # Idle
    BY <1>4 DEF Submit, Idle
  <2>2. op[c].id \in Id /\ PlayerOf[c] \in Players
    BY <1>0, <2>1, ClientAssumption DEF Ops
  <2>3. RecordOf(op[c].id) \in Record /\ RecordOf(op[c].id).id = op[c].id
    BY <2>2, OneRecordEach
  <2>4. IdsOf(Everything') \subseteq IdsOf(Everything) \cup {op[c].id}
    BY <1>0, <1>4, <2>2, <2>3, StoreStep DEF Submit
  <2>5. \A d \in Client : op'[d] # Idle => op'[d] = op[d]
    BY <1>0, <1>4 DEF Submit
  <2> QED  BY <1>0, <2>1, <2>4, <2>5 DEF Said
<1>5. ASSUME NEW c \in Client, Abandon(c) PROVE i \in Said(p)
  <2>1. Everything' = Everything
    BY <1>5 DEF Abandon, Everything
  <2>2. \A d \in Client : op'[d] # Idle => op[d] # Idle /\ op'[d].id = op[d].id
    BY <1>0, <1>5 DEF Abandon
  <2> QED  BY <1>1, <2>1, <2>2
<1>6. ASSUME NEW q \in Players, NEW r \in Record, Gossip(q, r) PROVE i \in Said(p)
  <2>1. Opponent(q) \in Players
    BY DEF Opponent, Players
  <2>2. r.id \in IdsOf(Everything)
    BY <1>6 DEF Gossip, Everything, Players, IdsOf
  <2>3. IdsOf(Everything') \subseteq IdsOf(Everything)
    BY <1>0, <1>6, <2>1, <2>2, StoreStep DEF Gossip
  <2> QED  BY <1>1, <1>6, <2>3 DEF Gossip
<1>7. ASSUME NEW j \in Id, Cheat(j) PROVE i \in Said(p)
  <2>1. Statement[j].signer \in Players \ Honest /\ RecordOf(j) \in Record /\ RecordOf(j).id = j
    BY <1>7, OneRecordEach DEF Cheat
  <2>2. IdsOf(Everything') \subseteq IdsOf(Everything) \cup {j}
    BY <1>0, <1>7, <2>1, StoreStep DEF Cheat
  <2>3. op' = op /\ i # j
    BY <1>0, <1>7, <2>1 DEF Cheat
  <2> QED  BY <2>2, <2>3 DEF Said
<1>8. CASE UNCHANGED vars
  BY <1>8 DEF vars, Said, Everything
<1> QED  BY <1>2, <1>3, <1>4, <1>5, <1>6, <1>7, <1>8 DEF Next, Asks

\* How many moves are made when the last of them is h.
PlyOfHead(h) == IF h = Genesis THEN 0 ELSE Statement[h].ply

\* The last move of a walk tells how many there are.
LEMMA HeadTellsPly ==
  ASSUME NEW R \in SUBSET Record
  PROVE  PlyOfHead(HeadOf(Walk(R))) = Len(Walk(R).chain)
<1> DEFINE w == Walk(R)
<1>1. Shaped(w) /\ LinksUp(R, w)
  BY WalkOfRecords
<1> HIDE DEF w
<1>2. w.chain \in Seq(Id) /\ Len(w.chain) \in Nat
  BY <1>1 DEF Shaped
<1>3. PlyOfHead(HeadOf(w)) = Len(w.chain)
  <2>1. CASE w.chain = <<>>
    BY <2>1 DEF HeadOf, PlyOfHead
  <2>2. CASE w.chain # <<>>
    <3>1. Len(w.chain) \in 1..Len(w.chain)
      BY <1>2, <2>2
    <3>2. w.chain[Len(w.chain)] \in Id
      BY <1>2, <3>1
    <3>3. Statement[w.chain[Len(w.chain)]].ply = Len(w.chain)
      BY <1>1, <3>1 DEF LinksUp
    <3>4. HeadOf(w) \in Id /\ Statement[HeadOf(w)].ply = Len(w.chain)
      BY <2>2, <3>2, <3>3 DEF HeadOf
    <3> QED  BY <3>4, IdAssumption DEF PlyOfHead
  <2> QED  BY <2>1, <2>2
<1> QED  BY <1>3 DEF w

\* An honest player's offers and acceptances are at the ply of the move they are
\* about.
SaidAtHead ==
  \A p \in Honest : \A i \in Said(p) :
    /\ Statement[i].kind = "DrawOffer" => Statement[i].ply = PlyOfHead(Statement[i].ref)
    /\ Statement[i].kind = "DrawAccept" =>
         Statement[i].ply = PlyOfHead(Statement[Statement[i].ref].ref)

\* Nothing is said before the game.
LEMMA NothingSaid == Init => \A p \in Honest : Said(p) = {}
<1> SUFFICES ASSUME Init PROVE \A p \in Honest : Said(p) = {}
  OBVIOUS
<1>1. IdsOf(Everything) = {}
  BY DEF Init, Everything, Players, Empty, IdsOf
<1>2. \A c \in Client : op[c] = Idle
  BY DEF Init
<1> QED  BY <1>1, <1>2 DEF Said

\* Every step keeps offers and acceptances at their plies.
LEMMA NextSaidAtHead == TypeInv /\ SaidAtHead /\ [Next]_vars => SaidAtHead'
<1> SUFFICES ASSUME TypeInv, SaidAtHead, [Next]_vars, NEW p \in Honest, NEW i \in Said(p)'
             PROVE  /\ Statement[i].kind = "DrawOffer" => Statement[i].ply = PlyOfHead(Statement[i].ref)
                    /\ Statement[i].kind = "DrawAccept" =>
                         Statement[i].ply = PlyOfHead(Statement[Statement[i].ref].ref)
  BY DEF SaidAtHead
<1>1. CASE i \in Said(p)
  BY <1>1 DEF SaidAtHead
<1>2. ASSUME NEW c \in Client, PlayerOf[c] = p, Asks(c, i)
      PROVE  /\ Statement[i].kind = "DrawOffer" => Statement[i].ply = PlyOfHead(Statement[i].ref)
             /\ Statement[i].kind = "DrawAccept" =>
                  Statement[i].ply = PlyOfHead(Statement[Statement[i].ref].ref)
  <2> DEFINE w == Walk(have[p])
  <2>1. PlyOfHead(HeadOf(w)) = Len(w.chain)
    <3>1. have[p] \in SUBSET Record
      BY ClientAssumption DEF TypeInv, GenuineRecords
    <3> QED  BY <3>1, HeadTellsPly
  <2>2. Statement[i].kind = "DrawOffer" => Statement[i].ply = Len(w.chain) /\ Statement[i].ref = HeadOf(w)
    BY <1>2 DEF Asks, PlayMove, ResignGame, DrawOffer, DrawAccept, DrawClaim
  <2>3. Statement[i].kind = "DrawAccept" =>
          Statement[i].ply = Len(w.chain) /\ Statement[Statement[i].ref].ref = HeadOf(w)
    BY <1>2 DEF Asks, PlayMove, ResignGame, DrawOffer, DrawAccept, DrawClaim
  <2> QED  BY <2>1, <2>2, <2>3
<1> QED  BY <1>1, <1>2, OnlyAsked

\* A decision against a player, or for nobody, has one of the reasons it can have.
LEMMA WhatDecides ==
  ASSUME NEW R \in SUBSET Record, NEW p \in Players, p \notin Forfeiters(R),
         Forfeiters(R) \subseteq Players, NEW d \in Decision(R)
  PROVE  \/ d.winner = p
         \/ d.reason \in {"Checkmate", "Stalemate", "InsufficientMaterial", "AutomaticDraw"}
         \/ d.reason \in {"Resignation", "MutualResignation"} /\ p \in Resigned(R)
         \/ d.reason = "DrawAgreement" /\ d \in DrawAgreed(R, Walk(R))
         \/ d.reason \in {"ThreefoldClaim", "FiftyMoveClaim"}
            /\ Says(R, TurnOf(Walk(R)), "DrawClaim") # {}
<1> DEFINE w == Walk(R)
           o == Opponent(p)
<1>0. Players = {p, o} /\ p # o
  BY PlayersAssumption DEF Players, Opponent
<1>1. \A L \in SUBSET Players : L # {} /\ p \notin L => L = {o} /\ WinnerAgainst(L) = p
  BY <1>0, PlayersAssumption DEF WinnerAgainst, Players, Opponent
<1>2. \/ d \in Forfeit(R) \/ d \in Resignation(R) \/ d \in BoardResult(w)
      \/ d \in DrawClaimed(R, w) \/ d \in DrawAgreed(R, w)
  BY DEF Decision, OrElse
<1>3. CASE d \in Forfeit(R)
  <2>1. Forfeiters(R) # {} /\ d.winner = WinnerAgainst(Forfeiters(R))
    BY <1>3 DEF Forfeit, If, Verdict
  <2> QED  BY <1>1, <2>1
<1>4. CASE d \in Resignation(R)
  <2>1. /\ Resigned(R) # {} /\ d.winner = WinnerAgainst(Resigned(R))
        /\ d.reason \in {"Resignation", "MutualResignation"}
    BY <1>4 DEF Resignation, If, Verdict
  <2>2. Resigned(R) \in SUBSET Players
    BY DEF Resigned
  <2> QED  BY <1>1, <2>1, <2>2
<1>5. CASE d \in BoardResult(w)
  BY <1>5 DEF BoardResult, OrElse, If, Verdict
<1>6. CASE d \in DrawClaimed(R, w)
  BY <1>6 DEF DrawClaimed, OrElse, If, Verdict
<1>7. CASE d \in DrawAgreed(R, w)
  BY <1>7 DEF DrawAgreed, If, Verdict
<1> QED  BY <1>2, <1>3, <1>4, <1>5, <1>6, <1>7

\* Whatever the opponent publishes, an honest player who does not win has been
\* mated on the board, has resigned, has agreed to the draw, or is drawn by the
\* rules: on the board, or by a claim of the player to move.
THEOREM LossesAreFair == Spec => []HonestLosesFairly
<1>1. ASSUME TypeInv, SignedOnce, SaidAtHead, NEW p \in Honest, NEW q \in Players,
             NEW d \in Decision(have[q])
      PROVE  LET R == have[q]  w == Walk(R) IN
             \/ d.winner = p
             \/ d.reason \in {"Checkmate", "Stalemate", "InsufficientMaterial", "AutomaticDraw"}
             \/ d.reason \in {"Resignation", "MutualResignation"} /\ Says(R, p, "Resign") # {}
             \/ d.reason = "DrawAgreement" /\ \E i \in Says(R, p, "DrawOffer") \cup Says(R, p, "DrawAccept") :
                                                Statement[i].ply = Len(w.chain)
             \/ d.reason \in {"ThreefoldClaim", "FiftyMoveClaim"} /\ Says(R, TurnOf(w), "DrawClaim") # {}
  <2> DEFINE R == have[q]
             w == Walk(R)
  <2>0. have \in [Players -> SUBSET GenuineRecords] /\ p \in Players
    BY <1>1, ClientAssumption DEF TypeInv
  <2>1. R \in SUBSET Record /\ R \subseteq Everything /\ Everything \in SUBSET Record /\ p \in Players
    BY <2>0 DEF GenuineRecords, Everything, Players
  <2>2. Forfeiters(R) \subseteq Forfeiters(Everything) /\ Forfeiters(R) \subseteq Players
    <3>1. MovesIn(R) \subseteq MovesIn(Everything)
      BY <2>1 DEF MovesIn, Says, IdsOf
    <3>2. \A i \in MovesIn(R) : Statement[i].signer \in Players
      BY DEF MovesIn, Says, Players
    <3> QED  BY <3>1, <3>2 DEF Forfeiters, DoubleSigned
  <2>3. p \notin Forfeiters(R)
    BY <1>1, <2>2, SingleMeansNoForfeit
  <2>4. ASSUME d.reason = "DrawAgreement", d \in DrawAgreed(R, w)
        PROVE  \E i \in Says(R, p, "DrawOffer") \cup Says(R, p, "DrawAccept") :
                 Statement[i].ply = Len(w.chain)
    <3>0. PICK a \in Players :
            \E i \in Says(R, a, "DrawAccept") : \E j \in Says(R, Opponent(a), "DrawOffer") :
              Statement[i].ref = j /\ Statement[j].ref = HeadOf(w)
      BY <2>4 DEF DrawAgreed, If
    <3>1. PICK i \in Says(R, a, "DrawAccept"), j \in Says(R, Opponent(a), "DrawOffer") :
            Statement[i].ref = j /\ Statement[j].ref = HeadOf(w)
      BY <3>0
    <3>2. PlyOfHead(HeadOf(w)) = Len(w.chain)
      BY <2>1, HeadTellsPly
    <3>3. IdsOf(R) \subseteq IdsOf(Everything) /\ IdsOf(R) \subseteq Id
      BY <2>1, StatementsOf DEF IdsOf
    <3>4. CASE a = p
      <4>1. i \in Said(p) /\ Statement[i].kind = "DrawAccept"
        BY <3>1, <3>3, <3>4 DEF Says, Said
      <4> QED  BY <1>1, <3>1, <3>2, <3>4, <4>1 DEF SaidAtHead
    <3>5. CASE a # p
      <4>1. Opponent(a) = p
        BY <2>1, <3>5, PlayersAssumption DEF Players, Opponent
      <4>2. j \in Said(p) /\ Statement[j].kind = "DrawOffer"
        BY <3>1, <3>3, <4>1 DEF Says, Said
      <4> QED  BY <1>1, <3>1, <3>2, <4>1, <4>2 DEF SaidAtHead
    <3> QED  BY <3>4, <3>5
  <2> QED  BY <2>1, <2>2, <2>3, <2>4, WhatDecides DEF Resigned
<1>2. TypeInv /\ SignedOnce /\ SaidAtHead => HonestLosesFairly
  BY <1>1 DEF HonestLosesFairly
<1>3. Init => SaidAtHead
  BY NothingSaid DEF SaidAtHead
<1> QED  BY <1>2, <1>3, InitTypeInv, NextTypeInv, InitSignedOnce, NextSignedOnce, NextSaidAtHead,
            PTL DEF Spec
-----------------------------------------------------------------------------
\* The moves a player's clients are at, and the last one its delegate has signed.
Pending(p) ==
  {i \in Id : /\ Statement[i].kind = "Move"
              /\ \/ i = hash[p]
                 \/ \E c \in Client : PlayerOf[c] = p /\ op[c] # Idle /\ op[c].id = i}

\* A move that is played already, or overtaken, or can be played next.
Fits(w, i) == /\ Statement[i].ply <= Len(w.chain) + 1
              /\ Statement[i].ply = Len(w.chain) + 1 => Continues(w, i)

\* What the delegate counts is the move it remembers, and unless there is a double
\* sign every pending move fits the game as the player's node shows it.
PendingFits ==
  \A p \in Honest :
    /\ last[p] = 0 \/ (hash[p] \in Pending(p) /\ Statement[hash[p]].ply = last[p])
    /\ DoubleSignedPlies(have[p]) = {} => \A i \in Pending(p) : Fits(Walk(have[p]), i)

\* Nothing is pending before the game.
LEMMA InitPendingFits == Init => PendingFits
<1> SUFFICES ASSUME Init PROVE PendingFits
  OBVIOUS
<1>1. \A p \in Honest : hash[p] = None /\ last[p] = 0
  BY ClientAssumption DEF Init
<1>2. \A c \in Client : op[c] = Idle
  BY DEF Init
<1>3. \A p \in Honest : Pending(p) = {}
  BY <1>1, <1>2, ClientAssumption DEF Pending
<1> QED  BY <1>1, <1>3 DEF PendingFits

\* A move becomes pending when a client asks for it.
LEMMA OnlyAskedPends ==
  ASSUME TypeInv, [Next]_vars, NEW p \in Honest
  PROVE  /\ \A i \in Pending(p)' : i \in Pending(p) \/ \E c \in Client : PlayerOf[c] = p /\ PlayMove(c, i)
         /\ \/ last'[p] = last[p] /\ hash'[p] = hash[p]
            \/ hash'[p] \in Pending(p)' /\ Statement[hash'[p]].ply = last'[p]
<1>0. op \in [Client -> Ops] /\ p \in Players /\ last \in [Players -> 0..MAX_PLY]
      /\ hash \in [Players -> Id \cup {None}]
  BY ClientAssumption DEF TypeInv, TypeOK
<1>1. ASSUME UNCHANGED <<last, hash>>,
             \A d \in Client : op'[d] # Idle => op[d] # Idle /\ op'[d].id = op[d].id
      PROVE  /\ \A i \in Pending(p)' : i \in Pending(p)
             /\ last'[p] = last[p] /\ hash'[p] = hash[p]
  BY <1>1 DEF Pending
<1>2. ASSUME NEW c \in Client, NEW j \in Id, Asks(c, j)
      PROVE  /\ \A i \in Pending(p)' : i \in Pending(p) \/ (PlayerOf[c] = p /\ PlayMove(c, i))
             /\ last'[p] = last[p] /\ hash'[p] = hash[p]
  <2>1. Opens(c, j)
    BY <1>2, AskingOpens DEF Asks
  <2>2. UNCHANGED <<last, hash>>
    BY <2>1 DEF Opens
  <2>3. \A d \in Client : d # c => op'[d] = op[d]
    BY <1>0, <2>1 DEF Opens
  <2>4. op'[c].id = j
    BY <1>0, <2>1 DEF Opens
  <2>5. Statement[j].kind = "Move" => PlayMove(c, j)
    BY <1>2 DEF Asks, PlayMove, ResignGame, DrawOffer, DrawAccept, DrawClaim
  <2> QED  BY <1>0, <2>2, <2>3, <2>4, <2>5 DEF Pending
<1>3. ASSUME NEW c \in Client, Sign(c)
      PROVE  /\ \A i \in Pending(p)' : i \in Pending(p)
             /\ \/ last'[p] = last[p] /\ hash'[p] = hash[p]
                \/ hash'[p] \in Pending(p)' /\ Statement[hash'[p]].ply = last'[p]
  <2> DEFINE q == PlayerOf[c]
             j == op[c].id
  <2>1. op[c] # Idle
    BY <1>3 DEF Sign, Idle
  <2>2. j \in Id /\ q \in Players
    BY <1>0, <2>1, ClientAssumption DEF Ops
  <2>3. \A d \in Client : op'[d] # Idle => op[d] # Idle /\ op'[d].id = op[d].id
    BY <1>0, <1>3, <2>1 DEF Sign
  <2>4. CASE q = p /\ Statement[j].kind = "Move"
    <3>1. last'[p] = Statement[j].ply /\ hash'[p] = j
      BY <1>0, <1>3, <2>4 DEF Sign, Remember
    <3>2. j \in Pending(p) /\ j \in Pending(p)'
      BY <2>1, <2>2, <2>4, <3>1 DEF Pending
    <3> QED  BY <2>3, <3>1, <3>2 DEF Pending
  <2>5. CASE ~(q = p /\ Statement[j].kind = "Move")
    <3>1. last'[p] = last[p] /\ hash'[p] = hash[p]
      BY <1>0, <1>3, <2>2, <2>5 DEF Sign, Remember
    <3> QED  BY <2>3, <3>1 DEF Pending
  <2> QED  BY <2>4, <2>5
<1>4. ASSUME NEW c \in Client, Submit(c) \/ Abandon(c)
      PROVE  \A d \in Client : op'[d] # Idle => op'[d] = op[d]
  BY <1>0, <1>4 DEF Submit, Abandon
<1>5. ASSUME NEW c \in Client, Submit(c) \/ Abandon(c) PROVE UNCHANGED <<last, hash>>
  BY <1>5 DEF Submit, Abandon
<1>6. ASSUME NEW q \in Players, NEW r \in Record, Gossip(q, r) PROVE UNCHANGED <<last, hash, op>>
  BY <1>6 DEF Gossip
<1>7. ASSUME NEW i \in Id, Cheat(i) PROVE UNCHANGED <<last, hash, op>>
  BY <1>7 DEF Cheat
<1>8. CASE UNCHANGED vars
  BY <1>1, <1>8 DEF vars
<1> QED  BY <1>1, <1>2, <1>3, <1>4, <1>5, <1>6, <1>7, <1>8 DEF Next, Asks

\* A move that fits a game fits it when it has gone on.
LEMMA FitsFurther ==
  ASSUME NEW R, NEW v, NEW w, Shaped(v), Shaped(w), Same(v, w) \/ Behind(R, v, w),
         NEW i \in Id, Fits(v, i)
  PROVE  Fits(w, i)
<1>1. Len(v.chain) \in Nat /\ Len(w.chain) \in Nat /\ Statement[i].ply \in Nat
  BY StatementAssumption DEF Shaped, Statements
<1>2. CASE Same(v, w)
  BY <1>2 DEF Same, Fits, Continues, TurnOf, HeadOf, PosOf
<1>3. CASE Behind(R, v, w)
  BY <1>1, <1>3 DEF Behind, Fits
<1> QED  BY <1>2, <1>3

\* Every step keeps the pending moves fitting.
LEMMA NextPendingFits == TypeInv /\ PendingFits /\ [Next]_vars => PendingFits'
<1> SUFFICES ASSUME TypeInv, PendingFits, [Next]_vars, NEW p \in Honest
             PROVE  /\ last'[p] = 0 \/ (hash'[p] \in Pending(p)' /\ Statement[hash'[p]].ply = last'[p])
                    /\ DoubleSignedPlies(have'[p]) = {} =>
                         \A i \in Pending(p)' : Fits(Walk(have'[p]), i)
  BY DEF PendingFits
<1>0. p \in Players /\ have[p] \in SUBSET GenuineRecords /\ have[p] \in SUBSET Record
  BY ClientAssumption DEF TypeInv, GenuineRecords
<1>1. last'[p] = 0 \/ (hash'[p] \in Pending(p)' /\ Statement[hash'[p]].ply = last'[p])
  <2>1. CASE last'[p] = last[p] /\ hash'[p] = hash[p]
    BY <2>1 DEF PendingFits, Pending
  <2> QED  BY <2>1, OnlyAskedPends
<1>2. ASSUME DoubleSignedPlies(have'[p]) = {}, NEW i \in Pending(p)'
      PROVE  Fits(Walk(have'[p]), i)
  <2>1. Kept(p)
    BY <1>0, NodesOnlyMerge
  <2>2. DoubleSignedPlies(have[p]) = {}
    <3>1. ASSUME NEW G \in SUBSET GenuineRecords, have'[p] = Canon(have[p] \cup G)
          PROVE  DoubleSignedPlies(have[p]) = {}
      <4>1. have[p] \cup G \in SUBSET GenuineRecords
        BY <1>0
      <4>2. DoubleSignedPlies(have[p]) \subseteq DoubleSignedPlies(Canon(have[p] \cup G))
        BY <4>1, DoubleSignsOutlast
      <4> QED  BY <1>2, <3>1, <4>2
    <3> QED  BY <1>2, <2>1, <3>1 DEF Kept
  <2>3. /\ Shaped(Walk(have[p])) /\ Shaped(Walk(have'[p]))
        /\ \/ Same(Walk(have[p]), Walk(have'[p]))
           \/ Behind(have[p], Walk(have[p]), Walk(have'[p]))
    BY <1>0, <1>2, <2>1, <2>2, KeptWalk
  <2>4. i \in Id
    BY DEF Pending
  <2>5. CASE i \in Pending(p)
    <3>1. Fits(Walk(have[p]), i)
      BY <2>2, <2>5 DEF PendingFits
    <3> QED  BY <2>3, <2>4, <3>1, FitsFurther
  <2>6. ASSUME NEW c \in Client, PlayerOf[c] = p, PlayMove(c, i)
        PROVE  Fits(Walk(have'[p]), i)
    <3>1. Continues(Walk(have[p]), i)
      BY <2>6 DEF PlayMove, Opens, Continues
    <3>2. Fits(Walk(have[p]), i)
      <4>1. Len(Walk(have[p]).chain) \in Nat
        BY <2>3 DEF Shaped
      <4> QED  BY <3>1, <4>1 DEF Fits, Continues
    <3> QED  BY <2>3, <2>4, <3>2, FitsFurther
  <2> QED  BY <2>5, <2>6, OnlyAskedPends
<1> QED  BY <1>1, <1>2

\* What an honest player has signed but not got published is no dead end, on any
\* board that leaves a move to whoever's turn it is while a game goes on.
THEOREM NoDeadEnd == ASSUME MovesToMake PROVE Spec => []HonestCanMove
<1>1. TypeInv /\ PendingFits => HonestCanMove
  <2> SUFFICES ASSUME TypeInv, PendingFits, NEW p \in Honest,
                      ~IsOver(have[p]), TurnOf(Walk(have[p])) = p, Len(Walk(have[p]).chain) < MAX_PLY
               PROVE  \E i \in Id : Continues(Walk(have[p]), i) /\ MaySign(p, i)
    BY DEF HonestCanMove
  <2> DEFINE R == have[p]
             w == Walk(R)
  <2>1. R \in SUBSET Genuine /\ R \in SUBSET Record /\ last[p] \in Nat /\ p \in Players
    BY ClientAssumption, SigAssumption DEF TypeInv, TypeOK, GenuineRecords, Verify
  <2>2. Len(w.chain) \in Nat /\ MAX_PLY \in Nat
    BY <2>1, WalkOfRecords, MaxPlyAssumption
  <2>3. DoubleSignedPlies(R) = {}
    <3>1. Forfeit(R) = {}
      BY DEF IsOver, Decision, OrElse
    <3>2. Forfeiters(R) = {}
      BY <3>1 DEF Forfeit, If, Verdict
    <3> QED  BY <3>2 DEF Forfeiters, DoubleSignedPlies
  <2>4. ASSUME NEW i \in Id, Continues(w, i), Statement[i].ply > last[p] \/ (Statement[i].ply = last[p] /\ hash[p] = i)
        PROVE  MaySign(p, i)
    BY <2>2, <2>4 DEF MaySign, Continues, TurnOf
  <2>5. CASE last[p] < Len(w.chain) + 1
    <3>1. PICK i \in Id : Continues(w, i)
      BY <2>1 DEF MovesToMake
    <3>2. Statement[i].ply > last[p]
      BY <2>1, <2>2, <2>5, <3>1 DEF Continues
    <3> QED  BY <2>4, <3>1, <3>2
  <2>6. CASE ~(last[p] < Len(w.chain) + 1)
    <3>1. last[p] # 0
      BY <2>1, <2>2, <2>6
    <3>2. hash[p] \in Pending(p) /\ Statement[hash[p]].ply = last[p] /\ hash[p] \in Id
      BY <3>1 DEF PendingFits, Pending
    <3>3. Fits(w, hash[p])
      BY <2>3, <3>2 DEF PendingFits
    <3>4. Continues(w, hash[p])
      BY <2>1, <2>2, <2>6, <3>2, <3>3 DEF Fits
    <3> QED  BY <2>4, <3>2, <3>4
  <2> QED  BY <2>5, <2>6
<1> QED  BY <1>1, InitTypeInv, NextTypeInv, InitPendingFits, NextPendingFits, PTL DEF Spec
=============================================================================
