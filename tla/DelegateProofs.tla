--------------------------- MODULE DelegateProofs ---------------------------
(***************************************************************************)
(* The delegate never hands out two moves for one ply, for every set of    *)
(* labels, games, callers and bodies, and whatever writes fail.            *)
(*                                                                         *)
(* The argument: a signature goes out only after both writes of its        *)
(* record, so a label with a signature out is bound; the counter of a      *)
(* game whose label is bound is never replaced by a lower one; and a move  *)
(* at or below the counter is only ever the move that stands there.        *)
(***************************************************************************)
EXTENDS Delegate, TLAPS

\* What is stored of a game names the game and can be read back.
RecordsAreReadable ==
  \A g \in Game : game[g] # None => /\ game[g].format \in Readable
                                    /\ game[g].game = g
                                    /\ game[g].previous # game[g].contract

\* The index of a label leads to a record of that label.
IndexIsOwn ==
  \A l \in Label : bind[l] # None => game[bind[l]] # None /\ game[bind[l]].label = l

\* The signature s is covered by the counter of its game.
Counted(s) ==
  /\ game[s.game] # None
  /\ game[s.game].label = s.label
  /\ bind[s.label] # None
  /\ s.body.kind = "Move" =>
       /\ s.body.ply <= game[s.game].last
       /\ s.body.ply = game[s.game].last => s.body = game[s.game].hash

IInv ==
  /\ TypeOK
  /\ RecordsAreReadable
  /\ IndexIsOwn
  /\ \A s \in released : Counted(s)
  /\ NoDoubleSign

\* A record of a game that comes after the record old keeps the address it left.
Remembers(rec, old) ==
  rec.previous = IF rec.contract = old.contract THEN old.previous ELSE old.contract

\* What a request may store: the record of its game at no lower a counter, or, as
\* long as its label is not bound, any first record.
Succeeds(rec) ==
  \/ /\ game[rec.game] # None
     /\ game[rec.game].label = rec.label
     /\ rec.last >= game[rec.game].last
     /\ rec.last = game[rec.game].last => rec.hash = game[rec.game].hash
     /\ Remembers(rec, LoadGame(rec.game))
  \/ /\ bind[rec.label] = None
     /\ game[rec.game] # None => game[rec.game].label = rec.label

Storable(rec) ==
  /\ rec \in GameRecord
  /\ rec.format = GAME_RECORD_FORMAT
  /\ rec.previous # rec.contract
  /\ Succeeds(rec)

\* Bringing a record up to date leaves its counter, its label and its caller alone.
LEMMA MigratedRecord ==
  ASSUME NEW rec \in GameRecord, rec.format \in Readable, rec.previous # rec.contract
  PROVE  LET m == MigrateRecord(rec) IN
         /\ m \in GameRecord /\ m # None /\ m.format = GAME_RECORD_FORMAT
         /\ m.label = rec.label /\ m.game = rec.game /\ m.side = rec.side
         /\ m.origin = rec.origin /\ m.last = rec.last /\ m.hash = rec.hash
         /\ m.previous # m.contract
<1>1. CASE rec.format = GAME_RECORD_FORMAT
  BY <1>1, NoneAssumption DEF MigrateRecord
<1>2. CASE rec.format = 2
  <2> DEFINE r1 == [rec EXCEPT !.format = GAME_RECORD_FORMAT]
             r2 == [r1 EXCEPT !.previous = None]
  <2>1. MigrateRecord(rec) = r2
    BY <1>2 DEF MigrateRecord, GAME_RECORD_FORMAT
  <2>2. /\ r1 \in GameRecord /\ r1.format = GAME_RECORD_FORMAT
        /\ r1.label = rec.label /\ r1.game = rec.game /\ r1.side = rec.side
        /\ r1.origin = rec.origin /\ r1.last = rec.last /\ r1.hash = rec.hash
    BY DEF GameRecord, GAME_RECORD_FORMAT
  <2> HIDE DEF r1
  <2>3. /\ r2 \in GameRecord /\ r2.format = r1.format
        /\ r2.label = r1.label /\ r2.game = r1.game /\ r2.side = r1.side
        /\ r2.origin = r1.origin /\ r2.last = r1.last /\ r2.hash = r1.hash
        /\ r2.previous = None /\ r2.contract \in Contract
    BY <2>2 DEF GameRecord
  <2> HIDE DEF r2
  <2> QED  BY <2>1, <2>2, <2>3, NoneAssumption
<1> QED  BY <1>1, <1>2 DEF Readable

\* A game that can be loaded has a record that has been brought up to date.
LEMMA LoadedRecord ==
  ASSUME IInv, NEW g \in Game
  PROVE  /\ game[g] # None <=> LoadGame(g) # None
         /\ game[g] # None =>
              /\ LoadGame(g) \in GameRecord /\ LoadGame(g).format = GAME_RECORD_FORMAT
              /\ LoadGame(g).game = g /\ LoadGame(g).previous # LoadGame(g).contract
              /\ LoadGame(g).label = game[g].label /\ LoadGame(g).side = game[g].side
              /\ LoadGame(g).origin = game[g].origin
              /\ LoadGame(g).last = game[g].last /\ LoadGame(g).hash = game[g].hash
              /\ game[g] \in GameRecord /\ game[g].last \in Nat
<1>1. CASE game[g] = None
  BY <1>1 DEF LoadGame
<1>2. CASE game[g] # None
  <2>1. game[g] \in GameRecord
    BY <1>2 DEF IInv, TypeOK
  <2>2. game[g].format \in Readable /\ game[g].game = g /\ game[g].previous # game[g].contract
    BY <1>2 DEF IInv, RecordsAreReadable
  <2>3. LoadGame(g) = MigrateRecord(game[g])
    BY <1>2 DEF LoadGame
  <2>4. game[g].last \in Nat
    BY <2>1, BodyAssumption DEF GameRecord
  <2> QED  BY <1>2, <2>1, <2>2, <2>3, <2>4, MigratedRecord
<1> QED  BY <1>1, <1>2

\* A bound label has a record that can be read.
LEMMA BoundLabelLoads ==
  ASSUME IInv, NEW l \in Label
  PROVE  /\ Existing(l) = None => bind[l] = None
         /\ Existing(l) # None => /\ bind[l] \in Game
                                  /\ Existing(l) = LoadGame(bind[l])
                                  /\ Existing(l).label = l
                                  /\ Existing(l).game = bind[l]
<1>1. bind[l] \in Game \cup {None}
  BY DEF IInv, TypeOK
<1>2. CASE bind[l] = None
  BY <1>2 DEF Existing
<1>3. CASE bind[l] # None
  <2>1. bind[l] \in Game /\ game[bind[l]] # None /\ game[bind[l]].label = l
    BY <1>1, <1>3 DEF IInv, IndexIsOwn
  <2>2. Existing(l) = LoadGame(bind[l])
    BY <1>3 DEF Existing
  <2> QED  BY <1>3, <2>1, <2>2, LoadedRecord
<1> QED  BY <1>2, <1>3

\* Storing a record that may be stored keeps the store in order, and every
\* signature that is out covered, whichever of the two writes land.
LEMMA StoreKeepsOrder ==
  ASSUME IInv, NEW rec, Storable(rec), NEW landed \in 1..2, StoreGame(rec, landed),
         UNCHANGED <<keys, quality, owner, creator>>
  PROVE  /\ game' \in [Game -> GameRecord \cup {None}]
         /\ bind' \in [Label -> Game \cup {None}]
         /\ game' = [game EXCEPT ![rec.game] = rec]
         /\ landed = 2 => bind'[rec.label] = rec.game
         /\ RecordsAreReadable' /\ IndexIsOwn'
         /\ \A s \in released : Counted(s)'
<1>1. rec \in GameRecord /\ rec.game \in Game /\ rec.label \in Label
  BY DEF Storable, GameRecord
<1>3. game \in [Game -> GameRecord \cup {None}] /\ bind \in [Label -> Game \cup {None}]
  BY DEF IInv, TypeOK
<1>2. /\ game' = [game EXCEPT ![rec.game] = rec]
      /\ bind' = [bind EXCEPT ![rec.label] = IF landed = 2 THEN rec.game ELSE @]
  <2>1. game' = [game EXCEPT ![rec.game] = rec]
    BY DEF StoreGame
  <2>2. CASE landed = 2
    BY <2>1, <2>2 DEF StoreGame
  <2>3. CASE landed = 1
    <3>1. bind' = bind
      BY <2>3 DEF StoreGame
    <3>2. bind = [bind EXCEPT ![rec.label] = bind[rec.label]]
      BY <1>3
    <3> QED  BY <2>1, <2>3, <3>1, <3>2
  <2> QED  BY <2>2, <2>3
<1>4. game' \in [Game -> GameRecord \cup {None}] /\ bind' \in [Label -> Game \cup {None}]
  BY <1>1, <1>2, <1>3
<1>5. rec # None
  BY <1>1, NoneAssumption
<1>6. RecordsAreReadable'
  <2> SUFFICES ASSUME NEW g \in Game, game'[g] # None
               PROVE  /\ game'[g].format \in Readable
                      /\ game'[g].game = g
                      /\ game'[g].previous # game'[g].contract
    BY DEF RecordsAreReadable
  <2>1. CASE g = rec.game
    <3>1. game'[g] = rec
      BY <1>2, <1>3, <2>1
    <3> QED  BY <2>1, <3>1 DEF Storable, Readable
  <2>2. CASE g # rec.game
    <3>1. game'[g] = game[g]
      BY <1>2, <1>3, <2>2
    <3> QED  BY <3>1 DEF IInv, RecordsAreReadable
  <2> QED  BY <2>1, <2>2
<1>7. IndexIsOwn'
  <2> SUFFICES ASSUME NEW l \in Label, bind'[l] # None
               PROVE  game'[bind'[l]] # None /\ game'[bind'[l]].label = l
    BY DEF IndexIsOwn
  <2>1. CASE landed = 2 /\ l = rec.label
    BY <1>1, <1>2, <1>3, <1>5, <2>1
  <2>2. CASE ~ (landed = 2 /\ l = rec.label)
    <3>1. bind'[l] = bind[l] /\ bind[l] \in Game
      BY <1>2, <1>3, <2>2
    <3>2. game[bind[l]] # None /\ game[bind[l]].label = l
      BY <3>1 DEF IInv, IndexIsOwn
    <3>3. CASE bind[l] = rec.game
      <4>1. rec.label = l
        BY <3>2, <3>3 DEF Storable, Succeeds
      <4> QED  BY <1>1, <1>2, <1>3, <1>5, <3>1, <3>3, <4>1
    <3>4. CASE bind[l] # rec.game
      BY <1>2, <1>3, <3>1, <3>2, <3>4
    <3> QED  BY <3>3, <3>4
  <2> QED  BY <2>1, <2>2
<1>8. ASSUME NEW s \in released
      PROVE  Counted(s)'
  <2>1. Counted(s) /\ s \in Signature /\ s.game \in Game /\ s.label \in Label /\ s.body \in Body
    BY DEF IInv, TypeOK, Signature
  <2>2. bind'[s.label] # None
    BY <1>1, <1>2, <1>3, <2>1, NoneAssumption DEF Counted
  <2>3. CASE s.game # rec.game
    <3>1. game'[s.game] = game[s.game]
      BY <1>2, <1>3, <2>1, <2>3
    <3> QED  BY <2>1, <2>2, <3>1 DEF Counted
  <2>4. CASE s.game = rec.game
    <3>1. game'[s.game] = rec
      BY <1>1, <1>2, <1>3, <2>4
    <3>2. /\ game[s.game].label = rec.label
          /\ rec.last >= game[s.game].last
          /\ rec.last = game[s.game].last => rec.hash = game[s.game].hash
      BY <2>1, <2>4 DEF Counted, Storable, Succeeds
    <3>3. s.body.ply \in Nat /\ rec.last \in Nat /\ game[s.game].last \in Nat
      <4>1. s.body \in Bodies
        BY <2>1, BodyAssumption
      <4>2. game[s.game] \in GameRecord
        BY <1>3, <2>1 DEF Counted
      <4> QED  BY <1>1, <4>1, <4>2, BodyAssumption DEF Bodies, GameRecord
    <3> QED  BY <1>5, <2>1, <2>2, <3>1, <3>2, <3>3 DEF Counted
  <2> QED  BY <2>3, <2>4
<1> QED  BY <1>1, <1>2, <1>3, <1>4, <1>6, <1>7, <1>8

\* BindGame stores the record its label is bound to, or a first one.
LEMMA BoundRecordIsStorable ==
  ASSUME IInv, NEW from \in Caller, NEW l \in Label, NEW g \in Game, NEW c \in Contract,
         MayBind(from, l, g)
  PROVE  Storable(IF Existing(l) # None THEN Existing(l) ELSE FreshRecord(from, l, g, c))
<1>1. CASE Existing(l) # None
  <2>1. bind[l] \in Game /\ Existing(l) = LoadGame(bind[l]) /\ Existing(l).label = l
        /\ Existing(l).game = bind[l]
    BY <1>1, BoundLabelLoads
  <2>2. game[bind[l]] # None
    BY <1>1, <2>1, LoadedRecord
  <2>3. Storable(LoadGame(bind[l]))
    BY <2>1, <2>2, LoadedRecord DEF Storable, Succeeds, Remembers
  <2> QED  BY <1>1, <2>1, <2>3
<1>2. CASE Existing(l) = None
  <2> DEFINE r == FreshRecord(from, l, g, c)
  <2>1. bind[l] = None
    BY <1>2, BoundLabelLoads
  <2>2. SideOf(g, KeyOf[l]) \in Sides
    BY <1>2 DEF MayBind, SideOf, Sides
  <2>3. quality[l] \in Quality \cup {None}
    BY DEF IInv, TypeOK
  <2>4. r \in GameRecord
    BY <2>2, <2>3, BodyAssumption DEF FreshRecord, GameRecord, GAME_RECORD_FORMAT, Quality
  <2>5. r.format = GAME_RECORD_FORMAT /\ r.previous # r.contract /\ r.game = g /\ r.label = l
    BY NoneAssumption DEF FreshRecord
  <2>6. game[g] # None => game[g].label = l
    BY <1>2, LoadedRecord DEF MayBind
  <2>7. Storable(r)
    BY <2>1, <2>4, <2>5, <2>6 DEF Storable, Succeeds
  <2> QED  BY <1>2, <2>7
<1> QED  BY <1>1, <1>2

\* A record under a new address may be stored.
LEMMA ReboundRecordIsStorable ==
  ASSUME IInv, NEW l \in Label, NEW c \in Contract, Existing(l) # None
  PROVE  LET r == AtContract(Existing(l), c) IN
         Storable(r) /\ r.label = Existing(l).label /\ r.origin = Existing(l).origin
<1> DEFINE e == Existing(l)
           r1 == [e EXCEPT !.contract = c]
           p == IF e.contract = c THEN e.previous ELSE e.contract
           r2 == [r1 EXCEPT !.previous = p]
<1>1. bind[l] \in Game /\ e = LoadGame(bind[l])
  BY BoundLabelLoads
<1>2. /\ game[e.game] # None /\ e \in GameRecord /\ e.format = GAME_RECORD_FORMAT
      /\ e.previous # e.contract /\ e.label = game[e.game].label
      /\ e.last = game[e.game].last /\ e.hash = game[e.game].hash /\ e.last \in Nat
      /\ LoadGame(e.game) = e
  BY <1>1, LoadedRecord
<1>3. AtContract(e, c) = r2
  BY DEF AtContract
<1> HIDE DEF e
<1>4. /\ r1 \in GameRecord /\ r1.format = e.format /\ r1.contract = c /\ r1.label = e.label
      /\ r1.origin = e.origin
      /\ r1.game = e.game /\ r1.last = e.last /\ r1.hash = e.hash
  BY <1>2 DEF GameRecord
<1>5. p \in Contract \cup {None} /\ p # c /\ p = IF c = e.contract THEN e.previous ELSE e.contract
  BY <1>2 DEF GameRecord
<1> HIDE DEF r1, p
<1>6. /\ r2 \in GameRecord /\ r2.format = r1.format /\ r2.contract = r1.contract
      /\ r2.previous = p /\ r2.label = r1.label /\ r2.origin = r1.origin
      /\ r2.game = r1.game /\ r2.last = r1.last /\ r2.hash = r1.hash
  BY <1>4, <1>5 DEF GameRecord
<1> HIDE DEF r2
<1>7. Storable(r2)
  BY <1>2, <1>4, <1>5, <1>6 DEF Storable, Succeeds, Remembers
<1> QED  BY <1>3, <1>4, <1>6, <1>7 DEF e

\* What Sign stores: the record, at the ply of the move it signs.
SignedRecord(rec, b) ==
  IF b.kind = "Move" THEN [rec EXCEPT !.last = b.ply, !.hash = b] ELSE rec

\* That record may be stored, and covers the signature.
LEMMA SignedRecordIsStorable ==
  ASSUME IInv, NEW from \in Caller, NEW g \in Game, NEW b \in Body,
         LoadGame(g) # None, MaySign(LoadGame(g), b, from)
  PROVE  LET r == SignedRecord(LoadGame(g), b) IN
         /\ Storable(r) /\ r.game = g /\ r.label = game[g].label /\ r.origin = game[g].origin
         /\ b.kind = "Move" => b.ply = r.last /\ b = r.hash
<1> DEFINE e == LoadGame(g)
           r1 == [e EXCEPT !.last = b.ply]
           r2 == [r1 EXCEPT !.hash = b]
<1>1. /\ game[g] # None /\ e \in GameRecord /\ e.format = GAME_RECORD_FORMAT
      /\ e.game = g /\ e.previous # e.contract /\ e.label = game[g].label
      /\ e.last = game[g].last /\ e.hash = game[g].hash /\ e.last \in Nat
      /\ e.origin = game[g].origin /\ LoadGame(e.game) = e
  BY LoadedRecord
<1>2. MaySign(e, b, from)
  OBVIOUS
<1>3. b \in Bodies /\ b.ply \in Nat
  BY BodyAssumption DEF Bodies
<1>4. b.kind = "Move" => SignedRecord(e, b) = r2
  BY DEF SignedRecord
<1> HIDE DEF e
<1>5. CASE b.kind = "Move"
  <2>1. b \in Moves /\ b.ply \in 0..MAX_PLY /\ b.ply >= e.last /\ (b.ply = e.last => b = e.hash)
    BY <1>1, <1>2, <1>3, <1>5, BodyAssumption DEF MaySign, Moves
  <2>2. /\ r1 \in GameRecord /\ r1.format = e.format /\ r1.contract = e.contract
        /\ r1.previous = e.previous /\ r1.label = e.label /\ r1.game = e.game /\ r1.last = b.ply
        /\ r1.origin = e.origin
    BY <1>1, <2>1 DEF GameRecord
  <2> HIDE DEF r1
  <2>3. /\ r2 \in GameRecord /\ r2.format = r1.format /\ r2.contract = r1.contract
        /\ r2.previous = r1.previous /\ r2.label = r1.label /\ r2.game = r1.game
        /\ r2.last = r1.last /\ r2.hash = b /\ r2.origin = r1.origin
    BY <2>1, <2>2 DEF GameRecord
  <2> HIDE DEF r2
  <2>4. Storable(r2)
    BY <1>1, <2>1, <2>2, <2>3 DEF Storable, Succeeds, Remembers
  <2> QED  BY <1>1, <1>4, <1>5, <2>2, <2>3, <2>4 DEF e
<1>6. CASE b.kind # "Move"
  <2>1. SignedRecord(e, b) = e
    BY <1>6 DEF SignedRecord
  <2>2. Storable(e)
    BY <1>1 DEF Storable, Succeeds, Remembers
  <2> QED  BY <1>1, <1>6, <2>1, <2>2 DEF e
<1> QED  BY <1>5, <1>6

\* A store with nothing in it, and one an earlier delegate left, are in order.
LEMMA InitIInv ==
  ASSUME Carried \subseteq Readable
  PROVE  Init => IInv
<1> SUFFICES ASSUME Init PROVE IInv
  OBVIOUS
<1>1. CASE keys = {} /\ released = {}
           /\ quality = [l \in Label |-> None]
           /\ owner = [l \in Label |-> NoOrigin]
           /\ creator = [l \in Label |-> NoOrigin]
           /\ bind = [l \in Label |-> None]
           /\ game = [g \in Game |-> None]
  BY <1>1 DEF IInv, TypeOK, RecordsAreReadable, IndexIsOwn, NoDoubleSign, Caller
<1>2. ASSUME NEW f \in Carried, NEW l \in Label, NEW g \in Game, NEW from \in Caller,
             NEW c \in Contract, NEW b \in Moves,
             LET rec == [format |-> f, label |-> l, game |-> g, side |-> SideAt(b.ply),
                         origin |-> from, contract |-> c, previous |-> None,
                         entropy |-> "HostBacked", last |-> b.ply, hash |-> b] IN
             /\ SideOf(g, KeyOf[l]) = SideAt(b.ply) /\ b.ply \in 1..MAX_PLY
             /\ keys = {l}
             /\ quality = [m \in Label |-> IF m = l THEN rec.entropy ELSE None]
             /\ owner = [m \in Label |-> IF m = l THEN from ELSE NoOrigin]
             /\ creator = owner
             /\ bind = [m \in Label |-> IF m = l THEN g ELSE None]
             /\ game = [h \in Game |-> IF h = g THEN rec ELSE None]
             /\ released = {[label |-> l, game |-> g, body |-> b, to |-> from]}
      PROVE  IInv
  <2> DEFINE rec == [format |-> f, label |-> l, game |-> g, side |-> SideAt(b.ply),
                     origin |-> from, contract |-> c, previous |-> None,
                     entropy |-> "HostBacked", last |-> b.ply, hash |-> b]
             s == [label |-> l, game |-> g, body |-> b, to |-> from]
  <2>1. b \in Body /\ b \in Bodies /\ b.kind = "Move"
    BY BodyAssumption DEF Moves
  <2>2. rec \in GameRecord
    BY <1>2, <2>1, BodyAssumption DEF GameRecord, SideAt, Sides, Quality
  <2>3. s \in Signature
    BY <2>1 DEF Signature
  <2>4. game = [h \in Game |-> IF h = g THEN rec ELSE None] /\ released = {s}
    BY <1>2
  <2>5. keys = {l} /\ quality = [m \in Label |-> IF m = l THEN "HostBacked" ELSE None]
        /\ owner = [m \in Label |-> IF m = l THEN from ELSE NoOrigin] /\ creator = owner
        /\ bind = [m \in Label |-> IF m = l THEN g ELSE None]
    BY <1>2
  <2>6. /\ rec.format = f /\ rec.label = l /\ rec.game = g /\ rec.previous = None
        /\ rec.contract = c /\ rec.last = b.ply /\ rec.hash = b
        /\ s.label = l /\ s.game = g /\ s.body = b
    OBVIOUS
  <2> HIDE DEF rec, s
  <2>7. TypeOK
    BY <2>2, <2>3, <2>4, <2>5 DEF TypeOK, Caller, Quality
  <2>8. RecordsAreReadable
    BY <2>4, <2>6, NoneAssumption DEF RecordsAreReadable
  <2>9. IndexIsOwn
    BY <2>2, <2>4, <2>5, <2>6, NoneAssumption DEF IndexIsOwn
  <2>10. Counted(s)
    <3>1. game[g] = rec /\ bind[l] = g
      BY <2>4, <2>5
    <3>2. b.ply \in Nat
      BY <2>1 DEF Bodies
    <3> QED  BY <2>2, <2>6, <3>1, <3>2, NoneAssumption DEF Counted
  <2>11. NoDoubleSign
    BY <2>4 DEF NoDoubleSign
  <2> QED  BY <2>4, <2>7, <2>8, <2>9, <2>10, <2>11 DEF IInv
<1> QED  BY <1>1, <1>2 DEF Init

\* A request that stores a record and releases nothing keeps the invariant.
LEMMA StoringKeepsIInv ==
  ASSUME IInv, NEW rec, Storable(rec), NEW landed \in 1..2, StoreGame(rec, landed),
         UNCHANGED <<keys, quality, owner, creator, released>>
  PROVE  IInv'
<1>1. /\ game' \in [Game -> GameRecord \cup {None}]
      /\ bind' \in [Label -> Game \cup {None}]
      /\ RecordsAreReadable' /\ IndexIsOwn' /\ \A s \in released : Counted(s)'
  BY StoreKeepsOrder
<1>2. TypeOK'
  BY <1>1 DEF IInv, TypeOK
<1>3. NoDoubleSign'
  BY DEF IInv, NoDoubleSign
<1> QED  BY <1>1, <1>2, <1>3 DEF IInv

\* Every request keeps the invariant, wherever it ends.
LEMMA NextIInv == IInv /\ [Next]_vars => IInv'
<1> SUFFICES ASSUME IInv, [Next]_vars PROVE IInv'
  OBVIOUS
<1>1. CASE UNCHANGED vars
  BY <1>1 DEF IInv, TypeOK, RecordsAreReadable, IndexIsOwn, Counted, NoDoubleSign, vars
<1>2. ASSUME NEW from \in Caller, NEW l \in Label, NEW host \in BOOLEAN, NEW given \in BOOLEAN,
             NEW landed \in Landed("CreateGameKey", 3),
             CreateGameKey(from, l, host, given, landed)
      PROVE  IInv'
  <2>1. TypeOK'
    BY <1>2 DEF IInv, TypeOK, CreateGameKey, Quality
  <2>2. UNCHANGED <<bind, game, released>>
    BY <1>2 DEF CreateGameKey
  <2> QED  BY <2>1, <2>2 DEF IInv, RecordsAreReadable, IndexIsOwn, Counted, NoDoubleSign
<1>3. ASSUME NEW from \in Caller, NEW l \in Label, NEW g \in Game, NEW c \in Contract,
             NEW landed \in Landed("BindGame", 2), BindGame(from, l, g, c, landed)
      PROVE  IInv'
  <2>1. landed \in 1..2
    BY DEF Landed
  <2> QED  BY <1>3, <2>1, BoundRecordIsStorable, StoringKeepsIInv DEF BindGame
<1>4. ASSUME NEW from \in Caller, NEW l \in Label, NEW c \in Contract,
             NEW landed \in Landed("Rebind", 2), Rebind(from, l, c, landed)
      PROVE  IInv'
  <2>1. landed \in 1..2
    BY DEF Landed
  <2> QED  BY <1>4, <2>1, ReboundRecordIsStorable, StoringKeepsIInv DEF Rebind
<1>5. ASSUME NEW from \in Caller, NEW g \in Game, NEW b \in Body,
             NEW landed \in Landed("Sign", 2), Sign(from, g, b, landed)
      PROVE  IInv'
  <2> PICK r : r = SignedRecord(LoadGame(g), b)
    OBVIOUS
  <2> PICK s : s = [label |-> LoadGame(g).label, game |-> LoadGame(g).game,
                    body |-> b, to |-> from]
    OBVIOUS
  <2>1. landed \in 1..2
    BY DEF Landed
  <2>2. LoadGame(g) # None /\ MaySign(LoadGame(g), b, from) /\ StoreGame(r, landed)
        /\ Release(LoadGame(g), b, from, landed) /\ UNCHANGED <<keys, quality, owner, creator>>
    BY <1>5 DEF Sign, SignedRecord
  <2>3. /\ game[g] # None /\ LoadGame(g).label = game[g].label /\ LoadGame(g).game = g
        /\ LoadGame(g).last = game[g].last /\ LoadGame(g).hash = game[g].hash
        /\ game[g] \in GameRecord
        /\ game[g].last \in Nat
    BY <2>2, LoadedRecord
  <2>4. Storable(r) /\ r.game = g /\ r.label = game[g].label
        /\ (b.kind = "Move" => b.ply = r.last /\ b = r.hash)
    BY <2>2, SignedRecordIsStorable
  <2>5. s.label = game[g].label /\ s.game = g /\ s.body = b /\ s \in Signature
    BY <2>3 DEF Signature, GameRecord
  <2>6. released' = IF landed = 2 THEN released \cup {s} ELSE released
    BY <2>2 DEF Release
  <2>7. MaySign(LoadGame(g), b, from)
    BY <2>2
  <2>8. /\ game' \in [Game -> GameRecord \cup {None}]
        /\ bind' \in [Label -> Game \cup {None}]
        /\ game' = [game EXCEPT ![r.game] = r]
        /\ landed = 2 => bind'[r.label] = r.game
        /\ RecordsAreReadable' /\ IndexIsOwn' /\ \A t \in released : Counted(t)'
    BY <2>1, <2>2, <2>4, StoreKeepsOrder
  <2>9. TypeOK'
    BY <2>2, <2>5, <2>6, <2>8 DEF IInv, TypeOK
  <2>10. landed = 2 => Counted(s)'
    <3>1. game'[g] = r /\ r # None
      <4>1. game \in [Game -> GameRecord \cup {None}]
        BY DEF IInv, TypeOK
      <4>2. r \in GameRecord
        BY <2>4 DEF Storable
      <4> QED  BY <2>4, <2>8, <4>1, <4>2, NoneAssumption
    <3>2. r.last \in Nat
      BY <2>4, BodyAssumption DEF Storable, GameRecord
    <3> QED  BY <2>4, <2>5, <2>8, <3>1, <3>2, NoneAssumption DEF Counted
  <2>11. NoDoubleSign'
    <3>1. ASSUME NEW t \in released, t.game = s.game, t.label = s.label,
                 t.body.kind = "Move", b.kind = "Move", t.body.ply = b.ply
          PROVE  t.body = b
      <4>1. Counted(t)
        BY DEF IInv
      <4>2. b.ply \in Nat
        BY BodyAssumption DEF Bodies
      <4>3. t.body.ply <= game[g].last /\ (t.body.ply = game[g].last => t.body = game[g].hash)
        BY <2>5, <3>1, <4>1 DEF Counted
      <4>4. b.ply > game[g].last \/ (b.ply = game[g].last /\ b = game[g].hash)
        <5> DEFINE e == LoadGame(g)
        <5>1. MaySign(e, b, from) /\ e.last = game[g].last /\ e.hash = game[g].hash
          BY <2>3, <2>7
        <5> HIDE DEF e
        <5> QED  BY <3>1, <5>1 DEF MaySign
      <4> QED  BY <2>3, <3>1, <4>2, <4>3, <4>4
    <3>2. \A t, u \in released :
            /\ t.game = u.game /\ t.label = u.label
            /\ t.body.kind = "Move" /\ u.body.kind = "Move" /\ t.body.ply = u.body.ply
            => t.body = u.body
      BY DEF IInv, NoDoubleSign
    <3>3. ASSUME NEW t \in released \cup {s}, NEW u \in released \cup {s},
                 t.game = u.game, t.label = u.label, t.body.kind = "Move",
                 u.body.kind = "Move", t.body.ply = u.body.ply
          PROVE  t.body = u.body
      <4>1. CASE t \in released /\ u \in released
        BY <3>2, <3>3, <4>1
      <4>2. CASE t \in released /\ u = s
        BY <2>5, <3>1, <3>3, <4>2
      <4>3. CASE t = s /\ u \in released
        BY <2>5, <3>1, <3>3, <4>3
      <4>4. CASE t = s /\ u = s
        BY <4>4
      <4> QED  BY <4>1, <4>2, <4>3, <4>4
    <3>4. released' \subseteq released \cup {s}
      BY <2>6
    <3> QED  BY <3>3, <3>4 DEF NoDoubleSign
  <2> QED  BY <2>6, <2>8, <2>9, <2>10, <2>11 DEF IInv
<1> QED  BY <1>1, <1>2, <1>3, <1>4, <1>5 DEF Next

\* The strengthened invariant holds for a store this delegate can read.
THEOREM DelegateInvariant ==
  ASSUME Carried \subseteq Readable
  PROVE  Spec => []IInv
<1>1. Init => IInv
  BY InitIInv
<1> QED  BY <1>1, NextIInv, PTL DEF Spec

\* Every secret and every record keeps its type.
THEOREM DelegateTypeCorrect ==
  ASSUME Carried \subseteq Readable
  PROVE  Spec => []TypeOK
<1>1. IInv => TypeOK
  BY DEF IInv
<1> QED  BY <1>1, DelegateInvariant, PTL

\* The delegate never hands its player two moves for one ply.
THEOREM NeverSignsTwice ==
  ASSUME Carried \subseteq Readable
  PROVE  Spec => []NoDoubleSign
<1>1. IInv => NoDoubleSign
  BY DEF IInv
<1> QED  BY <1>1, DelegateInvariant, PTL

\* The index of a bound label leads to a readable record of that label.
THEOREM IndexIsSound ==
  ASSUME Carried \subseteq Readable
  PROVE  Spec => []IndexLeadsToOwnGame
<1>1. IInv => IndexLeadsToOwnGame
  <2> SUFFICES ASSUME IInv, NEW l \in Label, bind[l] # None
               PROVE  LoadGame(bind[l]) # None /\ LoadGame(bind[l]).label = l
    BY DEF IndexLeadsToOwnGame
  <2>1. Existing(l) # None
    BY BoundLabelLoads
  <2> QED  BY <2>1, BoundLabelLoads
<1> QED  BY <1>1, DelegateInvariant, PTL

\* Whatever a request stores, it stores one record that may be stored.
LEMMA StepStores ==
  ASSUME IInv, Next
  PROVE  \/ UNCHANGED game
         \/ \E rec : Storable(rec) /\ game' = [game EXCEPT ![rec.game] = rec]
<1>1. ASSUME NEW from \in Caller, NEW l \in Label, NEW host \in BOOLEAN, NEW given \in BOOLEAN,
             NEW landed \in Landed("CreateGameKey", 3),
             CreateGameKey(from, l, host, given, landed)
      PROVE  UNCHANGED game
  BY <1>1 DEF CreateGameKey
<1>2. ASSUME NEW from \in Caller, NEW l \in Label, NEW g \in Game, NEW c \in Contract,
             NEW landed \in Landed("BindGame", 2), BindGame(from, l, g, c, landed)
      PROVE  \E rec : Storable(rec) /\ game' = [game EXCEPT ![rec.game] = rec]
  <2>1. landed \in 1..2
    BY DEF Landed
  <2> QED  BY <1>2, <2>1, BoundRecordIsStorable DEF BindGame, StoreGame
<1>3. ASSUME NEW from \in Caller, NEW l \in Label, NEW c \in Contract,
             NEW landed \in Landed("Rebind", 2), Rebind(from, l, c, landed)
      PROVE  \E rec : Storable(rec) /\ game' = [game EXCEPT ![rec.game] = rec]
  <2> PICK r : r = AtContract(Existing(l), c)
    OBVIOUS
  <2>1. landed \in 1..2
    BY DEF Landed
  <2>2. Existing(l) # None /\ Existing(l).label = l /\ StoreGame(r, landed)
    BY <1>3 DEF Rebind
  <2>3. Storable(r)
    BY <1>3, <2>2, ReboundRecordIsStorable
  <2>4. game' = [game EXCEPT ![r.game] = r]
    BY <2>1, <2>2 DEF StoreGame
  <2> QED  BY <2>3, <2>4
<1>4. ASSUME NEW from \in Caller, NEW g \in Game, NEW b \in Body,
             NEW landed \in Landed("Sign", 2), Sign(from, g, b, landed)
      PROVE  \E rec : Storable(rec) /\ game' = [game EXCEPT ![rec.game] = rec]
  <2>1. landed \in 1..2
    BY DEF Landed
  <2> PICK r : r = SignedRecord(LoadGame(g), b)
    OBVIOUS
  <2>2. LoadGame(g) # None /\ MaySign(LoadGame(g), b, from) /\ StoreGame(r, landed)
    BY <1>4 DEF Sign, SignedRecord
  <2>3. Storable(r)
    BY <1>4, <2>2, SignedRecordIsStorable
  <2>4. game' = [game EXCEPT ![r.game] = r]
    BY <2>1, <2>2 DEF StoreGame
  <2> QED  BY <2>3, <2>4
<1> QED  BY <1>1, <1>2, <1>3, <1>4 DEF Next

\* The counter of a bound game never goes back, and at one ply the move it stands
\* at is never replaced.
THEOREM GuardHolds ==
  ASSUME Carried \subseteq Readable
  PROVE  Spec => GuardNeverResets
<1>1. ASSUME IInv, [Next]_vars
      PROVE  [GuardAdvances]_vars
  <2>1. ASSUME Next PROVE GuardAdvances
    <3> SUFFICES ASSUME NEW g \in Game, game[g] # None, bind[game[g].label] # None
                 PROVE  /\ game'[g].last >= game[g].last
                        /\ game'[g].last = game[g].last => game'[g].hash = game[g].hash
      BY DEF GuardAdvances
    <3>1. game[g] \in GameRecord /\ game[g].last \in Nat /\ game \in [Game -> GameRecord \cup {None}]
      BY <1>1, BodyAssumption DEF IInv, TypeOK, GameRecord
    <3>2. CASE UNCHANGED game
      BY <3>1, <3>2
    <3>3. ASSUME NEW rec, Storable(rec), game' = [game EXCEPT ![rec.game] = rec]
          PROVE  /\ game'[g].last >= game[g].last
                 /\ game'[g].last = game[g].last => game'[g].hash = game[g].hash
      <4>1. CASE rec.game = g
        <5>1. game'[g] = rec
          BY <3>1, <3>3, <4>1
        <5> QED  BY <3>3, <4>1, <5>1 DEF Storable, Succeeds
      <4>2. CASE rec.game # g
        <5>1. game'[g] = game[g]
          BY <3>1, <3>3, <4>2
        <5> QED  BY <3>1, <5>1
      <4> QED  BY <4>1, <4>2
    <3> QED  BY <1>1, <2>1, <3>2, <3>3, StepStores
  <2> QED  BY <1>1, <2>1
<1> QED  BY <1>1, DelegateInvariant, PTL DEF Spec, GuardNeverResets

\* What a request stores is read back as it is.
LEMMA ReadBack ==
  ASSUME IInv, NEW rec, Storable(rec), game' = [game EXCEPT ![rec.game] = rec]
  PROVE  LoadGame(rec.game)' = rec
<1>1. rec \in GameRecord /\ rec.game \in Game /\ rec # None /\ rec.format = GAME_RECORD_FORMAT
  BY NoneAssumption DEF Storable, GameRecord
<1>2. game'[rec.game] = rec
  BY <1>1 DEF IInv, TypeOK
<1> QED  BY <1>1, <1>2 DEF LoadGame, MigrateRecord

\* A bound game keeps the address it left, over every request, half-done or whole, and
\* never takes its own for it.
THEOREM PreviousIsKept ==
  ASSUME Carried \subseteq Readable
  PROVE  Spec => OldAddressIsKept
<1>1. ASSUME IInv, [Next]_vars
      PROVE  [AddressKept]_vars
  <2>1. ASSUME Next PROVE AddressKept
    <3> SUFFICES ASSUME NEW g \in Game, game[g] # None, bind[game[g].label] # None
                 PROVE  /\ Remembers(LoadGame(g)', LoadGame(g))
                        /\ LoadGame(g)'.previous # LoadGame(g)'.contract
      BY DEF AddressKept, Remembers
    <3>1. game \in [Game -> GameRecord \cup {None}]
      BY <1>1 DEF IInv, TypeOK
    <3>2. ASSUME game'[g] = game[g]
          PROVE  /\ Remembers(LoadGame(g)', LoadGame(g))
                 /\ LoadGame(g)'.previous # LoadGame(g)'.contract
      <4>1. LoadGame(g)' = LoadGame(g)
        BY <3>2 DEF LoadGame
      <4> QED  BY <1>1, <4>1, LoadedRecord DEF Remembers
    <3>3. ASSUME NEW rec, Storable(rec), game' = [game EXCEPT ![rec.game] = rec]
          PROVE  /\ Remembers(LoadGame(g)', LoadGame(g))
                 /\ LoadGame(g)'.previous # LoadGame(g)'.contract
      <4>1. CASE rec.game = g
        BY <1>1, <3>3, <4>1, ReadBack DEF Storable, Succeeds
      <4>2. CASE rec.game # g
        BY <3>1, <3>2, <3>3, <4>2
      <4> QED  BY <4>1, <4>2
    <3> QED  BY <1>1, <2>1, <3>2, <3>3, StepStores
  <2> QED  BY <1>1, <2>1
<1> QED  BY <1>1, DelegateInvariant, PTL DEF Spec, OldAddressIsKept

\* The owner on record is the creator, and so is whoever bound a game.
CreatorsOwn ==
  /\ \A l \in keys : owner[l] = creator[l]
  /\ \A g \in Game : game[g] # None =>
       /\ game[g].label \in keys
       /\ game[g].origin = creator[game[g].label]
  /\ OnlyTheCreatorSigns

\* A request that stores a record of its owner's keeps that.
LEMMA StoringKeepsOwners ==
  ASSUME TypeOK, CreatorsOwn, NEW rec \in GameRecord,
         rec.label \in keys, rec.origin = creator[rec.label],
         game' = [game EXCEPT ![rec.game] = rec],
         UNCHANGED <<keys, owner, creator>>
  PROVE  /\ \A l \in keys' : owner'[l] = creator'[l]
         /\ \A g \in Game : game'[g] # None =>
              /\ game'[g].label \in keys'
              /\ game'[g].origin = creator'[game'[g].label]
<1>1. game \in [Game -> GameRecord \cup {None}] /\ rec.game \in Game
  BY DEF TypeOK, GameRecord
<1>2. ASSUME NEW g \in Game, game'[g] # None
      PROVE  game'[g].label \in keys /\ game'[g].origin = creator[game'[g].label]
  <2>1. CASE g = rec.game
    <3>1. game'[g] = rec
      BY <1>1, <2>1
    <3> QED  BY <3>1
  <2>2. CASE g # rec.game
    <3>1. game'[g] = game[g]
      BY <1>1, <2>2
    <3> QED  BY <1>2, <3>1 DEF CreatorsOwn
  <2> QED  BY <2>1, <2>2
<1> QED  BY <1>2 DEF CreatorsOwn

\* When no write of CreateGameKey fails, only the caller that had a key created is
\* handed its signatures.
THEOREM CreatorsAlone ==
  ASSUME Carried \subseteq Readable, "CreateGameKey" \notin Faulty
  PROVE  Spec => []OnlyTheCreatorSigns
<1>1. Init => CreatorsOwn
  BY DEF Init, CreatorsOwn, OnlyTheCreatorSigns
<1>2. ASSUME IInv, CreatorsOwn, [Next]_vars
      PROVE  CreatorsOwn'
  <2>1. CASE UNCHANGED vars
    BY <1>2, <2>1 DEF CreatorsOwn, OnlyTheCreatorSigns, vars
  <2>2. ASSUME NEW from \in Caller, NEW l \in Label, NEW host \in BOOLEAN, NEW given \in BOOLEAN,
               NEW landed \in Landed("CreateGameKey", 3),
               CreateGameKey(from, l, host, given, landed)
        PROVE  CreatorsOwn'
    <3>1. landed = 3
      BY DEF Landed
    <3>2. /\ l \notin keys /\ keys' = keys \cup {l}
          /\ owner' = [owner EXCEPT ![l] = from] /\ creator' = [creator EXCEPT ![l] = from]
          /\ UNCHANGED <<bind, game, released>>
      BY <2>2, <3>1 DEF CreateGameKey
    <3>3. owner \in [Label -> Caller] /\ creator \in [Label -> Caller] /\ keys \subseteq Label
      BY <1>2 DEF IInv, TypeOK
    <3>4. \A m \in keys' : owner'[m] = creator'[m]
      BY <1>2, <3>2, <3>3 DEF CreatorsOwn
    <3>5. \A m \in keys : creator'[m] = creator[m]
      BY <3>2, <3>3
    <3>6. ASSUME NEW s \in released
          PROVE  s.to = creator'[s.label]
      <4>1. Counted(s) /\ s.game \in Game /\ s.to = creator[s.label]
        BY <1>2 DEF IInv, TypeOK, Signature, CreatorsOwn, OnlyTheCreatorSigns
      <4>2. s.label \in keys
        BY <1>2, <4>1 DEF Counted, CreatorsOwn
      <4> QED  BY <3>5, <4>1, <4>2
    <3>7. \A g \in Game : game[g] # None => /\ game[g].label \in keys'
                                           /\ game[g].origin = creator'[game[g].label]
      BY <1>2, <3>2, <3>5 DEF CreatorsOwn
    <3> QED  BY <3>2, <3>4, <3>6, <3>7 DEF CreatorsOwn, OnlyTheCreatorSigns
  <2>3. ASSUME NEW from \in Caller, NEW l \in Label, NEW g \in Game, NEW c \in Contract,
               NEW landed \in Landed("BindGame", 2), BindGame(from, l, g, c, landed)
        PROVE  CreatorsOwn'
    <3> PICK r : r = IF Existing(l) # None THEN Existing(l) ELSE FreshRecord(from, l, g, c)
      OBVIOUS
    <3>1. landed \in 1..2
      BY DEF Landed
    <3>2. /\ MayBind(from, l, g) /\ StoreGame(r, landed)
          /\ UNCHANGED <<keys, quality, owner, creator, released>>
      BY <2>3 DEF BindGame
    <3>3. r \in GameRecord
      BY <1>2, <3>2, BoundRecordIsStorable DEF Storable
    <3>4. l \in keys /\ owner[l] = from /\ creator[l] = from
      BY <1>2, <3>2 DEF MayBind, CreatorsOwn
    <3>5. r.label = l /\ r.origin = from
      <4>1. CASE Existing(l) # None
        BY <1>2, <3>2, <4>1, BoundLabelLoads DEF MayBind
      <4>2. CASE Existing(l) = None
        BY <4>2 DEF FreshRecord
      <4> QED  BY <4>1, <4>2
    <3>6. game' = [game EXCEPT ![r.game] = r]
      BY <3>1, <3>2 DEF StoreGame
    <3> QED  BY <1>2, <3>2, <3>3, <3>4, <3>5, <3>6, StoringKeepsOwners
             DEF CreatorsOwn, OnlyTheCreatorSigns, IInv
  <2>4. ASSUME NEW from \in Caller, NEW l \in Label, NEW c \in Contract,
               NEW landed \in Landed("Rebind", 2), Rebind(from, l, c, landed)
        PROVE  CreatorsOwn'
    <3> PICK r : r = AtContract(Existing(l), c)
      OBVIOUS
    <3>1. landed \in 1..2
      BY DEF Landed
    <3>2. /\ Existing(l) # None /\ Existing(l).label = l /\ StoreGame(r, landed)
          /\ UNCHANGED <<keys, quality, owner, creator, released>>
      BY <2>4 DEF Rebind
    <3>3. r \in GameRecord /\ r.label = l /\ r.origin = Existing(l).origin
      BY <1>2, <3>2, ReboundRecordIsStorable DEF Storable
    <3>4. bind[l] \in Game /\ Existing(l) = LoadGame(bind[l])
      BY <1>2, <3>2, BoundLabelLoads
    <3>5. game[bind[l]] # None /\ game[bind[l]].label = l /\ game[bind[l]].origin = r.origin
      BY <1>2, <3>2, <3>3, <3>4, LoadedRecord
    <3>6. l \in keys /\ r.origin = creator[l]
      BY <1>2, <3>4, <3>5 DEF CreatorsOwn
    <3>7. game' = [game EXCEPT ![r.game] = r]
      BY <3>1, <3>2 DEF StoreGame
    <3> QED  BY <1>2, <3>2, <3>3, <3>6, <3>7, StoringKeepsOwners
             DEF CreatorsOwn, OnlyTheCreatorSigns, IInv
  <2>5. ASSUME NEW from \in Caller, NEW g \in Game, NEW b \in Body,
               NEW landed \in Landed("Sign", 2), Sign(from, g, b, landed)
        PROVE  CreatorsOwn'
    <3> PICK r : r = SignedRecord(LoadGame(g), b)
      OBVIOUS
    <3>1. landed \in 1..2
      BY DEF Landed
    <3>2. /\ LoadGame(g) # None /\ MaySign(LoadGame(g), b, from) /\ StoreGame(r, landed)
          /\ Release(LoadGame(g), b, from, landed)
          /\ UNCHANGED <<keys, quality, owner, creator>>
      BY <2>5 DEF Sign, SignedRecord
    <3>3. /\ game[g] # None /\ LoadGame(g).label = game[g].label
          /\ LoadGame(g).origin = game[g].origin
      BY <1>2, <3>2, LoadedRecord
    <3>4. r \in GameRecord /\ r.label = game[g].label /\ r.origin = game[g].origin
      BY <1>2, <3>2, SignedRecordIsStorable DEF Storable
    <3>5. r.label \in keys /\ r.origin = creator[r.label]
      BY <1>2, <3>3, <3>4 DEF CreatorsOwn
    <3>6. game' = [game EXCEPT ![r.game] = r]
      BY <3>1, <3>2 DEF StoreGame
    <3>7. from = LoadGame(g).origin
      BY <3>2 DEF MaySign
    <3>8. OnlyTheCreatorSigns'
      BY <1>2, <3>2, <3>3, <3>4, <3>5, <3>7 DEF Release, CreatorsOwn, OnlyTheCreatorSigns
    <3> QED  BY <1>2, <3>2, <3>4, <3>5, <3>6, <3>8, StoringKeepsOwners
             DEF CreatorsOwn, IInv
  <2> QED  BY <1>2, <2>1, <2>2, <2>3, <2>4, <2>5 DEF Next
<1>3. CreatorsOwn => OnlyTheCreatorSigns
  BY DEF CreatorsOwn
<1> QED  BY <1>1, <1>2, <1>3, DelegateInvariant, PTL DEF Spec
=============================================================================
