------------------------------ MODULE Delegate ------------------------------
(***************************************************************************)
(* The delegate that keeps a player's signing keys                         *)
(* (delegates/adjourn-delegate/src, common/src/delegate_policy.rs).        *)
(*                                                                         *)
(* Its only memory is a store of secrets written one at a time, and any    *)
(* write may fail, or the process end, after those before it have landed.  *)
(* One request at a time runs to its reply; a refusal changes nothing and  *)
(* is a stuttering step, unless a write failed half way.                   *)
(***************************************************************************)
EXTENDS Integers, FiniteSets

CONSTANTS
  Label,      \* the names a user gives to games
  Game,       \* game ids: each is the hash of the game's parameters
  PubKey,     \* public keys, the opponents' too
  KeyOf,      \* the public key created for each label
  White,      \* the key that plays White in each game
  Black,      \* the key that plays Black
  Origin,     \* the web apps that call
  NoOrigin,   \* a caller of whom nothing is attested
  Contract,   \* contract instance ids
  Body,       \* what can be asked to be signed
  MAX_PLY,    \* the largest ply a record may carry
  Carried,    \* formats of the records an earlier delegate may have left
  Faulty,     \* the requests in which a write may fail
  None        \* no value

Requests == {"CreateGameKey", "BindGame", "Rebind", "Sign"}
Sides == {"White", "Black"}
Quality == {"HostBacked", "Degraded"}
Caller == Origin \cup {NoOrigin}
Bodies == [kind : {"Move", "Resign", "DrawOffer", "DrawAccept", "DrawClaim"},
           ply : Nat, text : Nat]
Moves == {b \in Body : b.kind = "Move"}

\* The layout this delegate writes, and the older one it can read.
GAME_RECORD_FORMAT == 3
Readable == {2, GAME_RECORD_FORMAT}

\* What is stored of a game.  hash stands for the body it is the hash of.
GameRecord ==
  [format : Nat, label : Label, game : Game, side : Sides, origin : Caller,
   contract : Contract, previous : Contract \cup {None}, entropy : Quality,
   last : 0..MAX_PLY, hash : Moves \cup {None}]

Signature == [label : Label, game : Game, body : Body, to : Caller]

ASSUME BodyAssumption == Body \subseteq Bodies /\ MAX_PLY \in Nat /\ Carried \subseteq Nat
ASSUME KeyAssumption ==
  /\ KeyOf \in [Label -> PubKey]
  /\ White \in [Game -> PubKey] /\ Black \in [Game -> PubKey]
ASSUME NoneAssumption == None \notin GameRecord \cup Label \cup Game \cup Body \cup Contract
ASSUME FaultyAssumption == Faulty \subseteq Requests /\ NoOrigin \notin Origin

VARIABLES
  keys,      \* chess/key: the labels that have a key
  quality,   \* chess/quality: the entropy a label's key was made with
  owner,     \* chess/owner: the web app that created a label's key
  bind,      \* chess/bind: the game a label is bound to
  game,      \* chess/game: what is recorded of each game
  creator,   \* history: the caller that created each label's key
  released   \* history: the signatures handed out, and to whom

vars == <<keys, quality, owner, bind, game, creator, released>>

\* The side a key plays in a game, and the side that moves at a ply.
SideOf(g, key) ==
  IF key = White[g] THEN "White" ELSE IF key = Black[g] THEN "Black" ELSE None

SideAt(ply) == IF ply % 2 = 1 THEN "White" ELSE "Black"

\* migrate_record: shapes that are known are brought up to date, others refused.
MigrateRecord(rec) ==
  IF rec.format = GAME_RECORD_FORMAT THEN rec
  ELSE IF rec.format = 2 THEN [rec EXCEPT !.format = GAME_RECORD_FORMAT, !.previous = None]
  ELSE None

LoadGame(g) == IF game[g] = None THEN None ELSE MigrateRecord(game[g])

\* A slip: a bind starts from nothing, whatever the label is bound to.
NothingYet(l) == None

\* The record of the game a label is bound to.
Existing(l) == IF bind[l] = None THEN None ELSE LoadGame(bind[l])

\* A slip: the index first, and then the record.
StoreIndexFirst(rec, landed) ==
  /\ bind' = IF landed >= 1 THEN [bind EXCEPT ![rec.label] = rec.game] ELSE bind
  /\ game' = IF landed = 2 THEN [game EXCEPT ![rec.game] = rec] ELSE game

\* store_game: the record, then the index from label to game.
StoreGame(rec, landed) ==
  /\ game' = IF landed >= 1 THEN [game EXCEPT ![rec.game] = rec] ELSE game
  /\ bind' = IF landed = 2 THEN [bind EXCEPT ![rec.label] = rec.game] ELSE bind

\* How many of a request's writes land.  If none does, nothing has happened.
Landed(request, writes) == IF request \in Faulty THEN 1..writes ELSE {writes}
-----------------------------------------------------------------------------
\* The store is new, or holds what an earlier delegate left: one bound game,
\* in which it signed a move.
Init ==
  \/ /\ keys = {} /\ released = {}
     /\ quality = [l \in Label |-> None]
     /\ owner = [l \in Label |-> NoOrigin]
     /\ creator = [l \in Label |-> NoOrigin]
     /\ bind = [l \in Label |-> None]
     /\ game = [g \in Game |-> None]
  \/ \E f \in Carried, l \in Label, g \in Game, from \in Caller, c \in Contract, b \in Moves :
     LET rec == [format |-> f, label |-> l, game |-> g, side |-> SideAt(b.ply),
                 origin |-> from, contract |-> c, previous |-> None,
                 entropy |-> "HostBacked", last |-> b.ply, hash |-> b] IN
       /\ SideOf(g, KeyOf[l]) = SideAt(b.ply) /\ b.ply \in 1..MAX_PLY
       /\ keys = {l}
       /\ quality = [m \in Label |-> IF m = l THEN rec.entropy ELSE None]
       /\ owner = [m \in Label |-> IF m = l THEN from ELSE NoOrigin]
       /\ creator = owner
       /\ bind = [m \in Label |-> IF m = l THEN g ELSE None]
       /\ game = [h \in Game |-> IF h = g THEN rec ELSE None]
       /\ released = {[label |-> l, game |-> g, body |-> b, to |-> from]}

(***************************************************************************)
(* CreateGameKey.  host and given say whether the host's randomness is     *)
(* usable and whether the caller brought some; one of them is needed.  A   *)
(* caller without an origin writes no owner.                               *)
(***************************************************************************)
CreateGameKey(from, l, host, given, landed) ==
  /\ l \notin keys
  /\ host \/ given
  /\ keys' = keys \cup {l}
  /\ quality' = IF landed >= 2
                THEN [quality EXCEPT ![l] = IF host THEN "HostBacked" ELSE "Degraded"]
                ELSE quality
  /\ owner' = IF landed = 3 THEN [owner EXCEPT ![l] = from] ELSE owner
  /\ creator' = [creator EXCEPT ![l] = from]
  /\ UNCHANGED <<bind, game, released>>

\* A slip: anyone may bind a label that has a key.
MayBindAny(from, l, g) ==
  /\ l \in keys
  /\ Existing(l) # None => Existing(l).game = g
  /\ Existing(l) = None => SideOf(g, KeyOf[l]) # None

\* The label is the caller's own, it is bound to no other game, no other label
\* has this one, and its key plays in it.
MayBind(from, l, g) ==
  /\ l \in keys
  /\ owner[l] = from
  /\ Existing(l) # None => Existing(l).origin = from /\ Existing(l).game = g
  /\ Existing(l) = None => /\ LoadGame(g) # None => LoadGame(g).label = l
                           /\ SideOf(g, KeyOf[l]) # None

FreshRecord(from, l, g, c) ==
  [format |-> GAME_RECORD_FORMAT, label |-> l, game |-> g, side |-> SideOf(g, KeyOf[l]),
   origin |-> from, contract |-> c, previous |-> None,
   entropy |-> IF quality[l] = None THEN "Degraded" ELSE quality[l],
   last |-> 0, hash |-> None]

BindGame(from, l, g, c, landed) ==
  /\ MayBind(from, l, g)
  /\ StoreGame(IF Existing(l) # None THEN Existing(l) ELSE FreshRecord(from, l, g, c),
               landed)
  /\ UNCHANGED <<keys, quality, owner, creator, released>>

\* A slip: there is an address left only if this is another one.
AtContractForgets(rec, c) ==
  [rec EXCEPT !.contract = c,
              !.previous = IF rec.contract = c THEN None ELSE rec.contract]

\* The record under a new address.  The address it had is kept, unless the two
\* are the same.
AtContract(rec, c) ==
  [rec EXCEPT !.contract = c,
              !.previous = IF rec.contract = c THEN @ ELSE rec.contract]

Rebind(from, l, c, landed) ==
  /\ Existing(l) # None
  /\ Existing(l).origin = from /\ Existing(l).label = l
  /\ StoreGame(AtContract(Existing(l), c), landed)
  /\ UNCHANGED <<keys, quality, owner, creator, released>>

\* Slips: a move at the last ply is taken for a retry whatever it says, and the cap
\* is forgotten.
MaySignSamePly(rec, b, from) ==
  /\ rec.origin = from
  /\ b.kind = "Move" => /\ b.ply <= MAX_PLY
                        /\ SideAt(b.ply) = rec.side
                        /\ b.ply >= rec.last
MaySignUncapped(rec, b, from) ==
  /\ rec.origin = from
  /\ b.kind = "Move" => /\ SideAt(b.ply) = rec.side
                        /\ b.ply > rec.last \/ (b.ply = rec.last /\ rec.last # 0 /\ b = rec.hash)

\* decide_sign: a move is signed above the last signed ply, and at that ply only
\* if it is the move signed there.  Other statements may always be signed.
MaySign(rec, b, from) ==
  /\ rec.origin = from
  /\ b.kind = "Move" => /\ b.ply <= MAX_PLY
                        /\ SideAt(b.ply) = rec.side
                        /\ b.ply > rec.last \/ (b.ply = rec.last /\ rec.last # 0 /\ b = rec.hash)

\* The signature goes out only once everything has been stored.
Release(rec, b, from, landed) ==
  released' = IF landed = 2
              THEN released \cup {[label |-> rec.label, game |-> rec.game,
                                   body |-> b, to |-> from]}
              ELSE released

(***************************************************************************)
(* Sign.  The check against the local replica is best effort: it may refuse *)
(* a move whatever the store says, and a refusal changes nothing.          *)
(***************************************************************************)
Sign(from, g, b, landed) ==
  LET rec == LoadGame(g) IN
  /\ rec # None
  /\ rec.label \in keys
  /\ MaySign(rec, b, from)
  /\ StoreGame(IF b.kind = "Move" THEN [rec EXCEPT !.last = b.ply, !.hash = b] ELSE rec,
               landed)
  /\ Release(rec, b, from, landed)
  /\ UNCHANGED <<keys, quality, owner, creator>>

Next ==
  \/ \E from \in Caller, l \in Label, host, given \in BOOLEAN :
       \E landed \in Landed("CreateGameKey", 3) : CreateGameKey(from, l, host, given, landed)
  \/ \E from \in Caller, l \in Label, g \in Game, c \in Contract :
       \E landed \in Landed("BindGame", 2) : BindGame(from, l, g, c, landed)
  \/ \E from \in Caller, l \in Label, c \in Contract :
       \E landed \in Landed("Rebind", 2) : Rebind(from, l, c, landed)
  \/ \E from \in Caller, g \in Game, b \in Body :
       \E landed \in Landed("Sign", 2) : Sign(from, g, b, landed)

Spec == Init /\ [][Next]_vars
-----------------------------------------------------------------------------
TypeOK ==
  /\ keys \subseteq Label
  /\ quality \in [Label -> Quality \cup {None}]
  /\ owner \in [Label -> Caller]
  /\ bind \in [Label -> Game \cup {None}]
  /\ game \in [Game -> GameRecord \cup {None}]
  /\ creator \in [Label -> Caller]
  /\ released \subseteq Signature

\* The player is never handed two moves for one ply of a game, whatever failed
\* in between and however often the label was bound, rebound or asked.  (Two
\* such moves are the proof that forfeits the game.)
NoDoubleSign ==
  \A s, t \in released :
    /\ s.game = t.game /\ s.label = t.label
    /\ s.body.kind = "Move" /\ t.body.kind = "Move" /\ s.body.ply = t.body.ply
    => s.body = t.body

\* The guard against that never goes back once a label is bound: no request lowers
\* the counter of a game of that label, or replaces the move it stands at.
GuardAdvances ==
  \A g \in Game :
    (game[g] # None /\ bind[game[g].label] # None) =>
      /\ game'[g].last >= game[g].last
      /\ game'[g].last = game[g].last => game'[g].hash = game[g].hash
GuardNeverResets == [][GuardAdvances]_vars

\* The index of a bound label leads to a readable record of that label, even when
\* a request ended between its two writes.
IndexLeadsToOwnGame ==
  \A l \in Label : bind[l] # None => /\ LoadGame(bind[l]) # None
                                     /\ LoadGame(bind[l]).label = l

\* Only the caller that had a label's key created is handed its signatures.
OnlyTheCreatorSigns == \A s \in released : s.to = creator[s.label]

\* The address a game has left is not forgotten once its label is bound: whatever is asked,
\* and whatever fails half way, it is given up only for the address left after it, and is
\* never the game's own.  (An opponent who has not moved on is heard there and nowhere
\* else, and a game at one address is not watched twice.)
AddressKept ==
  \A g \in Game :
    (game[g] # None /\ bind[game[g].label] # None) =>
      /\ LoadGame(g)'.previous = IF LoadGame(g)'.contract = LoadGame(g).contract
                                 THEN LoadGame(g).previous ELSE LoadGame(g).contract
      /\ LoadGame(g)'.previous # LoadGame(g)'.contract
OldAddressIsKept == [][AddressKept]_vars
=============================================================================
