-------------------------------- MODULE Game --------------------------------
(***************************************************************************)
(* Two players at a distance (client/src/session.rs): each has a node, a   *)
(* delegate and any number of clients.  A client reads the game from its   *)
(* node, decides, has the delegate sign and publishes what was signed;     *)
(* another client of the player, the opponent and the network may act      *)
(* between any two of these.                                               *)
(*                                                                         *)
(* The nodes exchange records as Sync shows they do: what one has stored   *)
(* is merged into the other, in any order and in any portions.             *)
(***************************************************************************)
EXTENDS Projection

CONSTANTS
  Client,     \* the programs a player runs: a command, a browser tab
  PlayerOf,   \* whose clients they are
  Honest,     \* the players whose keys only their delegate uses
  None        \* no value

ASSUME ClientAssumption == /\ PlayerOf \in [Client -> Players] /\ Honest \subseteq Players
                           /\ None \notin Id /\ NoUci \notin Uci
ASSUME BodyAssumption == \A i \in Id : (Statement[i].kind = "Move") <=> (Statement[i].uci \in Uci)
ASSUME SignatureAssumption == \A i \in Id : \E r \in Genuine : {x \in Genuine : x.id = i} = {r}

VARIABLES
  have,   \* the records each player's node has stored
  last,   \* GameRecord.last_signed_ply of each player's delegate
  hash,   \* GameRecord.last_move_body_hash: the move signed at that ply
  op      \* what each client is at: which body, and whether it has been signed

vars == <<have, last, hash, op>>

Idle == [stage |-> "idle", id |-> None]
Ops == {Idle} \cup [stage : {"opened", "signed"}, id : Id]

\* The record of a statement: ed25519 signs a body in one way only.
RecordOf(i) == CHOOSE r \in Genuine : r.id = i

Init ==
  /\ have = [p \in Players |-> Empty]
  /\ last = [p \in Players |-> 0]
  /\ hash = [p \in Players |-> None]
  /\ op = [c \in Client |-> Idle]
-----------------------------------------------------------------------------
\* A client has read the game, has found that it may say i, and is about to ask
\* for a signature.
Opens(c, i) == /\ op[c] = Idle /\ PlayerOf[c] \in Honest
               /\ ~IsOver(have[PlayerOf[c]])
               /\ Statement[i].signer = PlayerOf[c]
               /\ op' = [op EXCEPT ![c] = [stage |-> "opened", id |-> i]]
               /\ UNCHANGED <<have, last, hash>>

PlayMove(c, i) ==
  LET w == Walk(have[PlayerOf[c]]) IN
  /\ Opens(c, i)
  /\ Statement[i].kind = "Move"
  /\ TurnOf(w) = PlayerOf[c]
  /\ <<PosOf(w), Statement[i].uci>> \in DOMAIN Play
  /\ Statement[i].ply = Len(w.chain) + 1 /\ Statement[i].ref = HeadOf(w)

ResignGame(c, i) == Opens(c, i) /\ Statement[i].kind = "Resign"

\* Nothing asks whose turn it is.
DrawOffer(c, i) ==
  LET w == Walk(have[PlayerOf[c]]) IN
  /\ Opens(c, i)
  /\ Statement[i].kind = "DrawOffer"
  /\ Statement[i].ply = Len(w.chain) /\ Statement[i].ref = HeadOf(w)

\* The offer accepted is the first of the opponent's that names the head.
DrawAccept(c, i) ==
  LET R == have[PlayerOf[c]]
      w == Walk(R)
      offers == {j \in Says(R, Opponent(PlayerOf[c]), "DrawOffer") :
                   Statement[j].ref = HeadOf(w)} IN
  /\ Opens(c, i)
  /\ Statement[i].kind = "DrawAccept"
  /\ Statement[i].ply = Len(w.chain)
  /\ Statement[i].ref \in offers /\ \A j \in offers : Statement[i].ref <= j

DrawClaim(c, i) ==
  LET w == Walk(have[PlayerOf[c]]) IN
  /\ Opens(c, i)
  /\ Statement[i].kind = "DrawClaim"
  /\ TurnOf(w) = PlayerOf[c]
  /\ Repetitions(w) >= THREEFOLD \/ Halfmoves[PosOf(w)] >= FIFTY_MOVE_HALFMOVES
  /\ Statement[i].ply = Len(w.chain) /\ Statement[i].ref = HeadOf(w)

\* Slips: the delegate signs whatever it is asked to, and nothing a second time.
MaySignAnything(p, i) == TRUE
MaySignOnce(p, i) == Statement[i].kind = "Move" => Statement[i].ply > last[p]

\* decide_sign: a move of the player's side, above the last signed ply or the one
\* signed at it.
MaySign(p, i) ==
  Statement[i].kind = "Move" =>
    /\ Statement[i].ply <= MAX_PLY
    /\ MoverAt(Statement[i].ply) = p
    /\ Statement[i].ply > last[p] \/ (Statement[i].ply = last[p] /\ hash[p] = i)

\* A slip: the delegate counts the ply to come.
RememberNext(p, i) ==
  IF Statement[i].kind = "Move"
  THEN /\ last' = [last EXCEPT ![p] = Statement[i].ply + 1]
       /\ hash' = [hash EXCEPT ![p] = i]
  ELSE UNCHANGED <<last, hash>>

\* Only a move is counted.
Remember(p, i) ==
  IF Statement[i].kind = "Move"
  THEN /\ last' = [last EXCEPT ![p] = Statement[i].ply]
       /\ hash' = [hash EXCEPT ![p] = i]
  ELSE UNCHANGED <<last, hash>>

\* Before it decides, the delegate may refuse a move its node's copy of the game
\* speaks against.  A refusal, for that or for decide_sign, is an Abandon.
Sign(c) ==
  LET p == PlayerOf[c]  i == op[c].id IN
  /\ op[c].stage = "opened"
  /\ MaySign(p, i)
  /\ Remember(p, i)
  /\ op' = [op EXCEPT ![c].stage = "signed"]
  /\ UNCHANGED have

Submit(c) ==
  LET p == PlayerOf[c] IN
  /\ op[c].stage = "signed"
  /\ have' = [have EXCEPT ![p] = ApplyDelta(@, {RecordOf(op[c].id)})]
  /\ op' = [op EXCEPT ![c] = Idle]
  /\ UNCHANGED <<last, hash>>

\* A client is refused, gives up or ends; what was signed may never be published.
Abandon(c) ==
  /\ op[c] # Idle
  /\ op' = [op EXCEPT ![c] = Idle]
  /\ UNCHANGED <<have, last, hash>>
-----------------------------------------------------------------------------
\* The network brings a record from one node to the other.
Gossip(p, r) ==
  /\ r \in have[p]
  /\ have' = [have EXCEPT ![Opponent(p)] = ApplyDelta(@, {r})]
  /\ UNCHANGED <<last, hash, op>>

\* A player who is not honest publishes whatever their key can sign.
Cheat(i) ==
  LET p == Statement[i].signer IN
  /\ p \in Players \ Honest
  /\ have' = [have EXCEPT ![p] = ApplyDelta(@, {RecordOf(i)})]
  /\ UNCHANGED <<last, hash, op>>

Next ==
  \/ \E c \in Client, i \in Id : PlayMove(c, i)
  \/ \E c \in Client, i \in Id : ResignGame(c, i)
  \/ \E c \in Client, i \in Id : DrawOffer(c, i)
  \/ \E c \in Client, i \in Id : DrawAccept(c, i)
  \/ \E c \in Client, i \in Id : DrawClaim(c, i)
  \/ \E c \in Client : Sign(c)
  \/ \E c \in Client : Submit(c)
  \/ \E c \in Client : Abandon(c)
  \/ \E p \in Players, r \in Record : Gossip(p, r)
  \/ \E i \in Id : Cheat(i)

Spec == Init /\ [][Next]_vars
-----------------------------------------------------------------------------
TypeOK ==
  /\ \A p \in Players : IsState(have[p])
  /\ last \in [Players -> 0..MAX_PLY]
  /\ hash \in [Players -> Id \cup {None}]
  /\ op \in [Client -> Ops]

Everything == have[White] \cup have[Black]

Chain(R) == Walk(R).chain

Extends(s, t) == Len(s) >= Len(t) /\ SubSeq(s, 1, Len(t)) = t

\* However many clients an honest player runs, on however old a view, and whatever
\* of theirs fails between signing and publishing, no two records of the player
\* anywhere make a double sign.
HonestNeverForfeits == \A p \in Honest : p \notin Forfeiters(Everything)

\* The walk never stops because it has to choose: where no double sign stops it,
\* there is at most one move to go on with.
NeverTwoCandidates ==
  \A p \in Players :
    LET w == Walk(have[p]) IN
    Stopped(w) \/ Cardinality(Candidates(have[p], w)) <= 1

\* The nodes show the same game, one of them perhaps further on, unless a player
\* has double-signed.
NodesShowOneGame ==
  DoubleSignedPlies(Everything) = {} =>
    \/ Extends(Chain(have[White]), Chain(have[Black]))
    \/ Extends(Chain(have[Black]), Chain(have[White]))

\* The next move of a game that has come to w.
Continues(w, i) == /\ Statement[i].signer = TurnOf(w) /\ Statement[i].kind = "Move"
                   /\ Statement[i].ply = Len(w.chain) + 1 /\ Statement[i].ref = HeadOf(w)
                   /\ <<PosOf(w), Statement[i].uci>> \in DOMAIN Play

\* What an honest player has signed but not got published is no dead end: while
\* the game goes on and it is the player's turn, the delegate will sign some move
\* that is legal there.
HonestCanMove ==
  \A p \in Honest :
    LET w == Walk(have[p]) IN
    (~IsOver(have[p]) /\ TurnOf(w) = p /\ Len(w.chain) < MAX_PLY) =>
      \E i \in Id : Continues(w, i) /\ MaySign(p, i)

\* What that asks of chess, and of the ids in play: that an honest player whose
\* turn it is in a game that goes on has a move to make.
MovesToMake ==
  \A R \in SUBSET Genuine :
    LET w == Walk(R) IN
    (~IsOver(R) /\ TurnOf(w) \in Honest /\ Len(w.chain) < MAX_PLY) => \E i \in Id : Continues(w, i)

\* Whatever the opponent publishes, an honest player who does not win has been
\* mated on the board, has resigned, has agreed to the draw, or is drawn by the
\* rules: on the board, or by a claim of the player to move.
HonestLosesFairly ==
  \A p \in Honest, q \in Players :
    LET R == have[q]  w == Walk(R) IN
    \A d \in Decision(R) :
      \/ d.winner = p
      \/ d.reason \in {"Checkmate", "Stalemate", "InsufficientMaterial", "AutomaticDraw"}
      \/ d.reason \in {"Resignation", "MutualResignation"} /\ Says(R, p, "Resign") # {}
      \/ d.reason = "DrawAgreement" /\ \E i \in Says(R, p, "DrawOffer") \cup Says(R, p, "DrawAccept") :
                                         Statement[i].ply = Len(w.chain)
      \/ d.reason \in {"ThreefoldClaim", "FiftyMoveClaim"} /\ Says(R, TurnOf(w), "DrawClaim") # {}

\* No node takes back a move, except to uncover a double sign.
MovesStand ==
  \A p \in Players : DoubleSignedPlies(have'[p]) = DoubleSignedPlies(have[p]) =>
                      Extends(Chain(have'[p]), Chain(have[p]))
NoMoveIsTakenBack == [][MovesStand]_vars

\* The stronger the reason of a decision, the higher.
Rank(R) ==
  LET reasons == {d.reason : d \in Decision(R)} IN
  IF reasons = {} THEN 0
  ELSE IF reasons \subseteq {"DrawAgreement"} THEN 1
  ELSE IF reasons \subseteq {"ThreefoldClaim", "FiftyMoveClaim"} THEN 2
  ELSE IF reasons \subseteq {"Resignation"} THEN 4
  ELSE IF reasons \subseteq {"MutualResignation"} THEN 5
  ELSE IF reasons \subseteq {"DoubleSignForfeit"} THEN 6
  ELSE 3

\* A decided game stays decided and yields only to a stronger reason, unless a
\* move was made after the draw was agreed or claimed.
DecisionsHold ==
  \A p \in Players :
    \/ Rank(have'[p]) >= Rank(have[p])
    \/ Rank(have[p]) <= 2 /\ Len(Chain(have'[p])) > Len(Chain(have[p]))
DecisionsStand == [][DecisionsHold]_vars

\* What both nodes know is one game, played as if at one board.
\* (Of a set, TLC computes the member once.)
MovesOf(R) ==
  CHOOSE moves \in {[n \in 1..Len(chain) |-> [by |-> Statement[chain[n]].signer,
                                             uci |-> Statement[chain[n]].uci]] :
                      chain \in {Chain(R)}} : TRUE
MustEnd(seen) == AutoDraw([seen |-> seen])
Board == INSTANCE OneGame WITH
           moves <- MovesOf(Everything), seen <- Walk(Everything).seen,
           resigned <- Resigned(Everything)
ImplementsOneGame == Board!Spec

\* An agreed draw is undone only by a move of the player who accepted the offer.
AccepterMoved(p) ==
  \E i \in IdsOf(have'[p]) \ IdsOf(have[p]) :
    /\ Statement[i].kind = "Move"
    /\ Says(have[p], Statement[i].signer, "DrawAccept") # {}
OnlyTheAccepterUndoes ==
  [][\A p \in Players : Rank(have[p]) = 1 /\ Rank(have'[p]) = 0 => AccepterMoved(p)]_vars
=============================================================================
