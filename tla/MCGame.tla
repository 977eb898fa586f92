------------------------------- MODULE MCGame -------------------------------
(***************************************************************************)
(* Small instances of Game.  The board has a line that repeats Start twice *)
(* and is drawn by that, and two short ones: White is mated, or the clock  *)
(* of halfmoves runs out.                                                  *)
(***************************************************************************)
EXTENDS Game, TLC

CONSTANTS wk, bk

Positions == {"start", "a", "b", "ac", "bc", "aca", "acb", "acac"}
LegalMoves ==
  (<<"start", "a">> :> "a") @@ (<<"start", "b">> :> "b")
  @@ (<<"a", "c">> :> "ac") @@ (<<"b", "c">> :> "bc")
  @@ (<<"ac", "a">> :> "aca") @@ (<<"ac", "b">> :> "acb") @@ (<<"aca", "c">> :> "acac")
KeyOfPosition == [p \in Positions |-> IF p \in {"ac", "acac"} THEN "start" ELSE
                                      IF p = "aca" THEN "a" ELSE p]
Clock == [p \in Positions |-> IF p = "acb" THEN 3 ELSE IF p = "b" THEN 2 ELSE 0]

Plays(p, n, parent, uci) ==
  [signer |-> p, kind |-> "Move", ply |-> n, ref |-> parent, uci |-> uci]
Utters(p, kind, n, ref) ==
  [signer |-> p, kind |-> kind, ply |-> n, ref |-> ref, uci |-> "-"]

\* Every legal move.
Moves ==
  (1 :> Plays(wk, 1, 0, "a")) @@ (2 :> Plays(wk, 1, 0, "b"))
  @@ (3 :> Plays(bk, 2, 1, "c")) @@ (4 :> Plays(bk, 2, 2, "c"))
  @@ (5 :> Plays(wk, 3, 3, "a")) @@ (6 :> Plays(wk, 3, 3, "b")) @@ (7 :> Plays(bk, 4, 5, "c"))

\* Between honest players: White may resign, it offers a draw when it is to move,
\* Black accepts that, and either claims a draw.
Spoken ==
  Moves @@ (8 :> Utters(wk, "Resign", 0, 0))
  @@ (10 :> Utters(wk, "DrawOffer", 2, 3)) @@ (11 :> Utters(bk, "DrawAccept", 2, 10))
  @@ (12 :> Utters(wk, "DrawClaim", 2, 3)) @@ (13 :> Utters(bk, "DrawClaim", 1, 2))
HonestStatements == [i \in Id |-> Spoken[i]]
HonestIds == (1..8) \cup (10..13)

\* A dishonest Black also plays a move that is not legal, and one in White's place,
\* accepts an offer late, and claims out of turn.
DishonestIds == {1, 2, 3, 5, 6} \cup 14..17
DishonestStatements ==
  [i \in Id |-> ((2 :> Plays(bk, 2, 1, "b")) @@ (14 :> Plays(bk, 1, 0, "b"))
                 @@ (15 :> Utters(bk, "DrawClaim", 2, 3))
                 @@ (16 :> Utters(wk, "DrawOffer", 1, 1)) @@ (17 :> Utters(bk, "DrawAccept", 1, 16))
                 @@ Moves)[i]]

Signed == {[id |-> i, sig |-> 1] : i \in Id}
Digests == [s \in Sig |-> s]
Owners == [c \in Client |-> IF c = "other" THEN bk ELSE wk]

\* The hypothesis of theorem NoDeadEnd holds of these boards and statements.
ASSUME MovesAssumption == MovesToMake

\* TLC evaluates a definition once, and what a .cfg puts in a constant's place at
\* every use: what it puts there only names a definition.
MCPosition == Positions
MCPlay == LegalMoves
MCRepetitionKey == KeyOfPosition
MCHalfmoves == Clock
MCHonestIds == HonestIds
MCDishonestIds == DishonestIds
MCHonest == HonestStatements
MCDishonest == DishonestStatements
MCGenuine == Signed
MCDigest == Digests
MCPlayerOf == Owners
=============================================================================
