----------------------------- MODULE Projection -----------------------------
(***************************************************************************)
(* From a set of records to a game of chess (common/src/project.rs).       *)
(*                                                                         *)
(* The rules of chess are a graph given as a constant: Play takes a        *)
(* position and a move that is legal in it to the position it leads to.    *)
(***************************************************************************)
EXTENDS GameState, Sequences

CONSTANTS
  Position,      \* positions of the board, with castling rights and clocks
  Start,         \* the initial position
  Play,          \* the position that each pair <<position, legal move>> leads to
  RepetitionKey, \* what two positions share that count as repeated
  Halfmoves,     \* the halfmoves since a capture or a pawn's move
  Checkmate, Stalemate, InsufficientMaterial,  \* the positions where play ends
  THREEFOLD, FIVEFOLD,                         \* repetitions for a claim, for a draw
  FIFTY_MOVE_HALFMOVES, SEVENTY_FIVE_MOVE_HALFMOVES,
  Nobody         \* the winner of a draw

ASSUME PlayersAssumption == White # Black /\ {White, Black} \subseteq Key /\ Nobody \notin Key
ASSUME BoardAssumption ==
  /\ Start \in Position /\ Halfmoves \in [Position -> Nat]
  /\ DOMAIN Play \subseteq Position \X Uci
  /\ \A move \in DOMAIN Play : Play[move] \in Position
  /\ \A move \in DOMAIN Play : move[1] \notin Checkmate \cup Stalemate
ASSUME DrawAssumption ==
  /\ THREEFOLD \in Nat /\ FIVEFOLD \in Nat /\ 1 < THREEFOLD /\ THREEFOLD < FIVEFOLD
  /\ FIFTY_MOVE_HALFMOVES \in Nat /\ SEVENTY_FIVE_MOVE_HALFMOVES \in Nat
  /\ Halfmoves[Start] < FIFTY_MOVE_HALFMOVES
  /\ FIFTY_MOVE_HALFMOVES < SEVENTY_FIVE_MOVE_HALFMOVES

Players == {White, Black}
Opponent(p) == IF p = White THEN Black ELSE White

\* color_at_ply: plies count from 1.
MoverAt(ply) == IF ply % 2 = 1 THEN White ELSE Black

Says(R, p, kind) == {i \in IdsOf(R) : Statement[i].signer = p /\ Statement[i].kind = kind}
MovesIn(R) == Says(R, White, "Move") \cup Says(R, Black, "Move")

SameSignerAt(i, j) == /\ Statement[i].signer = Statement[j].signer
                      /\ Statement[i].ply = Statement[j].ply

\* The moves that are not their signer's only one at their ply.  double_signed
\* counts records: it asks nothing of the position, of the parents or of legality.
DoubleSigned(R) == {i \in MovesIn(R) : \E j \in MovesIn(R) \ {i} : SameSignerAt(i, j)}

Forfeiters(R) == {Statement[i].signer : i \in DoubleSigned(R)}
DoubleSignedPlies(R) == {Statement[i].ply : i \in DoubleSigned(R)}

(***************************************************************************)
(* What a walk has come to: the ids of the moves, the positions passed     *)
(* through, Start first, and the plies it must stop short of.              *)
(***************************************************************************)
PosOf(w) == w.seen[Len(w.seen)]
HeadOf(w) == IF w.chain = <<>> THEN Genesis ELSE w.chain[Len(w.chain)]
TurnOf(w) == MoverAt(Len(w.chain) + 1)
Repetitions(w) ==
  Cardinality({n \in 1..Len(w.seen) : RepetitionKey[w.seen[n]] = RepetitionKey[PosOf(w)]})
AutoDraw(w) == \/ Repetitions(w) >= FIVEFOLD
               \/ Halfmoves[PosOf(w)] >= SEVENTY_FIVE_MOVE_HALFMOVES

\* A slip: whoever signed it, a move is a move.
CandidatesOfAnyone(R, w) ==
  {i \in IdsOf(R) : /\ Statement[i].kind = "Move"
                    /\ Statement[i].ply = Len(w.chain) + 1
                    /\ Statement[i].ref = HeadOf(w)
                    /\ <<PosOf(w), Statement[i].uci>> \in DOMAIN Play}

\* The moves that continue a walk: at its ply, after its last move, by the player
\* to move, and legal.
Candidates(R, w) ==
  {i \in Says(R, TurnOf(w), "Move") : /\ Statement[i].ply = Len(w.chain) + 1
                                      /\ Statement[i].ref = HeadOf(w)
                                      /\ <<PosOf(w), Statement[i].uci>> \in DOMAIN Play}

\* The chain ends short of the first double sign, which may be at a ply nobody
\* plays at.
Stopped(w) == \E ply \in w.stops : ply <= Len(w.chain) + 1

GoesOn(R, w) == /\ ~Stopped(w)
                /\ ~AutoDraw(w)
                /\ Cardinality(Candidates(R, w)) = 1

\* One turn of the walk.
Advance(R, w) ==
  IF GoesOn(R, w)
  THEN LET i == CHOOSE i \in Candidates(R, w) : TRUE IN
       [w EXCEPT !.chain = Append(@, i),
                 !.seen = Append(@, Play[<<PosOf(w), Statement[i].uci>>])]
  ELSE w

Unmoved(R) == [chain |-> <<>>, seen |-> <<Start>>, stops |-> DoubleSignedPlies(R)]

\* The walk after each number of turns.  (Of a set, TLC computes the member once.)
Turns(R) ==
  LET walk[n \in 0..MAX_PLY] ==
        IF n = 0 THEN {Unmoved(R)} ELSE {Advance(R, w) : w \in walk[n - 1]}
  IN walk

\* No record has a ply past the cap, so the walk is over after MAX_PLY turns.
Walk(R) == CHOOSE w \in Turns(R)[MAX_PLY] : TRUE

(***************************************************************************)
(* A decision is a set of at most one verdict, empty while the game goes   *)
(* on.                                                                     *)
(***************************************************************************)
Verdict(winner, reason) == {[winner |-> winner, reason |-> reason]}
If(condition, verdict) == IF condition THEN verdict ELSE {}
OrElse(verdict, other) == IF verdict # {} THEN verdict ELSE other

\* One loser means the other has won; with two there is no principled winner.
WinnerAgainst(losers) ==
  IF losers = {White} THEN Black ELSE IF losers = {Black} THEN White ELSE Nobody

Forfeit(R) == If(Forfeiters(R) # {}, Verdict(WinnerAgainst(Forfeiters(R)), "DoubleSignForfeit"))

Resigned(R) == {p \in Players : Says(R, p, "Resign") # {}}
Resignation(R) ==
  If(Resigned(R) # {}, Verdict(WinnerAgainst(Resigned(R)),
                               IF Resigned(R) = Players THEN "MutualResignation"
                                                        ELSE "Resignation"))

BoardResult(w) ==
  OrElse(If(PosOf(w) \in Checkmate, Verdict(Opponent(TurnOf(w)), "Checkmate")),
  OrElse(If(PosOf(w) \in Stalemate, Verdict(Nobody, "Stalemate")),
  OrElse(If(PosOf(w) \in InsufficientMaterial, Verdict(Nobody, "InsufficientMaterial")),
         If(AutoDraw(w), Verdict(Nobody, "AutomaticDraw")))))

\* A slip: either player may claim.
DrawClaimedByAnyone(R, w) ==
  LET claims == {i \in Says(R, White, "DrawClaim") \cup Says(R, Black, "DrawClaim") :
                   Statement[i].ref = HeadOf(w)} IN
  If(claims # {}, OrElse(If(Repetitions(w) >= THREEFOLD, Verdict(Nobody, "ThreefoldClaim")),
                         If(Halfmoves[PosOf(w)] >= FIFTY_MOVE_HALFMOVES,
                            Verdict(Nobody, "FiftyMoveClaim"))))

\* A claim counts at the head it names, from the player to move, with a ground.
DrawClaimed(R, w) ==
  LET claims == {i \in Says(R, TurnOf(w), "DrawClaim") : Statement[i].ref = HeadOf(w)} IN
  If(claims # {}, OrElse(If(Repetitions(w) >= THREEFOLD, Verdict(Nobody, "ThreefoldClaim")),
                         If(Halfmoves[PosOf(w)] >= FIFTY_MOVE_HALFMOVES,
                            Verdict(Nobody, "FiftyMoveClaim"))))

\* An acceptance counts while the head is the one its opponent's offer names.
DrawAgreed(R, w) ==
  If(\E p \in Players : \E i \in Says(R, p, "DrawAccept") :
       \E j \in Says(R, Opponent(p), "DrawOffer") :
          Statement[i].ref = j /\ Statement[j].ref = HeadOf(w),
     Verdict(Nobody, "DrawAgreement"))

\* A slip: the board is asked before the players.
DecisionBoardFirst(R) ==
  LET w == Walk(R) IN
  OrElse(Forfeit(R), OrElse(BoardResult(w), OrElse(Resignation(R),
  OrElse(DrawClaimed(R, w), DrawAgreed(R, w)))))

\* The precedence every peer applies.
Decision(R) ==
  LET w == Walk(R) IN
  OrElse(Forfeit(R), OrElse(Resignation(R), OrElse(BoardResult(w),
  OrElse(DrawClaimed(R, w), DrawAgreed(R, w)))))

IsOver(R) == Decision(R) # {}
=============================================================================
