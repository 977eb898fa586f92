------------------------------ MODULE OneGame ------------------------------
(***************************************************************************)
(* What two honest players are promised: one game of chess, played as if   *)
(* at one board.  They move in turn, each move is legal where it is made,  *)
(* none is taken back, none follows a draw that the rules force, and       *)
(* whoever has resigned has resigned.                                      *)
(***************************************************************************)
EXTENDS Naturals, Sequences

CONSTANTS
  White, Black,
  Start,        \* the initial position
  Play,         \* the position that each pair <<position, legal move>> leads to
  MustEnd(_)    \* whether the positions passed through force a draw

VARIABLES
  moves,     \* the moves played, and by whom
  seen,      \* the positions passed through, the one on the board last
  resigned   \* who has resigned

vars == <<moves, seen, resigned>>

Init == moves = <<>> /\ seen = <<Start>> /\ resigned = {}

Board == seen[Len(seen)]
LegalMoves == LET board == Board IN {move[2] : move \in {m \in DOMAIN Play : m[1] = board}}
Mover == IF Len(moves) % 2 = 0 THEN White ELSE Black

Move(uci) ==
  /\ ~MustEnd(seen)
  /\ moves' = Append(moves, [by |-> Mover, uci |-> uci])
  /\ seen' = Append(seen, Play[<<Board, uci>>])
  /\ UNCHANGED resigned

Resign(p) == /\ resigned' = resigned \cup {p}
             /\ UNCHANGED <<moves, seen>>

Next == \/ \E uci \in LegalMoves : Move(uci)
        \/ \E p \in {White, Black} : Resign(p)

Spec == Init /\ [][Next]_vars
=============================================================================
