----------------------------- MODULE MCDelegate -----------------------------
(***************************************************************************)
(* A small instance of Delegate: two labels of one user, one playing White *)
(* in both games and the other Black in one of them, so that labels meet   *)
(* in a game and one label meets two games.                                *)
(***************************************************************************)
EXTENDS Delegate, TLC

CONSTANTS l1, l2, g1, g2, c1, c2, o1

MCKeyOf == (l1 :> "k1") @@ (l2 :> "k2")
MCWhite == (g1 :> "k1") @@ (g2 :> "k1")
MCBlack == (g1 :> "k2") @@ (g2 :> "k3")

MCMove(ply, text) == [kind |-> "Move", ply |-> ply, text |-> text]
MCResign == [kind |-> "Resign", ply |-> 0, text |-> 0]

\* Two moves to choose from at ply 1, one at ply 3, a resignation, a move at a
\* ply past the cap and one at a ply nobody plays at.
MCBody == {MCMove(1, 1), MCMove(1, 2), MCMove(2, 1), MCMove(3, 1), MCMove(5, 1),
           MCMove(0, 1), MCResign}

MCContracts == Permutations(Contract)
=============================================================================
