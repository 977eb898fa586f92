------------------------------- MODULE MCWatch ------------------------------
(***************************************************************************)
(* Small instances of Watch.                                               *)
(***************************************************************************)
EXTENDS Watch, TLC

CONSTANTS wk, bk

Positions == {"start", "a", "ac"}
LegalMoves == (<<"start", "a">> :> "a") @@ (<<"a", "c">> :> "ac")
KeyOfPosition == [p \in Positions |-> p]
Clock == [p \in Positions |-> 0]

Says1(p, kind, n, ref, uci) == [signer |-> p, kind |-> kind, ply |-> n, ref |-> ref, uci |-> uci]

\* A move of each player, a resignation of each, and two offers of Black's at one
\* ply, which its own program would not sign; the one over White's move has the
\* greater id.
Statements1 ==
  (1 :> Says1(bk, "DrawOffer", 1, 0, "-")) @@ (2 :> Says1(bk, "DrawOffer", 1, 3, "-"))
  @@ (3 :> Says1(wk, "Move", 1, 0, "a")) @@ (4 :> Says1(bk, "Move", 2, 3, "c"))
  @@ (5 :> Says1(wk, "Resign", 0, 0, "-")) @@ (6 :> Says1(bk, "Resign", 0, 0, "-"))
OfIds == [i \in Id |-> Statements1[i]]
Signed == {[id |-> i, sig |-> 1] : i \in Id}
Digests == [s \in Sig |-> s]

MCPosition == Positions
MCPlay == LegalMoves
MCRepetitionKey == KeyOfPosition
MCHalfmoves == Clock
MCStatement == OfIds
MCGenuine == Signed
MCDigest == Digests
=============================================================================
