------------------------------- MODULE MCSync -------------------------------
(***************************************************************************)
(* A small instance of Sync: one more White move at ply 1 than a group     *)
(* keeps, one of them under two genuine signatures, and a statement outside *)
(* that group with the smallest id of all.                                 *)
(***************************************************************************)
EXTENDS Sync, TLC

CONSTANTS w, b, p1, p2

MCId == 1..4
MCSay(signer, kind, n) ==
  [signer |-> signer, kind |-> kind, ply |-> 1, ref |-> n, uci |-> "-"]
MCMoves == (2 :> MCSay(w, "Move", 1)) @@ (3 :> MCSay(w, "Move", 2))
           @@ (4 :> MCSay(w, "Move", 3))
MCWithBlackMove == (1 :> MCSay(b, "Move", 1)) @@ MCMoves

\* For liveness: two offers, of which one is kept, and a move.
MCFewIds == 1..3
MCWithOffers == (1 :> MCSay(w, "DrawOffer", 1)) @@ (2 :> MCSay(w, "DrawOffer", 2))
                @@ (3 :> MCSay(w, "Move", 2))

MCRecord(i, s) == [id |-> i, sig |-> s]
MCGenuine == {MCRecord(i, 2) : i \in Id} \cup {MCRecord(3, 3)}
MCDigest == [s \in Sig |-> 100 - s]

\* An oversized but genuine state, and a delta that mixes in a forgery.
MCOversized == {MCRecord(2, 2), MCRecord(3, 3), MCRecord(4, 2)}
MCForged == {MCRecord(2, 1), MCRecord(4, 2)}
MCCrafted == {MCOversized, MCForged}

MCPeers == Permutations(Peer)
=============================================================================
