------------------------------ MODULE Records ------------------------------
(***************************************************************************)
(* What a player can say about a game, and when a peer believes it         *)
(* (common/src/types.rs).                                                  *)
(*                                                                         *)
(* A record is a statement (who says it, of which kind, at which ply, and  *)
(* what it refers to) together with a signature.  A statement's id is the  *)
(* hash of signer and body and leaves the signature out, so one statement  *)
(* can be carried by several genuine signatures.  The ids in play are      *)
(* numbers: their order stands for the byte order of the hashes, and       *)
(* Statement[i] is the only statement whose hash is i.                     *)
(***************************************************************************)
EXTENDS Integers, FiniteSets

CONSTANTS
  Id,         \* the ids of the statements in play
  Genesis,    \* the id that stands for the parent of ply 1
  Key,        \* the signing keys in the world, players' or not
  White,      \* GameParams.white
  Black,      \* GameParams.black
  Uci,        \* the moves that can be written in a Move body
  NoUci,      \* the move of a body that is not a Move
  Statement,  \* the statement each id is the hash of
  Sig,        \* signature bytes, ordered as byte strings
  Genuine,    \* the records whose signature ed25519 accepts
  Digest,     \* SHA-256 of a signature
  MAX_PLY     \* the largest ply a record may carry

Kinds == {"Move", "Resign", "DrawOffer", "DrawAccept", "DrawClaim"}

Record == [id : Id, sig : Sig]

(***************************************************************************)
(* A body: ref is a Move's parent, an offer's or a claim's anchor "at", or *)
(* the offer an acceptance names.  A Resign refers to nothing and has no   *)
(* ply, so its ply is the filler 0.                                        *)
(***************************************************************************)
Statements ==
  [signer : Key, kind : Kinds, ply : Nat, ref : Nat, uci : Uci \cup {NoUci}]

ASSUME IdAssumption == Id \subseteq Nat /\ IsFiniteSet(Id) /\ Genesis \in Nat \ Id
ASSUME StatementAssumption == Statement \in [Id -> Statements]
ASSUME SigAssumption == Sig \subseteq Nat /\ Genuine \subseteq Record
ASSUME MaxPlyAssumption == MAX_PLY \in Nat

\* Hashes do not collide: equal ids mean equal statements, and a digest
\* determines the signature it is taken of.
ASSUME HashAssumption ==
  /\ \A i, j \in Id : Statement[i] = Statement[j] => i = j
  /\ Digest \in [Sig -> Nat]
  /\ \A s, t \in Sig : Digest[s] = Digest[t] => s = t

HasPly(i) == Statement[i].kind # "Resign"

\* A slip: a single record is kept of every kind.
KOfOne(kind) == 1

\* How many records one signer may hold in one (signer, kind, ply) group.
K(kind) == IF kind = "Move" THEN 2 ELSE 1

\* Structural validity: a statement by one of the two players, at a ply under
\* the cap, with a signature that checks.  The rules of chess play no part.
Verify(r) ==
  /\ Statement[r.id].signer \in {White, Black}
  /\ HasPly(r.id) => Statement[r.id].ply <= MAX_PLY
  /\ r \in Genuine
============================================================================
