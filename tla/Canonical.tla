----------------------------- MODULE Canonical -----------------------------
(***************************************************************************)
(* The reference the algebra is held to: the one state that a set of       *)
(* genuine records stands for, however its members were merged.            *)
(***************************************************************************)
EXTENDS GameState

GenuineRecords == {r \in Record : Verify(r)}

HasLeastSig(R, r) == \A x \in R : x.id = r.id => r.sig <= x.sig

\* The one state a set of genuine records stands for: of each group the K
\* smallest ids, each under its least signature.
Canon(R) == LET ids == IdsOf(R) IN {r \in R : HasLeastSig(R, r) /\ Stays(ids, r.id)}
============================================================================
