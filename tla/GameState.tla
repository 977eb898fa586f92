----------------------------- MODULE GameState -----------------------------
(***************************************************************************)
(* The contract state and its algebra (common/src/state.rs): a set of      *)
(* records, merged by union with a tiebreak between signatures on one      *)
(* statement, and bounded by eviction.                                     *)
(***************************************************************************)
EXTENDS Records

\* The code's map from id to record.  Bytes that repeat an id do not decode.
IsState(R) == R \subseteq Record /\ \A r, x \in R : r.id = x.id => r = x

\* On the wire a delta is a list of records, and may repeat an id.
Delta == SUBSET Record

Empty == {}

\* r wins over another record of its statement: verified beats unverified, and
\* among verified ones the smaller signature is kept.
Beats(r, x) == Verify(r) /\ (Verify(x) => r.sig < x.sig)

\* A slip: the signature that came first stays.
AbsorbFirst(st, recs) ==
  st \cup {r \in recs : Verify(r) /\ \A x \in (st \cup recs) \ {r} : x.id = r.id =>
                                    x \notin st /\ Beats(r, x)}

\* A slip: no choice between the signatures of one statement.
AbsorbBoth(st, recs) == st \cup {r \in recs : Verify(r)}

(***************************************************************************)
(* GameState::absorb for each record of recs: only what verifies gets in,  *)
(* and of the records of one statement one remains.                        *)
(***************************************************************************)
AbsorbAll(st, recs) ==
  LET all == st \cup {r \in recs : Verify(r)} IN
  {r \in all : \A x \in all \ {r} : x.id = r.id => Beats(r, x)}

\* A slip: records compete with those of the other player.
SameKindAndPly(i, j) ==
  /\ HasPly(i) /\ HasPly(j)
  /\ Statement[i].kind = Statement[j].kind
  /\ Statement[i].ply = Statement[j].ply

\* group_of: eviction compares a record with its signer's own records of the
\* same kind at the same ply.  A resignation is in no group.
SameGroup(i, j) ==
  /\ HasPly(i) /\ HasPly(j)
  /\ Statement[i].signer = Statement[j].signer
  /\ Statement[i].kind = Statement[j].kind
  /\ Statement[i].ply = Statement[j].ply

IdsOf(R) == {r.id : r \in R}

Smaller(I, i) == {j \in I : SameGroup(i, j) /\ j < i}

\* Only the K smallest ids of each group stay.
Stays(I, i) == Cardinality(Smaller(I, i)) < K(Statement[i].kind)

Evict(st) == LET ids == IdsOf(st) IN {r \in st : Stays(ids, r.id)}

\* A merge and an applied delta both absorb everything and then evict once.
Merge(st, other) == Evict(AbsorbAll(st, other))
ApplyDelta(st, delta) == Evict(AbsorbAll(st, delta))

FilterValid(st) == Merge(Empty, st)

AllValid(R) == \A r \in R : Verify(r)

\* A summary pairs each id with the digest of the signature held under it.
Summarize(st) == {<<r.id, Digest[r.sig]>> : r \in st}

Summary == SUBSET (Id \X Nat)

\* A slip: the ids alone are compared.
DeltaById(st, summary) == {r \in st : \A entry \in summary : entry[1] # r.id}

\* What the sender of the summary lacks, or holds under another signature.
DeltaAgainst(st, summary) == {r \in st : <<r.id, Digest[r.sig]>> \notin summary}
============================================================================
