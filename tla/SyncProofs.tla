----------------------------- MODULE SyncProofs -----------------------------
(***************************************************************************)
(* Sync is correct for every set of peers, statements and signatures: the  *)
(* inductive invariant below gives its safety properties and the           *)
(* refinement of the abstract ledger.                                      *)
(***************************************************************************)
EXTENDS Sync, CanonicalTheorems

\* Every summary in flight, however old, describes records its sender had then
\* been given, and so has been given now.
SummariesAreOfThePast ==
  \A m \in net : m.type = "summary" =>
    \E H \in SUBSET heard[m.from] : m.summary = Summarize(Canon(H))

IInv ==
  /\ TypeOK
  /\ replica \in [Peer -> SUBSET GenuineRecords]
  /\ heard \in [Peer -> SUBSET GenuineRecords]
  /\ OrderIndependence
  /\ SummariesAreOfThePast

\* The empty state is canonical for a peer that was given nothing.
LEMMA InitIInv == Init => IInv
<1> SUFFICES ASSUME Init PROVE IInv
  OBVIOUS
<1>1. TypeOK
  BY DEF Init, TypeOK, IsState, Empty
<1>2. replica \in [Peer -> SUBSET GenuineRecords] /\ heard \in [Peer -> SUBSET GenuineRecords]
  BY DEF Init, Empty
<1>3. OrderIndependence
  <2>1. {} \in SUBSET GenuineRecords
    OBVIOUS
  <2>2. FilterValid({}) = Canon({})
    BY <2>1, FilterIsCanon
  <2> QED  BY <2>2 DEF Init, OrderIndependence, Report, Empty
<1>4. SummariesAreOfThePast
  BY DEF Init, SummariesAreOfThePast
<1> QED  BY <1>1, <1>2, <1>3, <1>4 DEF IInv

\* What an accepted call of the contract does to one peer: it keeps the peer's
\* report canonical for all that the peer has been given.
LEMMA UpdateKeepsCanon ==
  ASSUME NEW A \in SUBSET GenuineRecords, NEW H \in SUBSET GenuineRecords,
         NEW S \in SUBSET GenuineRecords, NEW D \in SUBSET GenuineRecords,
         FilterValid(A) = Canon(H)
  PROVE  LET B == UpdateState(A, [state |-> S, delta |-> D]) IN
         /\ B \in SUBSET GenuineRecords
         /\ IsState(B)
         /\ B = Canon(H \cup (S \cup D))
         /\ FilterValid(B) = Canon(H \cup (S \cup D))
<1> DEFINE B == UpdateState(A, [state |-> S, delta |-> D])
           N == S \cup D
<1>1. /\ A \in SUBSET Record /\ H \in SUBSET Record /\ N \in SUBSET Record
      /\ A \cup N \in SUBSET GenuineRecords /\ A \cup N \in SUBSET Record
  BY DEF GenuineRecords
<1>2. B = Canon(A \cup N)
  <2>1. (A \cup S) \cup D = A \cup N
    OBVIOUS
  <2> QED  BY <2>1, UpdateIsCanon
<1>3. Canon(A) = Canon(H)
  BY FilterIsCanon
<1>4. Canon(A \cup N) = Canon(H \cup N)
  <2>1. Canon(Canon(A) \cup N) = Canon(A \cup N) /\ Canon(Canon(H) \cup N) = Canon(H \cup N)
    BY <1>1, CanonAbsorbs
  <2> QED  BY <1>3, <2>1
<1>5. B \in SUBSET GenuineRecords /\ IsState(B)
  BY <1>1, <1>2, CanonIsState
<1>6. FilterValid(B) = Canon(A \cup N)
  <2>1. Canon(Canon(A \cup N) \cup {}) = Canon((A \cup N) \cup {})
    BY <1>1, CanonAbsorbs
  <2>2. Canon(A \cup N) \cup {} = Canon(A \cup N) /\ (A \cup N) \cup {} = A \cup N
    OBVIOUS
  <2> QED  BY <1>2, <1>5, <2>1, <2>2, FilterIsCanon
<1> QED  BY <1>2, <1>4, <1>5, <1>6

\* A peer p that is given the records N and stores B keeps the invariant, if B
\* reports the canonical form of what p has been given.
LEMMA LearnStep ==
  ASSUME IInv, NEW p \in Peer,
         NEW N \in SUBSET GenuineRecords, NEW B \in SUBSET GenuineRecords, IsState(B),
         FilterValid(B) = Canon(heard[p] \cup N),
         replica' = [replica EXCEPT ![p] = B],
         heard' = [heard EXCEPT ![p] = @ \cup N],
         net' \in SUBSET net
  PROVE  IInv'
<1> USE DEF IInv
<1>1. N \in SUBSET Record /\ B \in SUBSET Record
  BY DEF GenuineRecords
<1>2. TypeOK'
  BY <1>1 DEF TypeOK
<1>3. replica' \in [Peer -> SUBSET GenuineRecords] /\ heard' \in [Peer -> SUBSET GenuineRecords]
  OBVIOUS
<1>4. OrderIndependence'
  <2> SUFFICES ASSUME NEW q \in Peer PROVE FilterValid(replica'[q]) = Canon(heard'[q])
    BY DEF OrderIndependence, Report
  <2>1. CASE q = p
    <3>1. replica'[q] = B /\ heard'[q] = heard[p] \cup N
      BY <2>1
    <3> QED  BY <3>1
  <2>2. CASE q # p
    <3>1. replica'[q] = replica[q] /\ heard'[q] = heard[q]
      BY <2>2
    <3> QED  BY <3>1 DEF OrderIndependence, Report
  <2> QED  BY <2>1, <2>2
<1>5. SummariesAreOfThePast'
  <2> SUFFICES ASSUME NEW m \in net', m.type = "summary"
               PROVE  \E H \in SUBSET heard'[m.from] : m.summary = Summarize(Canon(H))
    BY DEF SummariesAreOfThePast
  <2>1. m \in net /\ m.from \in Peer
    BY DEF TypeOK, SummaryMessage, DeltaMessage
  <2>2. PICK H \in SUBSET heard[m.from] : m.summary = Summarize(Canon(H))
    BY <2>1 DEF SummariesAreOfThePast
  <2>3. heard[m.from] \subseteq heard'[m.from]
    BY <2>1
  <2> QED  BY <2>2, <2>3
<1> QED  BY <1>2, <1>3, <1>4, <1>5

\* A step that only takes messages away keeps the invariant.
LEMMA FewerMessages ==
  ASSUME IInv, UNCHANGED <<replica, heard>>, net' \in SUBSET net
  PROVE  IInv'
<1>1. TypeOK'
  BY DEF IInv, TypeOK
<1>2. OrderIndependence'
  BY DEF IInv, OrderIndependence, Report
<1>3. SummariesAreOfThePast'
  BY DEF IInv, SummariesAreOfThePast
<1> QED  BY <1>1, <1>2, <1>3 DEF IInv

\* A step that adds one message keeps the invariant, if that message does.
LEMMA OneMoreMessage ==
  ASSUME IInv, UNCHANGED <<replica, heard>>,
         NEW m \in SummaryMessage \cup DeltaMessage, net' \in SUBSET (net \cup {m}),
         m.type = "summary" =>
           \E H \in SUBSET heard[m.from] : m.summary = Summarize(Canon(H))
  PROVE  IInv'
<1>1. TypeOK'
  BY DEF IInv, TypeOK
<1>2. OrderIndependence'
  BY DEF IInv, OrderIndependence, Report
<1>3. SummariesAreOfThePast'
  BY DEF IInv, SummariesAreOfThePast
<1> QED  BY <1>1, <1>2, <1>3 DEF IInv

\* Bytes that validate hold genuine records only.
LEMMA GenuineIfValid ==
  ASSUME NEW R \in SUBSET Record, AllValid(R)
  PROVE  R \in SUBSET GenuineRecords
BY DEF AllValid, GenuineRecords

\* An update's missing half brings no record and refuses nothing.
LEMMA EmptyHalf ==
  /\ Empty \in SUBSET GenuineRecords
  /\ \A D : Empty \cup D = D /\ D \cup Empty = D
BY DEF Empty

\* Every step keeps the invariant: a peer that is given records stores what
\* reports their canonical form, and every summary was true when it was sent.
LEMMA NextIInv == IInv /\ [Next]_vars => IInv'
<1> SUFFICES ASSUME IInv, [Next]_vars PROVE IInv'
  OBVIOUS
<1>0. /\ replica \in [Peer -> SUBSET GenuineRecords]
      /\ heard \in [Peer -> SUBSET GenuineRecords]
      /\ net \subseteq SummaryMessage \cup DeltaMessage
      /\ \A q \in Peer : FilterValid(replica[q]) = Canon(heard[q])
  BY DEF IInv, TypeOK, OrderIndependence, Report
<1>1. ASSUME NEW p \in Peer, NEW st \in Crafted, Put(p, st) PROVE IInv'
  <2>1. st \in SUBSET GenuineRecords /\ IsState(st)
    BY <1>1, GenuineIfValid DEF Put, ValidateState, IsState
  <2>2. CASE replica[p] = Empty
    <3>1. FilterValid(Empty) = Canon(Empty) /\ Canon(Empty) = Empty
      BY EmptyHalf, FilterIsCanon DEF Canon, Empty
    <3>2. Canon(heard[p] \cup st) = Canon(st)
      <4>1. heard[p] \in SUBSET Record /\ st \in SUBSET Record
        BY <1>0, <2>1 DEF GenuineRecords
      <4>2. Canon(Canon(heard[p]) \cup st) = Canon(heard[p] \cup st)
        BY <4>1, CanonAbsorbs
      <4>3. Canon(heard[p]) = Empty
        BY <1>0, <2>2, <3>1
      <4> QED  BY <4>2, <4>3, EmptyHalf
    <3>3. FilterValid(st) = Canon(heard[p] \cup st)
      BY <2>1, <3>2, FilterIsCanon
    <3>4. replica' = [replica EXCEPT ![p] = st] /\ heard' = [heard EXCEPT ![p] = @ \cup st]
          /\ net' \in SUBSET net
      BY <1>1, <2>2 DEF Put, Hear
    <3> QED  BY <2>1, <3>3, <3>4, LearnStep
  <2>3. CASE replica[p] # Empty
    <3> DEFINE B == UpdateState(replica[p], [state |-> st, delta |-> Empty])
    <3>1. /\ B \in SUBSET GenuineRecords /\ IsState(B)
          /\ FilterValid(B) = Canon(heard[p] \cup (st \cup Empty))
      BY <1>0, <2>1, EmptyHalf, UpdateKeepsCanon
    <3>2. st \cup Empty = st
      BY EmptyHalf
    <3>3. replica' = [replica EXCEPT ![p] = B] /\ heard' = [heard EXCEPT ![p] = @ \cup st]
          /\ net' \in SUBSET net
      BY <1>1, <2>3 DEF Put, Hear
    <3> HIDE DEF B
    <3> QED  BY <2>1, <3>1, <3>2, <3>3, LearnStep
  <2> QED  BY <2>2, <2>3
<1>2. ASSUME NEW p \in Peer, NEW D \in SUBSET GenuineRecords,
             replica' = [replica EXCEPT ![p] = UpdateState(@, [state |-> Empty, delta |-> D])],
             Hear(p, D), net' \in SUBSET net
      PROVE  IInv'
  <2> DEFINE B == UpdateState(replica[p], [state |-> Empty, delta |-> D])
  <2>1. /\ B \in SUBSET GenuineRecords /\ IsState(B)
        /\ FilterValid(B) = Canon(heard[p] \cup (Empty \cup D))
    BY <1>0, EmptyHalf, UpdateKeepsCanon
  <2>2. Empty \cup D = D
    BY EmptyHalf
  <2>3. replica' = [replica EXCEPT ![p] = B] /\ heard' = [heard EXCEPT ![p] = @ \cup D]
    BY <1>2 DEF Hear
  <2> HIDE DEF B
  <2> QED  BY <1>2, <2>1, <2>2, <2>3, LearnStep
<1>3. ASSUME NEW p \in Peer, NEW r \in Record, Submit(p, r) PROVE IInv'
  <2>1. {r} \in SUBSET GenuineRecords
    BY <1>3 DEF Submit, GenuineRecords
  <2> QED  BY <1>2, <1>3, <2>1 DEF Submit
<1>4. ASSUME NEW p \in Peer, NEW q \in Peer, NEW d \in Crafted, Inject(p, q, d) PROVE IInv'
  <2> DEFINE m == [type |-> "delta", from |-> p, to |-> q, delta |-> d]
  <2>1. m \in DeltaMessage /\ m.type # "summary"
    BY CraftedAssumption DEF DeltaMessage
  <2>2. net' \in SUBSET (net \cup {m}) /\ UNCHANGED <<replica, heard>>
    BY <1>4 DEF Inject
  <2> HIDE DEF m
  <2> QED  BY <2>1, <2>2, OneMoreMessage
<1>5. ASSUME NEW p \in Peer, NEW q \in Peer, SendSummary(p, q) PROVE IInv'
  <2> DEFINE m == [type |-> "summary", from |-> p, to |-> q,
                   summary |-> SummarizeState(replica[p])]
  <2>1. SummarizeState(replica[p]) = Summarize(Canon(heard[p]))
    BY <1>0 DEF SummarizeState
  <2>2. Summarize(Canon(heard[p])) \in Summary
    BY <1>0, CanonIsState, HashAssumption DEF Summarize, Summary, GenuineRecords, Record
  <2>3. m \in SummaryMessage /\ m.from = p /\ m.summary = Summarize(Canon(heard[p]))
    BY <2>1, <2>2 DEF SummaryMessage
  <2>4. net' \in SUBSET (net \cup {m}) /\ UNCHANGED <<replica, heard>>
    BY <1>5 DEF SendSummary
  <2> HIDE DEF m
  <2> QED  BY <2>3, <2>4, OneMoreMessage
<1>6. ASSUME NEW m \in net, NEW rest \in {net, net \ {m}}, Answer(m, rest) PROVE IInv'
  <2> DEFINE delta == GetStateDelta(replica[m.to], m.summary)
             d == [type |-> "delta", from |-> m.to, to |-> m.from, delta |-> delta]
  <2>1. m \in SummaryMessage
    BY <1>0, <1>6 DEF Answer, DeltaMessage
  <2>2. delta \in Delta
    <3>1. delta \subseteq Canon(heard[m.to])
      BY <1>0, <2>1 DEF GetStateDelta, DeltaAgainst, SummaryMessage
    <3> QED  BY <1>0, <2>1, <3>1, CanonIsState DEF SummaryMessage, Delta, GenuineRecords
  <2>3. d \in DeltaMessage /\ d.type # "summary"
    BY <2>1, <2>2 DEF SummaryMessage, DeltaMessage
  <2>4. net' \in SUBSET (net \cup {d}) /\ UNCHANGED <<replica, heard>>
    BY <1>6 DEF Answer
  <2> HIDE DEF d
  <2> QED  BY <2>3, <2>4, OneMoreMessage
<1>7. ASSUME NEW m \in net, NEW rest \in {net, net \ {m}}, Deliver(m, rest) PROVE IInv'
  <2>1. m \in DeltaMessage
    BY <1>0, <1>7 DEF Deliver, SummaryMessage
  <2>2. m.to \in Peer /\ m.delta \in SUBSET Record
    BY <2>1 DEF DeltaMessage, Delta
  <2>3. CASE Accepts([state |-> Empty, delta |-> m.delta])
    <3>1. m.delta \in SUBSET GenuineRecords
      BY <2>2, <2>3, GenuineIfValid DEF Accepts
    <3> QED  BY <1>2, <1>7, <2>2, <2>3, <3>1 DEF Deliver
  <2>4. CASE ~ Accepts([state |-> Empty, delta |-> m.delta])
    <3>1. net' \in SUBSET net /\ UNCHANGED <<replica, heard>>
      BY <1>7, <2>4 DEF Deliver
    <3> QED  BY <3>1, FewerMessages
  <2> QED  BY <2>3, <2>4
<1>8. ASSUME NEW m \in net, Lose(m) PROVE IInv'
  <2>1. net' \in SUBSET net /\ UNCHANGED <<replica, heard>>
    BY <1>8 DEF Lose
  <2> QED  BY <2>1, FewerMessages
<1>9. CASE UNCHANGED vars
  <2>1. net' \in SUBSET net /\ UNCHANGED <<replica, heard>>
    BY <1>9 DEF vars
  <2> QED  BY <2>1, FewerMessages
<1> QED  BY <1>1, <1>3, <1>4, <1>5, <1>6, <1>7, <1>8, <1>9 DEF Next

\* The strengthened invariant holds throughout.
THEOREM InvariantHolds == Spec => []IInv
BY InitIInv, NextIInv, PTL DEF Spec

\* Every value keeps its type, and stored bytes never repeat an id.
THEOREM TypeCorrect == Spec => []TypeOK
<1>1. IInv => TypeOK
  BY DEF IInv
<1> QED  BY <1>1, InvariantHolds, PTL

\* What a peer reports depends on the records it was given and on nothing else.
THEOREM ReportsAreOrderIndependent == Spec => []OrderIndependence
<1>1. IInv => OrderIndependence
  BY DEF IInv
<1> QED  BY <1>1, InvariantHolds, PTL

\* What a summary's sender has no need of, it has been given.
LEMMA NothingNeededIsLeftOut ==
  ASSUME NEW A \in SUBSET GenuineRecords, NEW H \in SUBSET A,
         NEW C \in SUBSET GenuineRecords
  PROVE  A \cup DeltaAgainst(C, Summarize(Canon(H))) = A \cup C
<1> DEFINE D == DeltaAgainst(C, Summarize(Canon(H)))
<1>1. D \subseteq C
  BY DEF DeltaAgainst
<1>2. ASSUME NEW r \in C, r \notin D PROVE r \in A
  <2>1. <<r.id, Digest[r.sig]>> \in Summarize(Canon(H))
    BY <1>2 DEF DeltaAgainst
  <2>2. PICK x \in Canon(H) : r.id = x.id /\ Digest[r.sig] = Digest[x.sig]
    BY <2>1 DEF Summarize
  <2>3. x \in A /\ x \in Record /\ r \in Record
    BY <2>2 DEF Canon, GenuineRecords
  <2>4. r.sig = x.sig
    BY <2>2, <2>3, HashAssumption DEF Record
  <2>5. r = x
    BY <2>2, <2>3, <2>4 DEF Record
  <2> QED  BY <2>3, <2>5
<1> QED  BY <1>1, <1>2

\* Sync soundness under stale summaries: what was left out of the delta, the
\* sender of the summary had been given before.
THEOREM StaleSummariesAreSound == Spec => []StaleSummaryIsSound
<1>1. IInv => StaleSummaryIsSound
  <2> SUFFICES ASSUME IInv, NEW m \in net, m.type = "summary"
               PROVE  UpdateState(replica[m.from],
                        [state |-> Empty, delta |-> GetStateDelta(replica[m.to], m.summary)])
                        = Merge(Report(m.from), Report(m.to))
    BY DEF StaleSummaryIsSound
  <2>1. m.from \in Peer /\ m.to \in Peer
    BY DEF IInv, TypeOK, SummaryMessage, DeltaMessage
  <2> DEFINE A == heard[m.from]
             C == Canon(heard[m.to])
             D == GetStateDelta(replica[m.to], m.summary)
  <2>2. A \in SUBSET GenuineRecords /\ heard[m.to] \in SUBSET GenuineRecords
        /\ replica[m.from] \in SUBSET GenuineRecords
    BY <2>1 DEF IInv
  <2>3. Report(m.from) = Canon(A) /\ Report(m.to) = C
    BY <2>1 DEF IInv, OrderIndependence
  <2>4. C \in SUBSET GenuineRecords
    BY <2>2, CanonIsState
  <2>5. D = DeltaAgainst(C, m.summary)
    BY <2>3 DEF GetStateDelta, Report
  <2>6. PICK H \in SUBSET A : m.summary = Summarize(Canon(H))
    BY DEF IInv, SummariesAreOfThePast
  <2>7. D \in SUBSET GenuineRecords
    BY <2>4, <2>5 DEF DeltaAgainst
  <2>8. A \cup D = A \cup C
    BY <2>2, <2>4, <2>5, <2>6, NothingNeededIsLeftOut
  <2>9. FilterValid(replica[m.from]) = Canon(A)
    BY <2>3 DEF Report
  <2>10. UpdateState(replica[m.from], [state |-> Empty, delta |-> D]) = Canon(A \cup (Empty \cup D))
    <3> HIDE DEF A, D
    <3> QED  BY <2>2, <2>7, <2>9, EmptyHalf, UpdateKeepsCanon
  <2>11. Canon(A \cup C) = Merge(Canon(A), C)
    <3>1. A \in SUBSET Record /\ C \in SUBSET Record /\ Canon(A) \in SUBSET GenuineRecords
      BY <2>2, <2>4, CanonIsState DEF GenuineRecords
    <3>2. Merge(Canon(A), C) = Canon(Canon(A) \cup C)
      BY <2>4, <3>1, MergeIsCanon
    <3>3. Canon(Canon(A) \cup C) = Canon(A \cup C)
      BY <3>1, CanonAbsorbs
    <3> QED  BY <3>2, <3>3
  <2>12. Empty \cup D = D
    BY EmptyHalf
  <2> HIDE DEF A, C, D
  <2>13. UpdateState(replica[m.from], [state |-> Empty, delta |-> D]) = Merge(Report(m.from), Report(m.to))
    BY <2>3, <2>8, <2>10, <2>11, <2>12
  <2> QED  BY <2>13 DEF D
<1> QED  BY <1>1, InvariantHolds, PTL

\* Peers with the same records exchange nothing.
THEOREM SettledPeersStayQuiet == Spec => []SettledPeersAreQuiet
<1>1. IInv => SettledPeersAreQuiet
  <2> SUFFICES ASSUME IInv, NEW p \in Peer, NEW q \in Peer, Canon(heard[p]) = Canon(heard[q])
               PROVE  GetStateDelta(replica[q], SummarizeState(replica[p])) = Empty
    BY DEF SettledPeersAreQuiet
  <2>1. FilterValid(replica[q]) = FilterValid(replica[p])
    BY DEF IInv, OrderIndependence, Report
  <2> QED  BY <2>1 DEF GetStateDelta, SummarizeState, DeltaAgainst, Summarize, Empty
<1> QED  BY <1>1, InvariantHolds, PTL

\* A statement that stays among the ids of a peer's records is in its report.
LEMMA WhatStaysIsReported ==
  ASSUME IInv, NEW p \in Peer, NEW i \in IdsOf(heard[p]), Stays(IdsOf(heard[p]), i)
  PROVE  i \in IdsOf(Report(p))
<1>1. heard[p] \in SUBSET Record /\ Report(p) = Canon(heard[p])
  BY DEF IInv, OrderIndependence, GenuineRecords
<1>2. PICK r \in heard[p] : r.id = i /\ HasLeastSig(heard[p], r)
  BY <1>1, LeastSignature
<1>3. r \in Canon(heard[p])
  BY <1>2 DEF Canon
<1> QED  BY <1>1, <1>2, <1>3 DEF IdsOf

\* A signer within the limit of a group loses nothing to anyone.
THEOREM OnlyOwnRecordsCanEvict == Spec => []OnlyOwnRecordsEvict
<1>1. IInv => OnlyOwnRecordsEvict
  <2> SUFFICES ASSUME IInv, NEW p \in Peer, NEW i \in IdsOf(heard[p]),
                      Cardinality({j \in IdsOf(heard[p]) :
                        /\ Statement[j].signer = Statement[i].signer
                        /\ Statement[j].kind = Statement[i].kind
                        /\ Statement[j].ply = Statement[i].ply}) <= K(Statement[i].kind)
               PROVE  i \in IdsOf(Report(p))
    BY DEF OnlyOwnRecordsEvict
  <2> DEFINE I == IdsOf(heard[p])
             own == {j \in I : /\ Statement[j].signer = Statement[i].signer
                               /\ Statement[j].kind = Statement[i].kind
                               /\ Statement[j].ply = Statement[i].ply}
  <2>1. I \in SUBSET Id /\ i \in Id
    BY DEF IInv, GenuineRecords, Record, IdsOf
  <2>2. IsFiniteSet(own) /\ Cardinality(own) \in Nat
    <3>1. own \in SUBSET Id
      BY <2>1
    <3> QED  BY <3>1, IdAssumption, FS_Subset, FS_CardinalityType
  <2>3. IsFiniteSet(own \ {i}) /\ Cardinality(own \ {i}) = Cardinality(own) - 1
    BY <2>2, FS_RemoveElement
  <2>4. Smaller(I, i) \in SUBSET (own \ {i})
    BY <2>1, IdAssumption DEF Smaller, SameGroup
  <2>5. Cardinality(Smaller(I, i)) <= Cardinality(own \ {i})
    BY <2>3, <2>4, FS_Subset
  <2>6. Cardinality(Smaller(I, i)) \in Nat /\ K(Statement[i].kind) \in Nat
    BY <2>1, SmallerIsFinite DEF K
  <2>7. Stays(I, i)
    BY <2>2, <2>3, <2>5, <2>6 DEF Stays
  <2> QED  BY <2>7, WhatStaysIsReported
<1> QED  BY <1>1, InvariantHolds, PTL

\* The two smallest of a player's moves at one ply stay: the proof of a double
\* signature outlives every attempt to bury it.
THEOREM FraudProofsSurvive == Spec => []FraudProofSurvives
<1>1. ASSUME IInv, NEW p \in Peer, NEW key, NEW ply,
             Cardinality(MovesAt(IdsOf(heard[p]), key, ply)) >= 2
      PROVE  Cardinality(MovesAt(IdsOf(Report(p)), key, ply)) >= 2
  <2> DEFINE I == IdsOf(heard[p])
             G == MovesAt(I, key, ply)
             R == MovesAt(IdsOf(Report(p)), key, ply)
  <2>1. I \in SUBSET Id /\ IdsOf(Report(p)) \in SUBSET I
    <3>1. heard[p] \in SUBSET GenuineRecords /\ Report(p) = Canon(heard[p])
      BY <1>1 DEF IInv, OrderIndependence
    <3>2. Report(p) \subseteq heard[p]
      BY <3>1 DEF Canon
    <3> QED  BY <3>1, <3>2 DEF GenuineRecords, Record, IdsOf
  <2>2. G \in SUBSET Nat /\ IsFiniteSet(G) /\ Cardinality(G) \in Nat
        /\ IsFiniteSet(R) /\ Cardinality(R) \in Nat
    <3>1. G \in SUBSET Id /\ R \in SUBSET Id
      BY <2>1 DEF MovesAt
    <3> QED  BY <3>1, IdAssumption, FS_Subset, FS_CardinalityType
  <2>3. \A i \in G : Smaller(I, i) = {j \in G : j < i} /\ K(Statement[i].kind) = 2
    <3> SUFFICES ASSUME NEW i \in G
                 PROVE  Smaller(I, i) = {j \in G : j < i} /\ K(Statement[i].kind) = 2
      OBVIOUS
    <3>1. Statement[i].kind = "Move" /\ Statement[i].signer = key /\ Statement[i].ply = ply
      BY DEF MovesAt
    <3>2. \A j \in I : SameGroup(i, j) <=> j \in G
      BY <3>1 DEF SameGroup, HasPly, MovesAt
    <3>3. Smaller(I, i) = {j \in G : j < i}
      BY <3>2 DEF Smaller, MovesAt
    <3> QED  BY <3>1, <3>3 DEF K
  <2>4. G # {}
    BY <1>1, <2>2, FS_EmptySet
  <2>5. PICK m \in G : \A x \in G : m <= x
    BY <2>2, <2>4, LeastNatural
  <2>6. IsFiniteSet(G \ {m}) /\ Cardinality(G \ {m}) = Cardinality(G) - 1
    BY <2>2, FS_RemoveElement
  <2>7. G \ {m} # {}
    BY <1>1, <2>2, <2>6, FS_EmptySet
  <2>8. PICK n \in G \ {m} : \A x \in G \ {m} : n <= x
    BY <2>2, <2>7, LeastNatural
  <2>9. Stays(I, m)
    <3>1. Smaller(I, m) = {}
      BY <2>2, <2>3, <2>5
    <3> QED  BY <2>3, <3>1, FS_EmptySet DEF Stays
  <2>10. Stays(I, n)
    <3>1. \A x \in G : x < n <=> x = m
      BY <2>2, <2>5, <2>8
    <3>2. Smaller(I, n) = {m}
      BY <2>3, <3>1
    <3>3. Cardinality(Smaller(I, n)) = 1 /\ K(Statement[n].kind) = 2
      BY <2>3, <3>2, FS_Singleton
    <3> QED  BY <3>3 DEF Stays
  <2>11. m \in I /\ n \in I
    BY DEF MovesAt
  <2>12. m \in IdsOf(Report(p)) /\ n \in IdsOf(Report(p))
    BY <1>1, <2>9, <2>10, <2>11, WhatStaysIsReported
  <2>13. {m, n} \in SUBSET R
    BY <2>12 DEF MovesAt
  <2>14. Cardinality({m, n}) = 2
    BY <2>8, CardinalityOfPair
  <2>15. 2 <= Cardinality(R)
    BY <2>2, <2>13, <2>14, FS_Subset
  <2> QED  BY <2>2, <2>15
<1>2. IInv => FraudProofSurvives
  BY <1>1 DEF FraudProofSurvives
<1> QED  BY <1>2, InvariantHolds, PTL

\* A step touches the store and the history of one peer at most.
PeerMoves(p) ==
  /\ replica' = [replica EXCEPT ![p] = replica'[p]]
  /\ heard' = [heard EXCEPT ![p] = heard'[p]]
  /\ heard[p] \subseteq heard'[p]

OnePeerMoves == UNCHANGED <<replica, heard>> \/ \E p \in Peer : PeerMoves(p)

\* A step of the network changes what at most one peer stores.
LEMMA OnePeerMovesAtMost ==
  ASSUME IInv, [Next]_vars
  PROVE  OnePeerMoves
<1>1. DOMAIN replica = Peer /\ DOMAIN heard = Peer
  BY DEF IInv, TypeOK
<1>2. ASSUME NEW p \in Peer, NEW st \in Crafted, Put(p, st) PROVE PeerMoves(p)
  BY <1>1, <1>2 DEF PeerMoves, Put, Hear
<1>3. ASSUME NEW p \in Peer, NEW r \in Record, Submit(p, r) PROVE PeerMoves(p)
  BY <1>1, <1>3 DEF PeerMoves, Submit, Hear
<1>4. \A m \in net : m.to \in Peer
  BY DEF IInv, TypeOK, SummaryMessage, DeltaMessage
<1>5. ASSUME NEW m \in net, NEW rest \in {net, net \ {m}}, Deliver(m, rest)
      PROVE  UNCHANGED <<replica, heard>> \/ PeerMoves(m.to)
  <2>1. \/ UNCHANGED <<replica, heard>>
        \/ /\ replica' = [replica EXCEPT ![m.to] =
                 UpdateState(@, [state |-> Empty, delta |-> m.delta])]
           /\ heard' = [heard EXCEPT ![m.to] = @ \cup m.delta]
    BY <1>5 DEF Deliver, Hear
  <2>2. CASE UNCHANGED <<replica, heard>>
    BY <2>2
  <2>3. CASE heard' = [heard EXCEPT ![m.to] = @ \cup m.delta]
             /\ replica' = [replica EXCEPT ![m.to] =
                  UpdateState(@, [state |-> Empty, delta |-> m.delta])]
    BY <1>1, <1>4, <2>3 DEF PeerMoves
  <2> QED  BY <2>1, <2>2, <2>3
<1>6. ASSUME NEW p \in Peer, NEW st \in Crafted, Put(p, st) PROVE OnePeerMoves
  BY <1>2, <1>6 DEF OnePeerMoves
<1>7. ASSUME NEW p \in Peer, NEW r \in Record, Submit(p, r) PROVE OnePeerMoves
  BY <1>3, <1>7 DEF OnePeerMoves
<1>8. ASSUME NEW m \in net, NEW rest \in {net, net \ {m}}, Deliver(m, rest) PROVE OnePeerMoves
  BY <1>4, <1>5, <1>8 DEF OnePeerMoves
<1>9. ASSUME NEW m \in net, NEW rest \in {net, net \ {m}}, Answer(m, rest) PROVE OnePeerMoves
  BY <1>9 DEF Answer, OnePeerMoves
<1>10. ASSUME NEW p \in Peer, NEW q \in Peer, NEW d \in Crafted, Inject(p, q, d) PROVE OnePeerMoves
  BY <1>10 DEF Inject, OnePeerMoves
<1>11. ASSUME NEW p \in Peer, NEW q \in Peer, SendSummary(p, q) PROVE OnePeerMoves
  BY <1>11 DEF SendSummary, OnePeerMoves
<1>12. ASSUME NEW m \in net, Lose(m) PROVE OnePeerMoves
  BY <1>12 DEF Lose, OnePeerMoves
<1>13. CASE UNCHANGED vars
  BY <1>13 DEF vars, OnePeerMoves
<1> QED  BY <1>6, <1>7, <1>8, <1>9, <1>10, <1>11, <1>12, <1>13 DEF Next

\* The peers' reports are those of the abstract ledger, at every step.
THEOREM SyncImplementsLedger == Spec => ImplementsLedger
<1>1. Init => L!Init
  <2> SUFFICES ASSUME Init PROVE L!Init
    OBVIOUS
  <2>1. FilterValid(Empty) = Canon({})
    BY EmptyHalf, FilterIsCanon DEF Empty
  <2> QED  BY <2>1 DEF Init, L!Init
<1>2. IInv /\ IInv' /\ [Next]_vars => [L!Next]_<<heard, [p \in Peer |-> FilterValid(replica[p])]>>
  <2> SUFFICES ASSUME IInv, IInv', [Next]_vars
               PROVE  [L!Next]_<<heard, [p \in Peer |-> FilterValid(replica[p])]>>
    OBVIOUS
  <2>1. CASE UNCHANGED <<replica, heard>>
    BY <2>1
  <2>2. CASE \E p \in Peer : PeerMoves(p)
    <3>1. PICK p \in Peer : PeerMoves(p)
      BY <2>2
    <3>2. heard'[p] \subseteq GenuineRecords /\ FilterValid(replica'[p]) = Canon(heard'[p])
      BY DEF IInv, OrderIndependence, Report
    <3>3. \A q \in Peer : q # p => replica'[q] = replica[q]
      BY <3>1 DEF IInv, PeerMoves
    <3>4. [q \in Peer |-> FilterValid(replica'[q])]
            = [[q \in Peer |-> FilterValid(replica[q])] EXCEPT ![p] = Canon(heard'[p])]
      BY <3>2, <3>3
    <3>5. L!Learn(p)
      BY <3>1, <3>2, <3>4 DEF L!Learn, PeerMoves
    <3> QED  BY <3>5 DEF L!Next
  <2> QED  BY <2>1, <2>2, OnePeerMovesAtMost DEF OnePeerMoves
<1> QED  BY <1>1, <1>2, InvariantHolds, PTL DEF Spec, ImplementsLedger, L!Spec
=============================================================================
