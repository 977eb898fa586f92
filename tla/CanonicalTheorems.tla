-------------------------- MODULE CanonicalTheorems --------------------------
(***************************************************************************)
(* The laws of the state algebra, for every set of statements, keys and    *)
(* signatures: on genuine records, filtering, merging and updating compute *)
(* canonical forms of unions, and taking canonical forms early loses       *)
(* nothing.                                                                *)
(***************************************************************************)
EXTENDS Canonical, Contract, FiniteSetTheorems, WellFoundedInduction, TLAPS

\* A non-empty set of natural numbers has a least element.
LEMMA LeastNatural ==
  ASSUME NEW S \in SUBSET Nat, S # {}
  PROVE  \E m \in S : \A n \in S : m <= n
<1> DEFINE Less == {ss \in Nat \X Nat : ss[1] < ss[2]}
<1>1. IsWellFoundedOn(Less, Nat)
  BY NatLessThanWellFounded DEF OpToRel
<1>2. \E m \in S : \A n \in S : ~ (<<n, m>> \in Less)
  <2> HIDE DEF Less
  <2> QED  BY <1>1, WFMin
<1>3. PICK m \in S : \A n \in S : ~ (<<n, m>> \in Less)
  BY <1>2
<1>4. \A n \in S : ~ (n < m)
  BY <1>3
<1> QED  BY <1>4

\* Of several records of one statement, one carries the least signature.
LEMMA LeastSignature ==
  ASSUME NEW R \in SUBSET Record, NEW i \in IdsOf(R)
  PROVE  \E r \in R : r.id = i /\ HasLeastSig(R, r)
<1> DEFINE S == {r.sig : r \in {x \in R : x.id = i}}
<1>1. S \in SUBSET Nat /\ S # {}
  BY SigAssumption DEF IdsOf, Record
<1>2. PICK m \in S : \A n \in S : m <= n
  BY <1>1, LeastNatural
<1>3. PICK r \in R : r.id = i /\ r.sig = m
  OBVIOUS
<1>4. HasLeastSig(R, r)
  BY <1>2, <1>3 DEF HasLeastSig
<1> QED  BY <1>3, <1>4

\* Two different members make a set of two.
LEMMA CardinalityOfPair ==
  ASSUME NEW a, NEW b, a # b
  PROVE  Cardinality({a, b}) = 2
<1>1. IsFiniteSet({a}) /\ Cardinality({a}) = 1 /\ b \notin {a}
  BY FS_Singleton
<1>2. Cardinality({a} \cup {b}) = 2
  BY <1>1, FS_AddElement
<1>3. {a} \cup {b} = {a, b}
  OBVIOUS
<1> QED  BY <1>2, <1>3

\* Only finitely many ids of a group compete with an id, so counting them means
\* something.
LEMMA SmallerIsFinite ==
  ASSUME NEW I \in SUBSET Id, NEW i \in Id
  PROVE  /\ IsFiniteSet(Smaller(I, i))
         /\ Cardinality(Smaller(I, i)) \in Nat
         /\ Smaller(I, i) \subseteq Id
<1>1. Smaller(I, i) \in SUBSET Id
  BY DEF Smaller
<1>2. IsFiniteSet(Smaller(I, i))
  BY <1>1, IdAssumption, FS_Subset
<1> QED  BY <1>1, <1>2, FS_CardinalityType

\* What competes with a competitor of an id competes with that id.
LEMMA SmallerIsTransitive ==
  ASSUME NEW I \in SUBSET Id, NEW i \in Id, NEW j \in Smaller(I, i)
  PROVE  Smaller(I, j) = {x \in Smaller(I, i) : x < j}
<1>1. i \in Nat /\ I \subseteq Nat /\ j \in I /\ j < i /\ SameGroup(i, j)
  BY IdAssumption DEF Smaller
<1>2. \A x \in I : SameGroup(j, x) <=> SameGroup(i, x)
  BY <1>1 DEF SameGroup
<1>3. \A x \in I : x < j => x < i
  BY <1>1
<1> QED  BY <1>2, <1>3 DEF Smaller

\* A record that stays among many stays among some of them.
LEMMA StaysAmongFewer ==
  ASSUME NEW J \in SUBSET Id, NEW I \in SUBSET J, NEW i \in Id, Stays(J, i)
  PROVE  Stays(I, i)
<1>1. Smaller(I, i) \in SUBSET Smaller(J, i)
  BY DEF Smaller
<1>2. Cardinality(Smaller(I, i)) <= Cardinality(Smaller(J, i))
  BY <1>1, SmallerIsFinite, FS_Subset
<1>3. Cardinality(Smaller(I, i)) \in Nat /\ Cardinality(Smaller(J, i)) \in Nat
  BY SmallerIsFinite
<1>4. K(Statement[i].kind) \in Nat
  BY DEF K
<1> QED  BY <1>2, <1>3, <1>4 DEF Stays

\* The K smallest ids of a group hold their places in every set that has them:
\* an id evicted by its group is still evicted when only they are left.
LEMMA EvictedByTheKept ==
  ASSUME NEW I \in SUBSET Id, NEW J \in SUBSET Id, NEW i \in Id,
         \A j \in I : Stays(I, j) => j \in J,
         Stays(J, i)
  PROVE  Stays(I, i)
<1> DEFINE S == Smaller(I, i)
<1> SUFFICES ASSUME ~ Stays(I, i) PROVE FALSE
  OBVIOUS
<1>1. S \in SUBSET Nat /\ S \subseteq I /\ IsFiniteSet(S) /\ Cardinality(S) \in Nat
  BY IdAssumption, SmallerIsFinite DEF Smaller
<1>2. K(Statement[i].kind) \in {1, 2} /\ Cardinality(S) >= K(Statement[i].kind)
  BY <1>1 DEF Stays, K
<1>3. S # {}
  BY <1>1, <1>2, FS_EmptySet
<1>4. PICK m \in S : \A n \in S : m <= n
  BY <1>1, <1>3, LeastNatural
<1>5. Smaller(I, m) = {}
  <2>1. Smaller(I, m) = {x \in S : x < m}
    BY <1>4, SmallerIsTransitive
  <2>2. \A x \in S : ~ (x < m)
    BY <1>1, <1>4
  <2> QED  BY <2>1, <2>2
<1>6. m \in J
  <2>1. Cardinality(Smaller(I, m)) = 0
    BY <1>5, FS_EmptySet
  <2>2. K(Statement[m].kind) \in {1, 2}
    BY DEF K
  <2> QED  BY <1>1, <2>1, <2>2 DEF Stays
<1>7. m \in Smaller(J, i)
  BY <1>6 DEF Smaller
<1>8. Cardinality(Smaller(J, i)) < K(Statement[i].kind) /\ IsFiniteSet(Smaller(J, i))
      /\ Cardinality(Smaller(J, i)) \in Nat
  BY SmallerIsFinite DEF Stays
<1>9. Cardinality(Smaller(J, i)) # 0
  BY <1>7, <1>8, FS_EmptySet
<1>10. CASE K(Statement[i].kind) = 1
  BY <1>8, <1>9, <1>10
<1>11. CASE K(Statement[i].kind) = 2
  <2> DEFINE T == S \ {m}
  <2>1. T \in SUBSET Nat /\ T \subseteq S /\ IsFiniteSet(T) /\ Cardinality(T) = Cardinality(S) - 1
    BY <1>1, FS_RemoveElement
  <2>2. T # {}
    BY <1>1, <1>2, <1>11, <2>1, FS_EmptySet
  <2>3. PICK n \in T : \A x \in T : n <= x
    BY <2>1, <2>2, LeastNatural
  <2>4. Smaller(I, n) = {m}
    <3>1. Smaller(I, n) = {x \in S : x < n}
      BY <2>3, SmallerIsTransitive
    <3>2. \A x \in S : x < n <=> x = m
      BY <1>1, <1>4, <2>1, <2>3
    <3> QED  BY <1>4, <3>1, <3>2
  <2>5. Statement[n].kind = Statement[i].kind
    BY <2>3 DEF Smaller, SameGroup
  <2>6. n \in J
    <3>1. Cardinality(Smaller(I, n)) = 1
      BY <2>4, FS_Singleton
    <3>2. Stays(I, n)
      BY <1>11, <2>5, <3>1 DEF Stays
    <3> QED  BY <1>1, <2>3, <3>2
  <2>7. {m, n} \in SUBSET Smaller(J, i)
    BY <1>7, <2>3, <2>6 DEF Smaller
  <2>8. Cardinality({m, n}) = 2
    BY <2>3, CardinalityOfPair
  <2>9. 2 <= Cardinality(Smaller(J, i))
    BY <1>8, <2>7, <2>8, FS_Subset
  <2> QED  BY <1>8, <1>11, <2>9
<1> QED  BY <1>2, <1>10, <1>11

\* Taking the canonical form of a part first loses nothing: whatever was left
\* out would be left out of the whole as well.
THEOREM CanonAbsorbs ==
  ASSUME NEW A \in SUBSET Record, NEW B \in SUBSET Record
  PROVE  Canon(Canon(A) \cup B) = Canon(A \cup B)
<1> DEFINE U == A \cup B
           V == Canon(A) \cup B
<1>1. V \subseteq U /\ IdsOf(V) \subseteq IdsOf(U) /\ IdsOf(U) \subseteq Id
  BY DEF Canon, IdsOf, Record
<1>2. ASSUME NEW r \in Canon(U) PROVE r \in V
  <2>1. r \in U /\ HasLeastSig(U, r) /\ Stays(IdsOf(U), r.id) /\ r.id \in Id
    BY <1>1 DEF Canon, Record
  <2>2. CASE r \in A
    <3>1. HasLeastSig(A, r)
      BY <2>1 DEF HasLeastSig
    <3>2. IdsOf(A) \in SUBSET IdsOf(U)
      BY DEF IdsOf
    <3>3. Stays(IdsOf(A), r.id)
      BY <1>1, <2>1, <3>2, StaysAmongFewer
    <3> QED  BY <2>2, <3>1, <3>3 DEF Canon
  <2> QED  BY <2>1, <2>2
<1>3. ASSUME NEW j \in IdsOf(U), Stays(IdsOf(U), j)
      PROVE  \E r \in Canon(U) : r.id = j /\ r \in V
  <2>1. PICK r \in U : r.id = j /\ HasLeastSig(U, r)
    BY LeastSignature
  <2>2. r \in Canon(U)
    BY <1>3, <2>1 DEF Canon
  <2> QED  BY <1>2, <2>1, <2>2
<1>4. ASSUME NEW r \in Canon(U) PROVE r \in Canon(V)
  <2>1. r \in V
    BY <1>2
  <2>2. HasLeastSig(U, r) /\ Stays(IdsOf(U), r.id) /\ r.id \in Id
    BY <1>1 DEF Canon, Record
  <2>3. HasLeastSig(V, r)
    BY <1>1, <2>2 DEF HasLeastSig
  <2>4. Stays(IdsOf(V), r.id)
    BY <1>1, <2>2, StaysAmongFewer
  <2> QED  BY <2>1, <2>3, <2>4 DEF Canon
<1>5. ASSUME NEW r \in Canon(V) PROVE r \in Canon(U)
  <2>1. r \in V /\ r \in U /\ HasLeastSig(V, r) /\ Stays(IdsOf(V), r.id) /\ r.id \in Id
    BY <1>1 DEF Canon, Record
  <2>2. \A j \in IdsOf(U) : Stays(IdsOf(U), j) => j \in IdsOf(V)
    BY <1>3 DEF IdsOf
  <2>3. Stays(IdsOf(U), r.id)
    BY <1>1, <2>1, <2>2, EvictedByTheKept
  <2>4. PICK x \in Canon(U) : x.id = r.id /\ x \in V
    BY <1>3, <2>1, <2>3 DEF IdsOf
  <2>5. HasLeastSig(U, x)
    BY DEF Canon
  <2>6. x.sig \in Nat /\ r.sig \in Nat /\ \A y \in U : y.sig \in Nat
    BY <1>1, <2>1, <2>4, SigAssumption DEF Record
  <2>7. HasLeastSig(U, r)
    BY <2>1, <2>4, <2>5, <2>6 DEF HasLeastSig
  <2> QED  BY <2>1, <2>3, <2>7 DEF Canon
<1> QED  BY <1>4, <1>5

\* The canonical form is a state that decodes: it repeats no id.
LEMMA CanonIsState ==
  ASSUME NEW A \in SUBSET GenuineRecords
  PROVE  /\ Canon(A) \in SUBSET GenuineRecords
         /\ Canon(A) \subseteq A
         /\ IsState(Canon(A))
<1>1. Canon(A) \subseteq A /\ A \subseteq Record
  BY DEF Canon, GenuineRecords
<1>2. ASSUME NEW r \in Canon(A), NEW x \in Canon(A), r.id = x.id PROVE r = x
  <2>1. r.sig <= x.sig /\ x.sig <= r.sig
    BY <1>1, <1>2 DEF Canon, HasLeastSig
  <2>2. r.sig \in Nat /\ x.sig \in Nat /\ r \in Record /\ x \in Record
    BY <1>1, SigAssumption DEF Record
  <2> QED  BY <1>2, <2>1, <2>2 DEF Record
<1> QED  BY <1>1, <1>2 DEF IsState

\* On genuine records a merge computes the canonical form of the union.
THEOREM MergeIsCanon ==
  ASSUME NEW A \in SUBSET GenuineRecords, NEW B \in SUBSET GenuineRecords
  PROVE  /\ Merge(A, B) = Canon(A \cup B)
         /\ ApplyDelta(A, B) = Canon(A \cup B)
<1> DEFINE U == A \cup B
           M == {r \in U : HasLeastSig(U, r)}
<1>1. \A r \in U : r \in Record /\ r.sig \in Nat /\ Verify(r)
  BY SigAssumption DEF GenuineRecords, Record
<1>2. {r \in B : Verify(r)} = B
  BY <1>1
<1>3. ASSUME NEW r \in U
      PROVE  (\A x \in U \ {r} : x.id = r.id => Beats(r, x)) <=> HasLeastSig(U, r)
  <2>1. ASSUME NEW x \in U, x.id = r.id, x # r PROVE x.sig # r.sig
    BY <1>1, <2>1 DEF Record
  <2>2. ASSUME NEW x \in U PROVE Beats(r, x) <=> r.sig < x.sig
    BY <1>1 DEF Beats
  <2> QED  BY <1>1, <2>1, <2>2 DEF HasLeastSig
<1>4. AbsorbAll(A, B) = M
  BY <1>2, <1>3 DEF AbsorbAll
<1>5. IdsOf(M) = IdsOf(U)
  <2>1. U \in SUBSET Record
    BY <1>1
  <2>2. ASSUME NEW i \in IdsOf(U) PROVE i \in IdsOf(M)
    BY <2>1, LeastSignature DEF IdsOf
  <2> QED  BY <2>2 DEF IdsOf
<1>6. Evict(M) = Canon(U)
  BY <1>5 DEF Evict, Canon
<1> QED  BY <1>4, <1>6 DEF Merge, ApplyDelta

\* What does not verify is as if it had not come: applying any delta to a genuine
\* state gives the canonical form of what is genuine in both.
THEOREM ApplyIsCanon ==
  ASSUME NEW A \in SUBSET GenuineRecords, NEW D \in SUBSET Record
  PROVE  ApplyDelta(A, D) = Canon(A \cup {r \in D : Verify(r)})
<1> DEFINE G == {r \in D : Verify(r)}
<1>1. G \in SUBSET GenuineRecords
  BY DEF GenuineRecords
<1>2. {r \in G : Verify(r)} = G
  OBVIOUS
<1>3. AbsorbAll(A, D) = AbsorbAll(A, G)
  BY <1>2 DEF AbsorbAll
<1>4. ApplyDelta(A, D) = ApplyDelta(A, G)
  BY <1>3 DEF ApplyDelta
<1> QED  BY <1>1, <1>4, MergeIsCanon

\* filter_valid of a genuine state is its canonical form.
THEOREM FilterIsCanon ==
  ASSUME NEW A \in SUBSET GenuineRecords
  PROVE  FilterValid(A) = Canon(A)
BY MergeIsCanon DEF FilterValid, Empty

\* Merging is associative, commutative and idempotent, whatever the network
\* had normalised before.
THEOREM MergeIsMonoid ==
  ASSUME NEW A \in SUBSET GenuineRecords, NEW B \in SUBSET GenuineRecords,
         NEW C \in SUBSET GenuineRecords
  PROVE  /\ Merge(A, B) = Merge(B, A)
         /\ Merge(Merge(A, B), C) = Merge(A, Merge(B, C))
         /\ Merge(FilterValid(A), FilterValid(A)) = FilterValid(A)
         /\ Merge(FilterValid(A), Empty) = FilterValid(A)
<1>1. A \cup B \in SUBSET GenuineRecords /\ B \cup C \in SUBSET GenuineRecords
      /\ A \in SUBSET Record /\ B \in SUBSET Record /\ C \in SUBSET Record
      /\ A \cup B \in SUBSET Record /\ B \cup C \in SUBSET Record
      /\ Empty \in SUBSET GenuineRecords /\ Empty \in SUBSET Record
  BY DEF GenuineRecords, Empty
<1>2. Merge(A, B) = Merge(B, A)
  <2>1. A \cup B = B \cup A
    OBVIOUS
  <2>2. Merge(A, B) = Canon(A \cup B) /\ Merge(B, A) = Canon(B \cup A)
    BY MergeIsCanon
  <2> QED  BY <2>1, <2>2
<1>3. Merge(Merge(A, B), C) = Canon((A \cup B) \cup C)
  <2>1. Merge(A, B) = Canon(A \cup B) /\ Canon(A \cup B) \in SUBSET GenuineRecords
    BY <1>1, MergeIsCanon, CanonIsState
  <2>2. Merge(Canon(A \cup B), C) = Canon(Canon(A \cup B) \cup C)
    BY <2>1, MergeIsCanon
  <2> QED  BY <1>1, <2>1, <2>2, CanonAbsorbs
<1>4. Merge(A, Merge(B, C)) = Canon((B \cup C) \cup A)
  <2>1. Merge(B, C) = Canon(B \cup C) /\ Canon(B \cup C) \in SUBSET GenuineRecords
    BY <1>1, MergeIsCanon, CanonIsState
  <2>2. Merge(A, Canon(B \cup C)) = Canon(A \cup Canon(B \cup C))
    BY <2>1, MergeIsCanon
  <2>3. A \cup Canon(B \cup C) = Canon(B \cup C) \cup A
    OBVIOUS
  <2> QED  BY <1>1, <2>1, <2>2, <2>3, CanonAbsorbs
<1>5. (A \cup B) \cup C = (B \cup C) \cup A
  OBVIOUS
<1>6. FilterValid(A) = Canon(A) /\ Canon(A) \in SUBSET GenuineRecords
      /\ Canon(Canon(A) \cup Empty) = Canon(A)
  <2>1. A \cup Empty = A
    BY DEF Empty
  <2> QED  BY <1>1, <2>1, FilterIsCanon, CanonIsState, CanonAbsorbs
<1>7. Canon(A) \cup Canon(A) = Canon(A) \cup Empty
  BY DEF Empty
<1>8. Merge(FilterValid(A), FilterValid(A)) = FilterValid(A)
  BY <1>6, <1>7, MergeIsCanon
<1>9. Merge(FilterValid(A), Empty) = FilterValid(A)
  BY <1>1, <1>6, MergeIsCanon
<1> QED  BY <1>2, <1>3, <1>4, <1>5, <1>8, <1>9

\* An accepted update leaves the canonical form of all that was stored and all
\* that came.
THEOREM UpdateIsCanon ==
  ASSUME NEW A \in SUBSET GenuineRecords, NEW S \in SUBSET GenuineRecords,
         NEW D \in SUBSET GenuineRecords
  PROVE  UpdateState(A, [state |-> S, delta |-> D]) = Canon((A \cup S) \cup D)
<1>1. A \cup S \in SUBSET GenuineRecords /\ A \in SUBSET Record /\ S \in SUBSET Record
      /\ D \in SUBSET Record /\ A \cup S \in SUBSET Record
  BY DEF GenuineRecords
<1>2. FilterValid(A) = Canon(A) /\ Canon(A) \in SUBSET GenuineRecords
  BY FilterIsCanon, CanonIsState
<1>3. Merge(Canon(A), S) = Canon(A \cup S)
  BY <1>1, <1>2, MergeIsCanon, CanonAbsorbs
<1>4. Canon(A \cup S) \in SUBSET GenuineRecords
  BY <1>1, CanonIsState
<1>5. ApplyDelta(Canon(A \cup S), D) = Canon((A \cup S) \cup D)
  BY <1>1, <1>4, MergeIsCanon, CanonAbsorbs
<1> QED  BY <1>2, <1>3, <1>5 DEF UpdateState
==============================================================================
