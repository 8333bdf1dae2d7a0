--------------------------- MODULE Identity_proofs ---------------------------
(***************************************************************************)
(* Proofs about Identity for every finite set of records and any number of *)
(* publications, full and affected.                                        *)
(*                                                                         *)
(* What a publication writes is compared with what it read: the ids it     *)
(* assigns are claimed by an anchor each or new, and what an affected      *)
(* closure does not reach is as a full publication would leave it.         *)
(***************************************************************************)
EXTENDS Identity, FiniteSetTheorems, WellFoundedInduction, TLAPS

\* What a publication over S may be of.
Scoped(S, p) ==
  /\ S \subseteq Records /\ p \in Resolutions
  /\ MembershipClosed(S) /\ EdgeClosed(S, p) /\ ChangedOnlyIn(S, p)

\* The keys that get a new id, and the ids that are given.
Fresh(S, p) == {k \in Keys(S, p) : Claims(S, p, k) = {}}
Used(S, p) == {Assigned(S, p)[k] : k \in Keys(S, p)}

\* What the publication writes.
Registry(S, p) == NextRegistry(S, p, Assigned(S, p))
Members(S, p) == NextMember(S, p, Assigned(S, p))
Aliases(S, p) == NewAliases(S, p, Assigned(S, p))
Splits(S, p) == NewSplits(S, p, Assigned(S, p))

\* Aliases form a forest, of ids that are no longer active.
AliasesOk ==
  AliasesValid(aliases, Issued) /\ \A a \in aliases : ~Active(a.from)

\* The inductive invariant.
IInv ==
  /\ TypeOK /\ IsFiniteSet(Issued)
  /\ LedgerMatchesResolution
  /\ AliasesOk
  /\ ReconcileNeverFails

-----------------------------------------------------------------------------
(* The first of some numbers.                                              *)

LEMMA NatFirst ==
  ASSUME NEW N \in SUBSET Nat, N # {}
  PROVE  \E i \in N : \A j \in N : i <= j
<1> DEFINE less == OpToRel(<, Nat)
<1>1. IsWellFoundedOn(less, Nat)
  BY NatLessThanWellFounded
<1>2. \A i, j \in Nat : <<j, i>> \in less <=> j < i
  BY DEF OpToRel
<1> HIDE DEF less
<1>3. \E i \in N : \A j \in N : ~(<<j, i>> \in less)
  BY <1>1, WFMin
<1>4. PICK i \in N : \A j \in N : ~(<<j, i>> \in less)
  BY <1>3
<1>5. \A j \in N : j \in Nat /\ i \in Nat /\ ~(j < i)
  BY <1>2, <1>4
<1>6. \A j \in N : i <= j
  BY <1>5
<1> QED BY <1>6

\* The first by a number of each, then by itself.
LEMMA LexFirst ==
  ASSUME NEW T \in SUBSET Nat, T # {}, NEW f \in [T -> Nat]
  PROVE  \E r \in T : \A s \in T \ {r} : f[r] < f[s] \/ (f[r] = f[s] /\ r < s)
<1> DEFINE N == {f[r] : r \in T}
<1>1. N \in SUBSET Nat /\ N # {}
  OBVIOUS
<1>2. PICK m \in N : \A n \in N : m <= n
  <2> HIDE DEF N
  <2> QED BY <1>1, NatFirst
<1> DEFINE U == {r \in T : f[r] = m}
<1>3. U \in SUBSET Nat /\ U # {}
  BY <1>2
<1>4. PICK r \in U : \A s \in U : r <= s
  <2> HIDE DEF U
  <2> QED BY <1>3, NatFirst
<1>5. r \in T /\ f[r] = m
  BY <1>4
<1>6. ASSUME NEW s \in T \ {r}
      PROVE  f[r] < f[s] \/ (f[r] = f[s] /\ r < s)
  <2>1. f[s] \in Nat /\ m \in Nat /\ m <= f[s] /\ r \in Nat /\ s \in Nat /\ s # r
    BY <1>1, <1>2, <1>5
  <2>2. CASE f[s] = m
    <3>1. r <= s
      BY <1>4, <2>2
    <3> QED BY <1>5, <2>1, <2>2, <3>1
  <2>3. CASE f[s] # m
    BY <1>5, <2>1, <2>3
  <2> QED BY <2>2, <2>3
<1> QED BY <1>5, <1>6

\* The rank of an element among those not smaller is a number of its own, and
\* every number up to the size of the set is a rank.
LEMMA Ranks ==
  ASSUME NEW F \in SUBSET Nat, IsFiniteSet(F)
  PROVE  /\ Cardinality(F) \in Nat
         /\ \A k \in F : Cardinality({j \in F : j >= k}) \in 1 .. Cardinality(F)
         /\ \A j, k \in F : j # k =>
              Cardinality({x \in F : x >= j}) # Cardinality({x \in F : x >= k})
         /\ \A m \in 1 .. Cardinality(F) : \E k \in F : Cardinality({j \in F : j >= k}) = m
<1> DEFINE above(k) == {j \in F : j >= k}
           rank == [k \in F |-> Cardinality(above(k))]
           n == Cardinality(F)
<1>1. n \in Nat
  BY FS_CardinalityType
<1>2. ASSUME NEW k \in F
      PROVE  IsFiniteSet(above(k)) /\ Cardinality(above(k)) \in 1 .. n
  <2>1. above(k) \in SUBSET F /\ k \in above(k)
    OBVIOUS
  <2>2. IsFiniteSet(above(k)) /\ Cardinality(above(k)) <= n
    BY <2>1, FS_Subset
  <2>3. Cardinality(above(k)) \in Nat /\ Cardinality(above(k)) # 0
    <3> HIDE DEF above
    <3> QED BY <2>1, <2>2, FS_CardinalityType, FS_EmptySet
  <2> QED BY <1>1, <2>2, <2>3
<1>3. ASSUME NEW j \in F, NEW k \in F, j < k
      PROVE  Cardinality(above(j)) # Cardinality(above(k))
  <2>1. above(k) \in SUBSET above(j)
    <3>1. \A x \in F : x >= k => x >= j
      BY <1>3
    <3> QED BY <3>1
  <2>2. j \in above(j) /\ j \notin above(k)
    BY <1>3
  <2> HIDE DEF above
  <2>3. Cardinality(above(j)) = Cardinality(above(k)) => above(j) = above(k)
    BY <1>2, <2>1, FS_Subset
  <2> QED BY <2>2, <2>3
<1>4. \A j, k \in F : j # k => Cardinality(above(j)) # Cardinality(above(k))
  <2> SUFFICES ASSUME NEW j \in F, NEW k \in F, j # k
               PROVE  Cardinality(above(j)) # Cardinality(above(k))
    OBVIOUS
  <2>1. j \in Nat /\ k \in Nat
    OBVIOUS
  <2>2. j < k \/ k < j
    BY <2>1
  <2> HIDE DEF above
  <2> QED BY <1>3, <2>2
<1>5. \A m \in 1 .. n : \E k \in F : rank[k] = m
  <2> HIDE DEF above, n
  <2>1. rank \in [F -> 1 .. n]
    BY <1>2
  <2>2. rank \in Injection(F, 1 .. n)
    BY <1>4, <2>1 DEF Injection, IsInjective
  <2>3. IsFiniteSet(1 .. n) /\ Cardinality(1 .. n) = n
    BY <1>1, FS_Interval
  <2>4. rank \in Surjection(F, 1 .. n)
    BY <2>2, <2>3, FS_Injection DEF n
  <2> QED BY <2>4 DEF Surjection
<1> QED BY <1>1, <1>2, <1>4, <1>5

-----------------------------------------------------------------------------
(* The ledger and a resolution.                                            *)

\* What the ledger says of the records.
LEMMA RowsAre ==
  ASSUME IInv
  PROVE  /\ DOMAIN resolved \subseteq Known /\ Known \subseteq Records
         /\ \A r \in Known :
              /\ r \in Nat /\ member[r].id \in Issued /\ member[r].first \in 1 .. revision
              /\ member[r].active <=> r \in DOMAIN resolved
         /\ \A r \in DOMAIN resolved : Active(member[r].id)
         /\ \A i \in Issued : Active(i) => \E r \in DOMAIN resolved : member[r].id = i
         /\ \A r, s \in DOMAIN resolved : member[r].id = member[s].id <=> resolved[r] = resolved[s]
         /\ revision \in Nat
<1>1. /\ {r \in Known : member[r].active} = DOMAIN resolved
      /\ \A r, s \in DOMAIN resolved : member[r].id = member[s].id <=> Together(resolved, r, s)
      /\ {i \in Issued : Active(i)} = {member[r].id : r \in DOMAIN resolved}
  BY DEF IInv, LedgerMatchesResolution
<1>2. /\ Known \subseteq Records /\ revision \in 0 .. MaxRevision
      /\ \A r \in Known : member[r] \in [id : Issued, active : BOOLEAN, first : 1 .. revision]
  BY DEF IInv, TypeOK
<1>3. \A r \in Known : r \in Nat /\ member[r].id \in Issued /\ member[r].first \in 1 .. revision
  BY <1>2, RecordsAssumption
<1>4. \A r \in Known : member[r].active <=> r \in DOMAIN resolved
  BY <1>1
<1>5. revision \in Nat
  BY <1>2, BoundsAssumption
<1>6. \A r, s \in DOMAIN resolved : member[r].id = member[s].id <=> resolved[r] = resolved[s]
  BY <1>1 DEF Together
<1>7. \A r \in DOMAIN resolved : Active(member[r].id)
  BY <1>1
<1>8. \A i \in Issued : Active(i) => \E r \in DOMAIN resolved : member[r].id = i
  BY <1>1
<1> QED BY <1>1, <1>2, <1>3, <1>4, <1>5, <1>6, <1>7, <1>8

\* What the registry says of an id.
LEMMA IdsAre ==
  ASSUME IInv
  PROVE  /\ Issued = 1 .. Cardinality(Issued) /\ Cardinality(Issued) \in Nat
         /\ Issued \subseteq Nat /\ IsFiniteSet(Issued)
         /\ \A i \in Issued :
              /\ registry[i] \in [status : Statuses, created : 1 .. revision, retired : 0 .. revision]
              /\ registry[i].created \in Nat
<1>1. IsFiniteSet(Issued) /\ Issued = 1 .. Cardinality(Issued)
  BY DEF IInv, TypeOK
<1>2. Cardinality(Issued) \in Nat
  BY <1>1, FS_CardinalityType
<1>3. \A i \in Issued :
        registry[i] \in [status : Statuses, created : 1 .. revision, retired : 0 .. revision]
  BY DEF IInv, TypeOK
<1>4. Issued \subseteq Nat
  BY <1>1, <1>2
<1>5. \A n \in 1 .. revision : n \in Nat
  BY RowsAre
<1>6. \A i \in Issued : registry[i].created \in Nat
  BY <1>3, <1>5
<1> QED BY <1>1, <1>2, <1>3, <1>4, <1>6

LEMMA ResolutionIs ==
  ASSUME NEW p \in Resolutions
  PROVE  /\ DOMAIN p \subseteq Records /\ p \in ResolutionsOf(DOMAIN p)
         /\ \A r \in DOMAIN p : p[r] \in DOMAIN p /\ p[r] \in Nat /\ p[p[r]] = p[r]
<1>1. PICK A \in Populations : p \in ResolutionsOf(A)
  BY DEF Resolutions
<1>2. A \subseteq Records
  BY DEF Populations
<1>3. DOMAIN p = A /\ \A r \in A : p[r] \in A /\ p[p[r]] = p[r]
  BY <1>1 DEF ResolutionsOf
<1> QED BY <1>1, <1>2, <1>3, RecordsAssumption

\* The keys are numbers, finitely many.
LEMMA KeysAre ==
  ASSUME NEW S \in SUBSET Records, NEW p \in Resolutions
  PROVE  /\ Keys(S, p) \subseteq Nat /\ IsFiniteSet(Keys(S, p))
         /\ Fresh(S, p) \subseteq Keys(S, p) /\ Fresh(S, p) \in SUBSET Nat
         /\ IsFiniteSet(Fresh(S, p))
<1>1. Keys(S, p) \in SUBSET Records
  BY ResolutionIs DEF Keys
<1>2. IsFiniteSet(Keys(S, p))
  BY <1>1, RecordsAssumption, FS_Subset
<1>3. Fresh(S, p) \in SUBSET Keys(S, p)
  BY DEF Fresh
<1>4. IsFiniteSet(Fresh(S, p))
  BY <1>2, <1>3, FS_Subset
<1> QED BY <1>1, <1>2, <1>3, <1>4, RecordsAssumption

\* The continuing members of an id are its records that stay active in S.
LEMMA ContinuingIs ==
  ASSUME IInv, NEW S, NEW p, NEW i
  PROVE  Continuing(S, p, i) =
           {r \in DOMAIN resolved : r \in S /\ r \in DOMAIN p /\ member[r].id = i}
  BY RowsAre DEF Continuing

\* The anchor is a continuing member, before all others.
LEMMA AnchorIs ==
  ASSUME IInv, NEW S, NEW p, NEW i, Continuing(S, p, i) # {}
  PROVE  /\ Anchor(S, p, i) \in Continuing(S, p, i)
         /\ \A s \in Continuing(S, p, i) \ {Anchor(S, p, i)} : AnchorBefore(Anchor(S, p, i), s)
<1> DEFINE T == Continuing(S, p, i)
           f == [r \in T |-> member[r].first]
<1>1. T \in SUBSET Nat /\ f \in [T -> Nat]
  <2>1. T \subseteq Known
    BY DEF Continuing
  <2> HIDE DEF T
  <2>2. \A r \in T : r \in Nat /\ member[r].first \in Nat
    BY <2>1, RowsAre
  <2> QED BY <2>2
<1>2. \E r \in T : \A s \in T \ {r} : f[r] < f[s] \/ (f[r] = f[s] /\ r < s)
  <2> HIDE DEF T, f
  <2> QED BY <1>1, LexFirst DEF T
<1>3. \E r \in T : \A s \in T \ {r} : AnchorBefore(r, s)
  <2> HIDE DEF T
  <2> QED BY <1>2 DEF AnchorBefore
<1> QED BY <1>3 DEF Anchor

\* The oldest of some ids.
LEMMA OldestIs ==
  ASSUME IInv, NEW I \in SUBSET Issued, I # {}
  PROVE  Oldest(I) \in I /\ \A j \in I \ {Oldest(I)} : IdBefore(Oldest(I), j)
<1> DEFINE f == [i \in I |-> registry[i].created]
<1>1. I \in SUBSET Nat /\ f \in [I -> Nat]
  BY IdsAre
<1>2. \E r \in I : \A s \in I \ {r} : f[r] < f[s] \/ (f[r] = f[s] /\ r < s)
  <2> HIDE DEF f
  <2> QED BY <1>1, LexFirst
<1>3. \E r \in I : \A s \in I \ {r} : IdBefore(r, s)
  BY <1>2 DEF IdBefore
<1> QED BY <1>3 DEF Oldest

-----------------------------------------------------------------------------
(* The ids assigned.                                                       *)

\* A component gets its oldest claim, or the number of issued ids and its rank.
LEMMA AssignedIs ==
  ASSUME IInv, NEW S \in SUBSET Records, NEW p \in Resolutions
  PROVE  /\ DOMAIN Assigned(S, p) = Keys(S, p)
         /\ \A k \in Keys(S, p) \ Fresh(S, p) :
              /\ Assigned(S, p)[k] = Oldest(Claims(S, p, k))
              /\ Assigned(S, p)[k] \in Claims(S, p, k)
              /\ \A j \in Claims(S, p, k) \ {Assigned(S, p)[k]} : IdBefore(Assigned(S, p)[k], j)
         /\ \A k \in Fresh(S, p) :
              Assigned(S, p)[k] = Cardinality(Issued) + Cardinality({j \in Fresh(S, p) : j >= k})
<1>1. Assigned(S, p) = [k \in Keys(S, p) |->
         IF k \in Fresh(S, p)
         THEN Cardinality(Issued) + Cardinality({j \in Fresh(S, p) : j >= k})
         ELSE Oldest(Claims(S, p, k))]
  <2> DEFINE claims == [k \in Keys(S, p) |-> Claims(S, p, k)]
             fresh == {k \in Keys(S, p) : claims[k] = {}}
  <2>1. fresh = Fresh(S, p)
    BY DEF Fresh
  <2>2. Assigned(S, p) = [k \in Keys(S, p) |->
         IF k \in fresh
         THEN Cardinality(Issued) + Cardinality({j \in fresh : j >= k})
         ELSE Oldest(claims[k])]
    BY DEF Assigned
  <2>3. \A k \in Keys(S, p) : claims[k] = Claims(S, p, k)
    OBVIOUS
  <2> HIDE DEF claims, fresh
  <2> QED BY <2>1, <2>2, <2>3
<1>2. \A k \in Fresh(S, p) : k \in Keys(S, p)
  BY DEF Fresh
<1>3. ASSUME NEW k \in Keys(S, p) \ Fresh(S, p)
      PROVE  /\ Assigned(S, p)[k] = Oldest(Claims(S, p, k))
             /\ Assigned(S, p)[k] \in Claims(S, p, k)
             /\ \A j \in Claims(S, p, k) \ {Assigned(S, p)[k]} : IdBefore(Assigned(S, p)[k], j)
  <2>1. Claims(S, p, k) \in SUBSET Issued
    BY DEF Claims, OldIds
  <2>2. Claims(S, p, k) # {}
    BY DEF Fresh
  <2>3. Assigned(S, p)[k] = Oldest(Claims(S, p, k))
    BY <1>1
  <2> QED BY <2>1, <2>2, <2>3, OldestIs
<1> QED BY <1>1, <1>2, <1>3

\* No id is given twice; the ids after the publication are an interval again;
\* what was issued before is given only where it is claimed.
LEMMA AssignedOnce ==
  ASSUME IInv, NEW S \in SUBSET Records, NEW p \in Resolutions
  PROVE  /\ \A j, k \in Keys(S, p) : j # k => Assigned(S, p)[j] # Assigned(S, p)[k]
         /\ \A k \in Keys(S, p) :
              Assigned(S, p)[k] \in Issued => Assigned(S, p)[k] \in Claims(S, p, k)
         /\ \A k \in Keys(S, p) : k \in Fresh(S, p) <=> Assigned(S, p)[k] \notin Issued
         /\ IsFiniteSet(Issued \cup Used(S, p))
         /\ Issued \cup Used(S, p) = 1 .. Cardinality(Issued \cup Used(S, p))
<1> DEFINE F == Fresh(S, p)
           new == Assigned(S, p)
           n == Cardinality(Issued)
           rank(k) == Cardinality({j \in F : j >= k})
<1>1. /\ \A k \in Keys(S, p) \ F : new[k] \in Claims(S, p, k)
      /\ \A k \in F : new[k] = n + rank(k)
  BY AssignedIs
<1>2. \A k \in Keys(S, p) : Claims(S, p, k) \subseteq Issued
  BY DEF Claims, OldIds
<1>3. n \in Nat /\ Issued = 1 .. n
  BY IdsAre
<1>4. F \in SUBSET Nat /\ IsFiniteSet(F) /\ F \subseteq Keys(S, p)
  BY KeysAre
<1>5. /\ Cardinality(F) \in Nat
      /\ \A k \in F : rank(k) \in 1 .. Cardinality(F)
      /\ \A j, k \in F : j # k => rank(j) # rank(k)
      /\ \A m \in 1 .. Cardinality(F) : \E k \in F : rank(k) = m
  <2> HIDE DEF F
  <2> QED BY <1>4, Ranks
<1> DEFINE m == n + Cardinality(F)
<1> HIDE DEF F, new, n, rank
<1>6. \A k \in F : new[k] \in n + 1 .. m /\ new[k] \notin Issued
  BY <1>1, <1>3, <1>5
<1>7. \A j, k \in Keys(S, p) : j # k => Claims(S, p, j) \cap Claims(S, p, k) = {}
  BY DEF Claims
<1>8. \A j, k \in Keys(S, p) : j # k => new[j] # new[k]
  <2> SUFFICES ASSUME NEW j \in Keys(S, p), NEW k \in Keys(S, p), j # k
               PROVE  new[j] # new[k]
    OBVIOUS
  <2>1. CASE j \in F /\ k \in F
    BY <1>1, <1>3, <1>5, <2>1
  <2>2. CASE j \notin F /\ k \notin F
    BY <1>1, <1>7, <2>2
  <2>3. CASE (j \in F) # (k \in F)
    BY <1>1, <1>2, <1>6, <2>3
  <2> QED BY <2>1, <2>2, <2>3
<1>9. \A k \in Keys(S, p) : k \in F <=> new[k] \notin Issued
  BY <1>1, <1>2, <1>6
<1>10. \A k \in Keys(S, p) : new[k] \in Issued => new[k] \in Claims(S, p, k)
  BY <1>1, <1>9
<1>11. Issued \cup Used(S, p) = 1 .. m
  <2>1. ASSUME NEW i \in n + 1 .. m
        PROVE  \E k \in Keys(S, p) : new[k] = i
    <3>1. i - n \in 1 .. Cardinality(F)
      BY <1>3, <1>5
    <3>2. PICK k \in F : rank(k) = i - n
      BY <1>5, <3>1
    <3>3. new[k] = i
      BY <1>1, <1>3, <3>2
    <3> QED BY <1>4, <3>3
  <2>2. \A k \in Keys(S, p) : new[k] \in 1 .. m
    <3>1. \A i \in 1 .. n : i \in 1 .. m
      BY <1>3, <1>5
    <3>2. \A i \in n + 1 .. m : i \in 1 .. m
      BY <1>3, <1>5
    <3> QED BY <1>1, <1>2, <1>3, <1>6, <3>1, <3>2
  <2>3. \A i \in 1 .. m : i \in 1 .. n \/ i \in n + 1 .. m
    BY <1>3, <1>5
  <2>4. \A i \in 1 .. n : i \in 1 .. m
    BY <1>3, <1>5
  <2>5. Used(S, p) = {new[k] : k \in Keys(S, p)}
    BY DEF Used, new
  <2> HIDE DEF m
  <2> QED BY <1>3, <2>1, <2>2, <2>3, <2>4, <2>5
<1>12. m \in Nat
  BY <1>3, <1>5
<1>13. IsFiniteSet(1 .. m) /\ Cardinality(1 .. m) = m
  <2> HIDE DEF m
  <2> QED BY <1>12, FS_Interval
<1> QED BY <1>8, <1>9, <1>10, <1>11, <1>13 DEF F, new

\* An issued id that is given was active and stays with its anchor.
LEMMA TakenByAnchor ==
  ASSUME IInv, NEW S \in SUBSET Records, NEW p \in Resolutions, NEW k \in Keys(S, p),
         Assigned(S, p)[k] \in Issued
  PROVE  LET i == Assigned(S, p)[k]
         IN  /\ i \in OldIds(S, p) /\ Active(i)
             /\ Anchor(S, p, i) \in Continuing(S, p, i) /\ p[Anchor(S, p, i)] = k
             /\ i \in Successors(S, p, Assigned(S, p), i)
<1> DEFINE i == Assigned(S, p)[k]
<1>1. i \in Claims(S, p, k)
  BY AssignedOnce
<1>2. i \in Issued /\ Continuing(S, p, i) # {} /\ p[Anchor(S, p, i)] = k /\ i \in OldIds(S, p)
  BY <1>1 DEF Claims, OldIds
<1>3. Anchor(S, p, i) \in Continuing(S, p, i)
  BY <1>2, AnchorIs
<1>4. Active(i)
  BY <1>3, ContinuingIs, RowsAre
<1>5. i \in Successors(S, p, Assigned(S, p), i)
  BY <1>2, <1>3 DEF Successors
<1> QED BY <1>2, <1>3, <1>4, <1>5

-----------------------------------------------------------------------------
(* A publication.                                                          *)

\* What lies outside the scope: no id of it is within, and nothing changed.
LEMMA ScopeIs ==
  ASSUME IInv, NEW S, NEW p, Scoped(S, p)
  PROVE  /\ S \in SUBSET Records /\ p \in Resolutions
         /\ RegistryScope(S) \subseteq Issued /\ OldIds(S, p) \subseteq RegistryScope(S)
         /\ \A r \in Known \ S : member[r].id \notin RegistryScope(S)
         /\ \A r \in Records \ S : r \in DOMAIN p <=> r \in DOMAIN resolved
         /\ \A r, s \in DOMAIN p : r \in S /\ p[r] = p[s] => s \in S
         /\ \A r, s \in DOMAIN p \ S : p[r] = p[s] <=> resolved[r] = resolved[s]
<1>1. S \in SUBSET Records /\ p \in Resolutions /\ DOMAIN p \subseteq Records
  BY ResolutionIs DEF Scoped
<1>2. RegistryScope(S) \subseteq Issued
  BY RowsAre DEF RegistryScope
<1>3. OldIds(S, p) \subseteq RegistryScope(S)
  <2>1. ASSUME NEW i \in OldIds(S, p)
        PROVE  i \in Issued /\ \E r \in S \cap Known : member[r].id = i
    BY DEF OldIds, Continuing
  <2> QED BY <2>1 DEF RegistryScope
<1>4. ASSUME NEW r \in Known \ S
      PROVE  member[r].id \notin RegistryScope(S)
  <2>1. S # Records
    BY RowsAre
  <2>2. \A s \in S \cap Known : member[s].id # member[r].id
    BY DEF Scoped, MembershipClosed
  <2> QED BY <2>1, <2>2 DEF RegistryScope
<1>5. /\ \A r \in Records \ S : r \in DOMAIN p <=> r \in DOMAIN resolved
      /\ \A r, s \in Records \ S : Together(p, r, s) <=> Together(resolved, r, s)
  BY DEF Scoped, ChangedOnlyIn
<1>6. \A r, s \in DOMAIN p : r \in S /\ p[r] = p[s] => s \in S
  BY <1>1 DEF Scoped, EdgeClosed, Together
<1>7. \A r, s \in DOMAIN p \ S : p[r] = p[s] <=> resolved[r] = resolved[s]
  BY <1>1, <1>5 DEF Together
<1> QED BY <1>1, <1>2, <1>3, <1>4, <1>5, <1>6, <1>7

\* An issued id that is given was active, and lies within the scope.
LEMMA UsedIs ==
  ASSUME IInv, NEW S, NEW p, Scoped(S, p), NEW i \in Used(S, p), i \in Issued
  PROVE  /\ Active(i) /\ i \in OldIds(S, p) /\ i \in RegistryScope(S)
         /\ i \in Successors(S, p, Assigned(S, p), i)
<1>1. PICK k \in Keys(S, p) : i = Assigned(S, p)[k]
  BY DEF Used
<1>2. Active(i) /\ i \in OldIds(S, p) /\ i \in Successors(S, p, Assigned(S, p), i)
  BY <1>1, ScopeIs, TakenByAnchor
<1> QED BY <1>2, ScopeIs

LEMMA SuccessorsAre ==
  ASSUME NEW S, NEW p, NEW i
  PROVE  Successors(S, p, Assigned(S, p), i) \subseteq Used(S, p)
  BY DEF Successors, Used, Keys, Continuing

\* The registry that is written, id by id.
RegistryOk(S, p) ==
  /\ DOMAIN Registry(S, p) = Issued \cup Used(S, p)
  /\ \A i \in Issued :
       ~Active(i) \/ i \in Used(S, p) \/ i \notin RegistryScope(S)
         => Registry(S, p)[i] = registry[i]
  /\ \A i \in Issued :
       Active(i) /\ i \notin Used(S, p) /\ i \in RegistryScope(S)
         => \E status \in {"retired", "merged", "split"} : Registry(S, p)[i] = Retire(i, status)
  /\ \A i \in Used(S, p) \ Issued :
       Registry(S, p)[i] = [status |-> "active", created |-> revision + 1, retired |-> 0]

LEMMA RegistryIs ==
  ASSUME IInv, NEW S, NEW p, Scoped(S, p)
  PROVE  RegistryOk(S, p)
<1> DEFINE new == Assigned(S, p)
<1>1. Registry(S, p) = [i \in Issued \cup Used(S, p) |->
         IF i \in RegistryScope(S) THEN NextIdentity(S, p, new, i)
         ELSE IF i \in Issued THEN registry[i]
         ELSE [status |-> "active", created |-> revision + 1, retired |-> 0]]
  BY DEF Registry, NextRegistry, Used
<1>2. RegistryScope(S) \subseteq Issued
  BY ScopeIs
<1>3. \A i \in Issued : i \in Used(S, p) => i \in Successors(S, p, new, i)
  BY UsedIs
<1>4. \A i : Successors(S, p, new, i) \subseteq Used(S, p)
  BY SuccessorsAre
<1>5. \A i \in Issued : ~Active(i) \/ i \in Used(S, p) => NextIdentity(S, p, new, i) = registry[i]
  BY <1>3 DEF NextIdentity
<1>6. \A i \in Issued :
        Active(i) /\ i \notin Used(S, p)
          => \E status \in {"retired", "merged", "split"} : NextIdentity(S, p, new, i) = Retire(i, status)
  BY <1>4 DEF NextIdentity
<1> HIDE DEF new
<1>7. \A i \in Issued : i \notin RegistryScope(S) => Registry(S, p)[i] = registry[i]
  BY <1>1
<1>8. \A i \in RegistryScope(S) : Registry(S, p)[i] = NextIdentity(S, p, new, i)
  BY <1>1, <1>2
<1>9. \A i \in Used(S, p) \ Issued :
        Registry(S, p)[i] = [status |-> "active", created |-> revision + 1, retired |-> 0]
  BY <1>1, <1>2
<1>10. \A i \in Issued :
         ~Active(i) \/ i \in Used(S, p) \/ i \notin RegistryScope(S) => Registry(S, p)[i] = registry[i]
  BY <1>5, <1>7, <1>8
<1>11. \A i \in Issued :
         Active(i) /\ i \notin Used(S, p) /\ i \in RegistryScope(S)
           => \E status \in {"retired", "merged", "split"} : Registry(S, p)[i] = Retire(i, status)
  BY <1>6, <1>8
<1> QED BY <1>1, <1>9, <1>10, <1>11 DEF RegistryOk

\* The membership rows that are written, record by record.
MembersOk(S, p) ==
  /\ DOMAIN Members(S, p) = Known \cup (S \cap DOMAIN p)
  /\ DOMAIN p \subseteq DOMAIN Members(S, p)
  /\ \A r \in S \cap DOMAIN p :
       /\ p[r] \in Keys(S, p) /\ Assigned(S, p)[p[r]] \in Used(S, p)
       /\ Members(S, p)[r] = [id |-> Assigned(S, p)[p[r]], active |-> TRUE,
                              first |-> IF r \in Known THEN member[r].first ELSE revision + 1]
  /\ \A r \in (Known \cap S) \ DOMAIN p :
       Members(S, p)[r] = [id |-> member[r].id, active |-> FALSE, first |-> member[r].first]
  /\ \A r \in Known \ S : Members(S, p)[r] = member[r]

LEMMA MembersAre ==
  ASSUME IInv, NEW S, NEW p, Scoped(S, p)
  PROVE  MembersOk(S, p)
<1>1. Members(S, p) = [r \in Known \cup (S \cap DOMAIN p) |->
         IF r \in S \cap DOMAIN p
         THEN [id |-> Assigned(S, p)[p[r]], active |-> TRUE,
               first |-> IF r \in Known THEN member[r].first ELSE revision + 1]
         ELSE IF r \in S THEN [member[r] EXCEPT !.active = FALSE]
         ELSE member[r]]
  BY DEF Members, NextMember
<1>2. \A r \in S \cap DOMAIN p : p[r] \in Keys(S, p) /\ Assigned(S, p)[p[r]] \in Used(S, p)
  BY DEF Keys, Used
<1>3. \A r \in S \cap DOMAIN p :
        Members(S, p)[r] = [id |-> Assigned(S, p)[p[r]], active |-> TRUE,
                            first |-> IF r \in Known THEN member[r].first ELSE revision + 1]
  BY <1>1
<1>4. ASSUME NEW r \in (Known \cap S) \ DOMAIN p
      PROVE  Members(S, p)[r] = [id |-> member[r].id, active |-> FALSE, first |-> member[r].first]
  <2>1. Members(S, p)[r] = [member[r] EXCEPT !.active = FALSE]
    BY <1>1
  <2>2. member[r] \in [id : Issued, active : BOOLEAN, first : 1 .. revision]
    BY DEF IInv, TypeOK
  <2> QED BY <2>1, <2>2
<1>5. \A r \in Known \ S : Members(S, p)[r] = member[r]
  BY <1>1
<1>6. DOMAIN p \subseteq DOMAIN Members(S, p)
  <2>1. DOMAIN p \subseteq Records /\ DOMAIN resolved \subseteq Known
    BY ScopeIs, ResolutionIs, RowsAre
  <2>2. \A r \in DOMAIN p \ S : r \in Known
    BY <2>1, ScopeIs
  <2> QED BY <1>1, <2>2
<1> QED BY <1>1, <1>2, <1>3, <1>4, <1>5, <1>6 DEF MembersOk

\* The ledger that is written says what the resolution says.
MatchesOk(S, p) ==
  /\ {r \in DOMAIN Members(S, p) : Members(S, p)[r].active} = DOMAIN p
  /\ \A r \in DOMAIN Members(S, p) : Members(S, p)[r].id \in DOMAIN Registry(S, p)
  /\ \A r, s \in DOMAIN p : Members(S, p)[r].id = Members(S, p)[s].id <=> p[r] = p[s]
  /\ \A i \in DOMAIN Registry(S, p) :
       Registry(S, p)[i].status = "active" <=> \E r \in DOMAIN p : Members(S, p)[r].id = i

LEMMA MatchesNext ==
  ASSUME IInv, NEW S, NEW p, Scoped(S, p)
  PROVE  MatchesOk(S, p)
<1> DEFINE M == Members(S, p)
           R == Registry(S, p)
<1>1. S \in SUBSET Records /\ p \in Resolutions /\ DOMAIN p \subseteq Records
  BY ScopeIs, ResolutionIs
<1> DEFINE given(r) == Assigned(S, p)[p[r]]
<1>a. /\ DOMAIN M = Known \cup (S \cap DOMAIN p) /\ DOMAIN p \subseteq DOMAIN M
      /\ \A r \in S \cap DOMAIN p :
           /\ M[r].id = given(r) /\ p[r] \in Keys(S, p) /\ given(r) \in Used(S, p)
           /\ M[r].active = TRUE
      /\ \A r \in (Known \cap S) \ DOMAIN p : M[r].id = member[r].id /\ M[r].active = FALSE
      /\ \A r \in Known \ S : M[r] = member[r]
  <2>1. MembersOk(S, p)
    BY MembersAre
  <2>2. \A r \in S \cap DOMAIN p :
          /\ p[r] \in Keys(S, p) /\ given(r) \in Used(S, p)
          /\ M[r] = [id |-> given(r), active |-> TRUE,
                     first |-> IF r \in Known THEN member[r].first ELSE revision + 1]
    BY <2>1 DEF MembersOk
  <2>3. \A r \in (Known \cap S) \ DOMAIN p :
          M[r] = [id |-> member[r].id, active |-> FALSE, first |-> member[r].first]
    BY <2>1 DEF MembersOk
  <2>4. /\ DOMAIN M = Known \cup (S \cap DOMAIN p) /\ DOMAIN p \subseteq DOMAIN M
        /\ \A r \in Known \ S : M[r] = member[r]
    BY <2>1 DEF MembersOk
  <2> HIDE DEF M, given
  <2>5. \A r \in S \cap DOMAIN p : M[r].id = given(r) /\ M[r].active = TRUE
    <3>1. ASSUME NEW r \in S \cap DOMAIN p
          PROVE  M[r].id = given(r) /\ M[r].active = TRUE
      <4>1. M[r] = [id |-> given(r), active |-> TRUE,
                    first |-> IF r \in Known THEN member[r].first ELSE revision + 1]
        BY <2>2
      <4> QED BY <4>1
    <3> QED BY <3>1
  <2>6. \A r \in (Known \cap S) \ DOMAIN p : M[r].id = member[r].id /\ M[r].active = FALSE
    <3>1. ASSUME NEW r \in (Known \cap S) \ DOMAIN p
          PROVE  M[r].id = member[r].id /\ M[r].active = FALSE
      <4>1. M[r] = [id |-> member[r].id, active |-> FALSE, first |-> member[r].first]
        BY <2>3
      <4> QED BY <4>1
    <3> QED BY <3>1
  <2> QED BY <2>2, <2>4, <2>5, <2>6
<1>b. /\ DOMAIN R = Issued \cup Used(S, p)
      /\ \A i \in Issued :
           ~Active(i) \/ i \in Used(S, p) \/ i \notin RegistryScope(S) => R[i] = registry[i]
      /\ \A i \in Issued :
           Active(i) /\ i \notin Used(S, p) /\ i \in RegistryScope(S) => R[i].status # "active"
      /\ \A i \in Used(S, p) \ Issued : R[i].status = "active"
  <2>1. \A i, status : status # "active" => Retire(i, status).status # "active"
    BY DEF Retire
  <2>2. RegistryOk(S, p)
    BY RegistryIs
  <2>3. \A i \in Issued :
          Active(i) /\ i \notin Used(S, p) /\ i \in RegistryScope(S) => R[i].status # "active"
    BY <2>1, <2>2 DEF RegistryOk
  <2>4. \A i \in Used(S, p) \ Issued : R[i].status = "active"
    BY <2>2 DEF RegistryOk
  <2> QED BY <2>2, <2>3, <2>4 DEF RegistryOk
<1> HIDE DEF M, R
<1>2. \A r \in DOMAIN p \ S :
        /\ r \in Known /\ r \in DOMAIN resolved /\ M[r] = member[r] /\ Active(member[r].id)
        /\ M[r].id \in Issued /\ M[r].id \notin RegistryScope(S) /\ M[r].id \notin Used(S, p)
  <2> SUFFICES ASSUME NEW r \in DOMAIN p \ S
               PROVE  /\ r \in Known /\ r \in DOMAIN resolved /\ M[r] = member[r] /\ Active(member[r].id)
                      /\ M[r].id \in Issued /\ M[r].id \notin RegistryScope(S)
                      /\ M[r].id \notin Used(S, p)
    OBVIOUS
  <2>1. r \in DOMAIN resolved
    BY <1>1, ScopeIs
  <2>2. r \in Known /\ Active(member[r].id) /\ member[r].id \in Issued
    BY <2>1, RowsAre
  <2>3. M[r] = member[r] /\ member[r].id \notin RegistryScope(S)
    BY <1>a, <2>2, ScopeIs
  <2> QED BY <2>1, <2>2, <2>3, UsedIs
<1>3. {r \in DOMAIN M : M[r].active} = DOMAIN p
  <2>1. ASSUME NEW r \in DOMAIN M
        PROVE  M[r].active <=> r \in DOMAIN p
    <3>1. CASE r \in S \cap DOMAIN p
      BY <3>1, <1>a
    <3>2. CASE r \in (Known \cap S) \ DOMAIN p
      BY <3>2, <1>a
    <3>3. CASE r \in Known \ S
      BY <3>3, <1>a, RowsAre, ScopeIs
    <3>4. r \in Known \cup (S \cap DOMAIN p)
      BY <1>a
    <3> QED BY <3>1, <3>2, <3>3, <3>4
  <2>2. DOMAIN p \subseteq DOMAIN M
    BY <1>a
  <2> QED BY <2>1, <2>2
<1>4. \A r \in DOMAIN M : M[r].id \in DOMAIN R
  <2> SUFFICES ASSUME NEW r \in DOMAIN M PROVE M[r].id \in Issued \cup Used(S, p)
    BY <1>b
  <2>1. CASE r \in S \cap DOMAIN p
    BY <2>1, <1>a
  <2>2. CASE r \in (Known \cap S) \ DOMAIN p
    <3>1. M[r].id = member[r].id
      BY <2>2, <1>a
    <3> QED BY <2>2, <3>1, RowsAre
  <2>3. CASE r \in Known \ S
    BY <2>3, <1>a, RowsAre
  <2>4. r \in Known \cup (S \cap DOMAIN p)
    BY <1>a
  <2> QED BY <2>1, <2>2, <2>3, <2>4
<1>5. \A r, s \in DOMAIN p : M[r].id = M[s].id <=> p[r] = p[s]
  <2> SUFFICES ASSUME NEW r \in DOMAIN p, NEW s \in DOMAIN p
               PROVE  M[r].id = M[s].id <=> p[r] = p[s]
    OBVIOUS
  <2>1. CASE r \in S /\ s \in S
    <3>1. /\ M[r].id = Assigned(S, p)[p[r]] /\ M[s].id = Assigned(S, p)[p[s]]
          /\ p[r] \in Keys(S, p) /\ p[s] \in Keys(S, p)
      BY <2>1, <1>a
    <3> QED BY <1>1, <3>1, AssignedOnce
  <2>2. CASE (r \in S) # (s \in S)
    <3>1. p[r] # p[s]
      BY <2>2, ScopeIs
    <3>2. M[r].id # M[s].id
      BY <1>2, <2>2, <1>a
    <3> QED BY <3>1, <3>2
  <2>3. CASE r \notin S /\ s \notin S
    <3>1. r \in DOMAIN resolved /\ s \in DOMAIN resolved /\ M[r] = member[r] /\ M[s] = member[s]
      BY <1>2, <2>3
    <3>2. p[r] = p[s] <=> resolved[r] = resolved[s]
      BY <2>3, ScopeIs
    <3> QED BY <3>1, <3>2, RowsAre
  <2> QED BY <2>1, <2>2, <2>3
<1>6. ASSUME NEW r \in DOMAIN p
      PROVE  R[M[r].id].status = "active"
  <2>1. CASE r \notin S
    <3>1. R[M[r].id] = registry[M[r].id]
      BY <1>2, <2>1, <1>b
    <3> QED BY <1>2, <2>1, <3>1 DEF Active
  <2>2. CASE r \in S
    <3>1. M[r].id \in Used(S, p)
      BY <2>2, <1>a
    <3>2. CASE M[r].id \in Issued
      <4>1. R[M[r].id] = registry[M[r].id] /\ Active(M[r].id)
        BY <3>1, <3>2, <1>b, UsedIs
      <4> QED BY <4>1 DEF Active
    <3>3. CASE M[r].id \notin Issued
      BY <1>b, <3>1, <3>3
    <3> QED BY <3>2, <3>3
  <2> QED BY <2>1, <2>2
<1>7. ASSUME NEW i \in DOMAIN R, R[i].status = "active"
      PROVE  \E r \in DOMAIN p : M[r].id = i
  <2>1. CASE i \in Used(S, p)
    <3>1. PICK k \in Keys(S, p) : i = Assigned(S, p)[k]
      BY <2>1 DEF Used
    <3>2. PICK r \in S \cap DOMAIN p : k = p[r]
      BY DEF Keys
    <3>3. M[r].id = i
      BY <3>1, <3>2, <1>a
    <3> QED BY <3>3
  <2>2. CASE i \notin Used(S, p)
    <3>1. i \in Issued
      BY <2>2, <1>b
    <3>2. Active(i) /\ i \notin RegistryScope(S)
      <4>1. CASE ~Active(i)
        <5>1. R[i] = registry[i]
          BY <3>1, <4>1, <1>b
        <5> QED BY <1>7, <3>1, <4>1, <5>1 DEF Active
      <4>2. CASE Active(i) /\ i \in RegistryScope(S)
        BY <1>7, <1>b, <2>2, <3>1, <4>2
      <4> QED BY <4>1, <4>2
    <3>3. PICK r \in DOMAIN resolved : member[r].id = i
      BY <3>1, <3>2, RowsAre
    <3>4. r \notin S
      <4>1. r \in Known
        BY RowsAre
      <4>2. S # Records
        BY <3>1, <3>2 DEF RegistryScope
      <4> QED BY <3>2, <3>3, <4>1, <4>2 DEF RegistryScope
    <3>5. r \in DOMAIN p /\ M[r] = member[r]
      BY <3>4, RowsAre, ScopeIs, <1>a
    <3> QED BY <3>3, <3>5
  <2> QED BY <2>1, <2>2
<1>8. \A i \in DOMAIN R : R[i].status = "active" <=> \E r \in DOMAIN p : M[r].id = i
  BY <1>6, <1>7
<1> QED BY <1>3, <1>4, <1>5, <1>8 DEF MatchesOk, M, R

\* An alias is written from an active id that nobody gets to one that is given.
LEMMA AliasesAre ==
  ASSUME IInv, NEW S, NEW p, Scoped(S, p), NEW a \in Aliases(S, p)
  PROVE  /\ a = [from |-> a.from, to |-> a.to, rev |-> revision + 1]
         /\ a.from \in OldIds(S, p) /\ a.from \in Issued /\ Active(a.from)
         /\ a.from \notin Used(S, p) /\ a.to \in Used(S, p) /\ a.from # a.to
         /\ Successors(S, p, Assigned(S, p), a.from) = {a.to}
<1> DEFINE next(i) == Successors(S, p, Assigned(S, p), i)
<1>1. PICK i \in OldIds(S, p) :
        Cardinality(next(i)) = 1 /\ \E c \in next(i) \ {i} : a = Row(i, c)
  BY DEF Aliases, NewAliases
<1>2. PICK c \in next(i) \ {i} : a = Row(i, c)
  BY <1>1
<1>3. a = [from |-> i, to |-> c, rev |-> revision + 1] /\ a.from = i /\ a.to = c
  BY <1>2 DEF Row
<1>4. next(i) \subseteq Used(S, p)
  BY SuccessorsAre
<1>5. IsFiniteSet(next(i))
  <2>1. next(i) \in SUBSET (Issued \cup Used(S, p))
    BY <1>4
  <2> HIDE DEF next
  <2> QED BY <2>1, ScopeIs, AssignedOnce, FS_Subset
<1>6. next(i) = {c}
  <2> HIDE DEF next
  <2>1. \E x : next(i) = {x}
    BY <1>1, <1>5, FS_Singleton
  <2> QED BY <1>2, <2>1
<1>7. i \in Issued /\ Active(i)
  <2>1. i \in Issued /\ Continuing(S, p, i) # {}
    BY DEF OldIds
  <2> QED BY <2>1, ContinuingIs, RowsAre
<1>8. i \notin Used(S, p)
  BY <1>2, <1>6, <1>7, UsedIs
<1> QED BY <1>2, <1>3, <1>4, <1>6, <1>7, <1>8

\* Aliases stay a forest.
LEMMA AliasesGrow ==
  ASSUME IInv, NEW S, NEW p, Scoped(S, p), NEW A \in SUBSET aliases, NEW ids,
         AliasesValid(A, ids), OldIds(S, p) \subseteq ids
  PROVE  AliasesValid(A \cup Aliases(S, p), ids \cup Used(S, p))
<1> DEFINE N == Aliases(S, p)
<1>1. \A a \in A : ~Active(a.from) /\ a.from \in Issued
  BY DEF IInv, AliasesOk, AliasesValid
<1>2. \A a \in N : /\ a.from \in OldIds(S, p) /\ a.from \in Issued /\ Active(a.from)
                   /\ a.from \notin Used(S, p) /\ a.to \in Used(S, p) /\ a.from # a.to
  BY AliasesAre
<1>3. \A a, b \in N : a.from = b.from => a = b
  BY AliasesAre
<1> HIDE DEF N
<1>4. \A a \in A \cup N : a.from \in ids \cup Used(S, p) /\ a.to \in ids \cup Used(S, p) /\ a.from # a.to
  BY <1>2 DEF AliasesValid
<1>5. \A a, b \in A \cup N : a.from = b.from => a = b
  BY <1>1, <1>2, <1>3 DEF AliasesValid
<1>6. ASSUME NEW C \in SUBSET {a.from : a \in A \cup N}, C # {}
      PROVE  \E a \in A \cup N : a.from \in C /\ a.to \notin C
  <2>1. CASE \E b \in N : b.from \in C
    <3>1. PICK b \in N : b.from \in C
      BY <2>1
    <3>2. \A a \in A \cup N : a.from # b.to
      <4>1. \A a \in N : a.from # b.to
        BY <1>2
      <4>2. \A a \in A : a.from # b.to
        BY <1>1, <1>2, UsedIs
      <4> QED BY <4>1, <4>2
    <3> QED BY <3>1, <3>2
  <2>2. CASE ~\E b \in N : b.from \in C
    <3>1. C \in SUBSET {a.from : a \in A}
      BY <2>2
    <3>2. \E a \in A : a.from \in C /\ a.to \notin C
      BY <1>6, <3>1 DEF AliasesValid
    <3> QED BY <3>2
  <2> QED BY <2>1, <2>2
<1> QED BY <1>4, <1>5, <1>6 DEF AliasesValid, N

\* reconcile accepts the ledger it wrote.
LEMMA NotInvalid ==
  ASSUME IInv, NEW S, NEW p, Scoped(S, p)
  PROVE  ~Invalid(S, p, Assigned(S, p))
<1> DEFINE new == Assigned(S, p)
<1>1. ~\E r \in S \cap Known : member[r].active /\ ~Active(member[r].id)
  BY RowsAre
<1>2. AliasesValid(AliasScope(S), RegistryScope(S)) /\ AliasScope(S) \in SUBSET aliases
  <2>1. CASE S = Records
    BY <2>1 DEF AliasScope, RegistryScope, IInv, AliasesOk
  <2>2. CASE S # Records
    BY <2>2 DEF AliasScope, AliasesValid
  <2> QED BY <2>1, <2>2
<1>3. ~\E j, k \in Keys(S, p) : j # k /\ new[j] = new[k]
  <2>1. \A j, k \in Keys(S, p) : j # k => new[j] # new[k]
    BY ScopeIs, AssignedOnce
  <2> HIDE DEF new
  <2> QED BY <2>1
<1>4. AliasesValid(AliasScope(S) \cup Aliases(S, p), RegistryScope(S) \cup Used(S, p))
  BY <1>2, ScopeIs, AliasesGrow
<1> QED BY <1>1, <1>2, <1>3, <1>4 DEF Invalid, Aliases, Used

\* What a publication leaves.
LEMMA CommitIs ==
  ASSUME IInv, NEW S, NEW p, Scoped(S, p), Commit(S, p)
  PROVE  /\ revision' = revision + 1 /\ resolved' = p /\ error' = error
         /\ registry' = Registry(S, p) /\ member' = Members(S, p)
         /\ aliases' = aliases \cup Aliases(S, p) /\ splits' = splits \cup Splits(S, p)
         /\ held' = [r \in Records |->
              IF r \notin DOMAIN p THEN {}
              ELSE {Members(S, p)[r].id} \cup (IF r \in DOMAIN resolved THEN held[r] ELSE {})]
<1>1. ~Invalid(S, p, Assigned(S, p))
  BY NotInvalid
<1>2. {a \in Aliases(S, p) : \A b \in aliases : b.from # a.from} = Aliases(S, p)
  BY AliasesAre DEF IInv, AliasesOk
<1> QED BY <1>1, <1>2 DEF Commit, Registry, Members, Aliases, Splits

-----------------------------------------------------------------------------
(* The invariant.                                                          *)

\* A publication of everything reaches everything.
LEMMA FullScoped ==
  ASSUME IInv, NEW p \in Resolutions
  PROVE  Scoped(Records, p)
<1>1. Known \subseteq Records
  BY RowsAre
<1> QED BY <1>1 DEF Scoped, MembershipClosed, EdgeClosed, ChangedOnlyIn

LEMMA NextIsCommit ==
  ASSUME IInv, Next
  PROVE  revision < MaxRevision /\ \E S, p : Scoped(S, p) /\ Commit(S, p)
<1>1. CASE PublishFull
  BY <1>1, FullScoped DEF PublishFull
<1>2. CASE PublishAffected
  <2>1. PICK S \in SUBSET Records \ {{}, Records} :
          MembershipClosed(S) /\ \E p \in Resolutions :
            EdgeClosed(S, p) /\ ChangedOnlyIn(S, p) /\ Commit(S, p)
    BY <1>2 DEF PublishAffected
  <2>2. PICK p \in Resolutions : EdgeClosed(S, p) /\ ChangedOnlyIn(S, p) /\ Commit(S, p)
    BY <2>1
  <2>3. Scoped(S, p)
    BY <2>1, <2>2 DEF Scoped
  <2>4. revision < MaxRevision
    BY <1>2, BoundsAssumption DEF PublishAffected
  <2> QED BY <2>2, <2>3, <2>4
<1> QED BY <1>1, <1>2 DEF Next

\* The types of the registry that is written.
LEMMA RegistryTyped ==
  ASSUME IInv, NEW S, NEW p, Scoped(S, p), NEW i \in Issued \cup Used(S, p)
  PROVE  /\ Registry(S, p)[i] \in [status : Statuses, created : 1 .. (revision + 1),
                                   retired : 0 .. (revision + 1)]
         /\ Registry(S, p)[i].status = "active" <=> Registry(S, p)[i].retired = 0
         /\ Registry(S, p)[i].retired # 0 => Registry(S, p)[i].retired >= Registry(S, p)[i].created
<1> DEFINE row == Registry(S, p)[i]
<1>1. RegistryOk(S, p) /\ revision \in Nat
  BY RegistryIs, RowsAre
<1>2. ASSUME i \in Issued
      PROVE  /\ registry[i] \in [status : Statuses, created : 1 .. revision, retired : 0 .. revision]
             /\ registry[i].status = "active" <=> registry[i].retired = 0
             /\ registry[i].retired # 0 => registry[i].retired >= registry[i].created
  BY <1>2 DEF IInv, TypeOK
<1>3. CASE i \in Issued /\ row = registry[i]
  BY <1>1, <1>2, <1>3
<1>4. ASSUME i \in Issued, NEW status \in {"retired", "merged", "split"}, row = Retire(i, status)
      PROVE  /\ row \in [status : Statuses, created : 1 .. (revision + 1), retired : 0 .. (revision + 1)]
             /\ row.status = "active" <=> row.retired = 0
             /\ row.retired # 0 => row.retired >= row.created
  <2>1. row = [status |-> status, created |-> registry[i].created, retired |-> revision + 1]
    BY <1>4 DEF Retire
  <2>2. registry[i].created \in 1 .. revision
    BY <1>2, <1>4
  <2> HIDE DEF row
  <2> QED BY <1>1, <2>1, <2>2 DEF Statuses
<1>5. CASE i \in Used(S, p) \ Issued
  <2>1. row = [status |-> "active", created |-> revision + 1, retired |-> 0]
    BY <1>1, <1>5 DEF RegistryOk
  <2> HIDE DEF row
  <2> QED BY <1>1, <2>1 DEF Statuses, row
<1> QED BY <1>1, <1>3, <1>4, <1>5 DEF RegistryOk

\* The types of the membership rows that are written.
LEMMA MembersTyped ==
  ASSUME IInv, NEW S, NEW p, Scoped(S, p)
  PROVE  \A r \in DOMAIN Members(S, p) :
           /\ r \in Records
           /\ Members(S, p)[r] \in
                [id : Issued \cup Used(S, p), active : BOOLEAN, first : 1 .. (revision + 1)]
<1>1. MembersOk(S, p) /\ revision \in Nat /\ Known \subseteq Records /\ S \subseteq Records
  BY MembersAre, RowsAre, ScopeIs
<1>2. \A r \in Known : member[r] \in [id : Issued, active : BOOLEAN, first : 1 .. revision]
  BY DEF IInv, TypeOK
<1>3. \A n \in 1 .. revision : n \in 1 .. (revision + 1)
  BY <1>1
<1>4. revision + 1 \in 1 .. (revision + 1)
  BY <1>1
<1> DEFINE ids == Issued \cup Used(S, p)
           given(r) == Assigned(S, p)[p[r]]
<1>5. ASSUME NEW r \in S \cap DOMAIN p
      PROVE  Members(S, p)[r] \in [id : ids, active : BOOLEAN, first : 1 .. (revision + 1)]
  <2> DEFINE first == IF r \in Known THEN member[r].first ELSE revision + 1
  <2>1. given(r) \in ids
    BY <1>1 DEF MembersOk
  <2>2. first \in 1 .. (revision + 1)
    BY <1>2, <1>3, <1>4
  <2>3. Members(S, p)[r] = [id |-> given(r), active |-> TRUE, first |-> first]
    BY <1>1 DEF MembersOk
  <2> HIDE DEF first, given, ids
  <2> QED BY <2>1, <2>2, <2>3
<1>6. ASSUME NEW r \in (Known \cap S) \ DOMAIN p
      PROVE  Members(S, p)[r] \in [id : ids, active : BOOLEAN, first : 1 .. (revision + 1)]
  <2>1. Members(S, p)[r] = [id |-> member[r].id, active |-> FALSE, first |-> member[r].first]
    BY <1>1 DEF MembersOk
  <2>2. member[r].id \in ids /\ member[r].first \in 1 .. (revision + 1)
    BY <1>2, <1>3
  <2> HIDE DEF ids
  <2> QED BY <2>1, <2>2
<1>7. ASSUME NEW r \in Known \ S
      PROVE  Members(S, p)[r] \in [id : ids, active : BOOLEAN, first : 1 .. (revision + 1)]
  <2>1. Members(S, p)[r] = member[r]
    BY <1>1 DEF MembersOk
  <2>2. member[r] \in [id : ids, active : BOOLEAN, first : 1 .. (revision + 1)]
    BY <1>2, <1>3
  <2> QED BY <2>1, <2>2
<1>8. DOMAIN Members(S, p) = Known \cup (S \cap DOMAIN p)
  BY <1>1 DEF MembersOk
<1> HIDE DEF ids
<1>9. \A r \in DOMAIN Members(S, p) :
        Members(S, p)[r] \in [id : ids, active : BOOLEAN, first : 1 .. (revision + 1)]
  BY <1>5, <1>6, <1>7, <1>8
<1> QED BY <1>1, <1>8, <1>9 DEF ids

\* Splits lead from an id that was issued to ids that are given.
LEMMA SplitsAre ==
  ASSUME NEW S, NEW p, NEW a \in Splits(S, p)
  PROVE  \E i \in OldIds(S, p), c \in Used(S, p) : a = Row(i, c)
<1>1. \E i \in OldIds(S, p) : \E c \in Successors(S, p, Assigned(S, p), i) : a = Row(i, c)
  BY DEF Splits, NewSplits
<1> QED BY <1>1, SuccessorsAre

LEMMA CommitIInv ==
  ASSUME IInv, revision < MaxRevision, NEW S, NEW p, Scoped(S, p), Commit(S, p)
  PROVE  IInv'
<1> DEFINE ids == Issued \cup Used(S, p)
<1>1. /\ revision' = revision + 1 /\ resolved' = p /\ error' = error
      /\ registry' = Registry(S, p) /\ member' = Members(S, p)
      /\ aliases' = aliases \cup Aliases(S, p) /\ splits' = splits \cup Splits(S, p)
      /\ held' = [r \in Records |->
           IF r \notin DOMAIN p THEN {}
           ELSE {Members(S, p)[r].id} \cup (IF r \in DOMAIN resolved THEN held[r] ELSE {})]
  BY CommitIs
<1>2. S \in SUBSET Records /\ p \in Resolutions /\ revision \in Nat
  BY ScopeIs, RowsAre
<1>3. Issued' = ids /\ Known' = DOMAIN Members(S, p)
  BY <1>1, RegistryIs DEF Issued, Known, RegistryOk
<1>4. IsFiniteSet(Issued') /\ Issued' = 1 .. Cardinality(Issued')
  BY <1>2, <1>3, AssignedOnce
<1>5. LedgerMatchesResolution'
  <2>1. MatchesOk(S, p) /\ DOMAIN p \subseteq DOMAIN Members(S, p)
    BY MatchesNext, MembersAre DEF MembersOk
  <2>2. {r \in Known' : member'[r].active} = DOMAIN resolved'
    BY <1>1, <2>1 DEF Known, MatchesOk
  <2>3. \A r, s \in DOMAIN resolved' : member'[r].id = member'[s].id <=> Together(resolved', r, s)
    BY <1>1, <2>1 DEF Together, MatchesOk
  <2>4. \A r \in DOMAIN p : Members(S, p)[r].id \in DOMAIN Registry(S, p)
    BY <2>1 DEF MatchesOk
  <2>5. \A i : i \in Issued' <=> i \in DOMAIN Registry(S, p)
    BY <1>1 DEF Issued
  <2>6. \A i \in Issued' : Active(i)' <=> Registry(S, p)[i].status = "active"
    BY <1>1 DEF Active
  <2>7. {i \in Issued' : Active(i)'} = {Members(S, p)[r].id : r \in DOMAIN p}
    BY <2>1, <2>4, <2>5, <2>6 DEF MatchesOk
  <2> QED BY <1>1, <2>2, <2>3, <2>7 DEF LedgerMatchesResolution
<1>6. AliasesOk'
  <2>1. AliasesValid(aliases \cup Aliases(S, p), ids)
    BY ScopeIs, AliasesGrow DEF IInv, AliasesOk
  <2>2. ASSUME NEW a \in aliases
        PROVE  ~Active(a.from)'
    <3>1. a.from \in Issued /\ ~Active(a.from)
      BY DEF IInv, AliasesOk, AliasesValid
    <3>2. RegistryOk(S, p)
      BY RegistryIs
    <3>3. Registry(S, p)[a.from] = registry[a.from]
      BY <3>1, <3>2 DEF RegistryOk
    <3> QED BY <1>1, <3>1, <3>3 DEF Active
  <2>3. ASSUME NEW a \in Aliases(S, p)
        PROVE  ~Active(a.from)'
    <3>1. a.from \in Issued /\ Active(a.from) /\ a.from \notin Used(S, p) /\ a.from \in RegistryScope(S)
      BY AliasesAre, ScopeIs
    <3>2. PICK status \in {"retired", "merged", "split"} :
            Registry(S, p)[a.from] = Retire(a.from, status)
      BY <3>1, RegistryIs DEF RegistryOk
    <3>3. Registry(S, p)[a.from].status # "active"
      BY <3>2 DEF Retire
    <3> QED BY <1>1, <3>3 DEF Active
  <2> QED BY <1>1, <1>3, <2>1, <2>2, <2>3 DEF AliasesOk
<1>7. revision' \in 0 .. MaxRevision
  BY <1>1, <1>2, BoundsAssumption
<1>8. DOMAIN resolved' \subseteq Records /\ resolved' \in ResolutionsOf(DOMAIN resolved')
  BY <1>1, <1>2, ResolutionIs
<1>9. \A i \in Issued' :
        /\ registry'[i] \in [status : Statuses, created : 1 .. revision', retired : 0 .. revision']
        /\ registry'[i].status = "active" <=> registry'[i].retired = 0
        /\ registry'[i].retired # 0 => registry'[i].retired >= registry'[i].created
  BY <1>1, <1>3, RegistryTyped
<1>10. /\ Known' \subseteq Records
       /\ \A r \in Known' :
            member'[r] \in [id : Issued', active : BOOLEAN, first : 1 .. revision']
  BY <1>1, <1>3, MembersTyped
<1>11. Transitions' \subseteq [from : Issued', to : Issued', rev : 1 .. revision']
  <2>1. \A n \in 1 .. revision : n \in 1 .. revision'
    BY <1>1, <1>2
  <2>2. revision + 1 \in 1 .. revision'
    BY <1>1, <1>2
  <2>3. OldIds(S, p) \subseteq ids /\ Used(S, p) \subseteq ids
    BY DEF OldIds
  <2>4. \A a \in aliases \cup splits : a \in [from : ids, to : ids, rev : 1 .. revision']
    <3>1. \A a \in aliases \cup splits : a \in [from : Issued, to : Issued, rev : 1 .. revision]
      BY DEF IInv, TypeOK, Transitions
    <3> QED BY <2>1, <3>1
  <2>5. \A i \in OldIds(S, p), c \in Used(S, p) : Row(i, c) \in [from : ids, to : ids, rev : 1 .. revision']
    <3> HIDE DEF ids
    <3> QED BY <2>2, <2>3 DEF Row
  <2>6. \A a \in Splits(S, p) : a \in [from : ids, to : ids, rev : 1 .. revision']
    BY <2>5, SplitsAre
  <2>7. \A a \in Aliases(S, p) : a \in [from : ids, to : ids, rev : 1 .. revision']
    <3>1. \A a \in Aliases(S, p) :
            a = Row(a.from, a.to) /\ a.from \in OldIds(S, p) /\ a.to \in Used(S, p)
      BY AliasesAre DEF Row
    <3> QED BY <2>5, <3>1
  <2> HIDE DEF ids
  <2> QED BY <1>1, <1>3, <2>4, <2>6, <2>7 DEF Transitions
<1>12. held' \in [Records -> SUBSET Issued']
  <2>1. \A r \in DOMAIN p : Members(S, p)[r].id \in ids
    <3>1. RegistryOk(S, p) /\ MembersOk(S, p) /\ MatchesOk(S, p)
      BY MatchesNext, RegistryIs, MembersAre
    <3> QED BY <3>1 DEF RegistryOk, MembersOk, MatchesOk
  <2>2. \A r \in Records : held[r] \subseteq ids
    BY DEF IInv, TypeOK
  <2> HIDE DEF ids
  <2> QED BY <1>1, <1>3, <2>1, <2>2
<1>13. error' = FALSE
  BY <1>1 DEF IInv, ReconcileNeverFails
<1>14. TypeOK'
  BY <1>4, <1>7, <1>8, <1>9, <1>10, <1>11, <1>12, <1>13 DEF TypeOK
<1> QED BY <1>4, <1>5, <1>6, <1>13, <1>14 DEF IInv, ReconcileNeverFails

LEMMA InitIInv == Init => IInv
<1> SUFFICES ASSUME Init PROVE IInv
  OBVIOUS
<1>1. /\ revision = 0 /\ DOMAIN resolved = {} /\ Issued = {} /\ Known = {}
      /\ aliases = {} /\ splits = {} /\ error = FALSE /\ held = [r \in Records |-> {}]
  BY DEF Init, Issued, Known
<1>2. IsFiniteSet({}) /\ Cardinality({}) = 0
  BY FS_EmptySet
<1>3. resolved \in ResolutionsOf({})
  BY DEF Init, ResolutionsOf
<1>4. TypeOK
  <2>1. Issued = 1 .. Cardinality(Issued)
    BY <1>1, <1>2
  <2>2. held \in [Records -> SUBSET Issued]
    BY <1>1
  <2>3. Transitions = {}
    BY <1>1 DEF Transitions
  <2>4. revision \in 0 .. MaxRevision
    BY <1>1, BoundsAssumption
  <2>5. DOMAIN resolved \subseteq Records /\ resolved \in ResolutionsOf(DOMAIN resolved)
    BY <1>1, <1>3
  <2> QED BY <1>1, <2>1, <2>2, <2>3, <2>4, <2>5 DEF TypeOK
<1>5. LedgerMatchesResolution
  BY <1>1 DEF LedgerMatchesResolution
<1>6. AliasesOk
  BY <1>1 DEF AliasesOk, AliasesValid
<1> QED BY <1>1, <1>2, <1>4, <1>5, <1>6 DEF IInv, ReconcileNeverFails

LEMMA StepIInv == IInv /\ [Next]_vars => IInv'
<1> SUFFICES ASSUME IInv, [Next]_vars PROVE IInv'
  OBVIOUS
<1>1. CASE Next
  BY <1>1, NextIsCommit, CommitIInv
<1>2. CASE UNCHANGED vars
  BY <1>2 DEF vars, IInv, TypeOK, LedgerMatchesResolution, AliasesOk, ReconcileNeverFails,
              Issued, Known, Active, Transitions
<1> QED BY <1>1, <1>2

LEMMA Invariance == Spec => []IInv
  BY InitIInv, StepIInv, PTL DEF Spec

-----------------------------------------------------------------------------
(* Theorems.                                                               *)

\* The types of the ledger, with the CHECK constraints of its tables.
THEOREM TypeCorrect == Spec => []TypeOK
<1>1. IInv => TypeOK
  BY DEF IInv
<1> QED BY <1>1, Invariance, PTL

\* reconcile accepts, in any publication, the ledger that it wrote.
THEOREM ReconcileAccepts == Spec => []ReconcileNeverFails
<1>1. IInv => ReconcileNeverFails
  BY DEF IInv
<1> QED BY <1>1, Invariance, PTL

\* The ledger says what the resolution says.
THEOREM LedgerIsResolution == Spec => []LedgerMatchesResolution
<1>1. IInv => LedgerMatchesResolution
  BY DEF IInv
<1> QED BY <1>1, Invariance, PTL

\* What left the ledger stays left, whatever is published after.
THEOREM LeftStaysLeft == Spec => NothingReturns
<1> DEFINE Stays == /\ \A i \in Issued : ~Active(i) => registry'[i] = registry[i]
                    /\ \A r \in DOMAIN resolved' : member'[r].id \in Issued => Active(member'[r].id)
                    /\ \A r \in Known : member'[r].first = member[r].first
<1>1. ASSUME IInv, NEW S, NEW p, Scoped(S, p), Commit(S, p)
      PROVE  Stays
  <2>1. resolved' = p /\ registry' = Registry(S, p) /\ member' = Members(S, p)
    BY <1>1, CommitIs
  <2>2. RegistryOk(S, p) /\ MembersOk(S, p) /\ Known \subseteq Records /\ DOMAIN p \subseteq Records
    BY <1>1, RegistryIs, MembersAre, RowsAre, ScopeIs, ResolutionIs
  <2>3. \A i \in Issued : ~Active(i) => registry'[i] = registry[i]
    BY <2>1, <2>2 DEF RegistryOk
  <2>4. ASSUME NEW r \in DOMAIN p, Members(S, p)[r].id \in Issued
        PROVE  Active(Members(S, p)[r].id)
    <3>1. CASE r \in S
      <4>1. Members(S, p)[r].id \in Used(S, p)
        <5>1. /\ Assigned(S, p)[p[r]] \in Used(S, p)
              /\ Members(S, p)[r] = [id |-> Assigned(S, p)[p[r]], active |-> TRUE,
                     first |-> IF r \in Known THEN member[r].first ELSE revision + 1]
          BY <2>2, <3>1 DEF MembersOk
        <5> QED BY <5>1
      <4> QED BY <1>1, <2>4, <4>1, UsedIs
    <3>2. CASE r \notin S
      <4>1. r \in DOMAIN resolved /\ r \in Known
        BY <1>1, <2>2, <3>2, ScopeIs, RowsAre
      <4>2. Members(S, p)[r] = member[r]
        BY <2>2, <3>2, <4>1 DEF MembersOk
      <4> QED BY <1>1, <4>1, <4>2, RowsAre
    <3> QED BY <3>1, <3>2
  <2>5. ASSUME NEW r \in Known
        PROVE  Members(S, p)[r].first = member[r].first
    <3>1. CASE r \in S \cap DOMAIN p
      <4>1. Members(S, p)[r] = [id |-> Assigned(S, p)[p[r]], active |-> TRUE,
                     first |-> IF r \in Known THEN member[r].first ELSE revision + 1]
        BY <2>2, <3>1 DEF MembersOk
      <4> QED BY <4>1
    <3>2. CASE r \in S /\ r \notin DOMAIN p
      <4>1. Members(S, p)[r] = [id |-> member[r].id, active |-> FALSE, first |-> member[r].first]
        BY <2>2, <3>2 DEF MembersOk
      <4> QED BY <4>1
    <3>3. CASE r \notin S
      BY <2>2, <3>3 DEF MembersOk
    <3> QED BY <3>1, <3>2, <3>3
  <2> QED BY <2>1, <2>3, <2>4, <2>5
<1>2. ASSUME IInv, Next PROVE Stays
  BY <1>1, <1>2, NextIsCommit
<1>3. IInv /\ [Next]_vars => [Stays]_vars
  BY <1>2
<1> QED BY <1>3, Invariance, PTL DEF Spec, NothingReturns

-----------------------------------------------------------------------------
(* An affected publication is a full one.                                  *)

\* The continuing members of an id are within the scope or outside it.
LEMMA ContinuingWhole ==
  ASSUME IInv, NEW S, NEW p, Scoped(S, p), NEW i
  PROVE  /\ Continuing(S, p, i) # {} => Continuing(Records, p, i) = Continuing(S, p, i)
         /\ i \in RegistryScope(S) => Continuing(Records, p, i) = Continuing(S, p, i)
         /\ \A r \in Continuing(Records, p, i) : r \in S => i \in OldIds(S, p)
<1>1. /\ Continuing(S, p, i) =
           {r \in DOMAIN resolved : r \in S /\ r \in DOMAIN p /\ member[r].id = i}
      /\ Continuing(Records, p, i) =
           {r \in DOMAIN resolved : r \in Records /\ r \in DOMAIN p /\ member[r].id = i}
  BY ContinuingIs
<1>2. S \subseteq Records /\ DOMAIN resolved \subseteq Known
      /\ \A r \in Known : member[r].id \in Issued
  BY ScopeIs, RowsAre
<1>3. \A r \in DOMAIN resolved : member[r].id \in RegistryScope(S) => r \in S
  BY <1>2, ScopeIs
<1>4. \A r \in Continuing(S, p, i) : i \in OldIds(S, p)
  BY <1>1, <1>2 DEF OldIds
<1>5. \A r \in Continuing(S, p, i) : i \in RegistryScope(S)
  BY <1>4, ScopeIs
<1>6. i \in RegistryScope(S) => Continuing(Records, p, i) = Continuing(S, p, i)
  BY <1>1, <1>2, <1>3
<1>7. \A r \in Continuing(Records, p, i) : r \in S => r \in Continuing(S, p, i)
  BY <1>1
<1> QED BY <1>4, <1>5, <1>6, <1>7

\* A full publication assigns the same ids in the scope, and outside it what a
\* record has.
LEMMA AssignedSame ==
  ASSUME IInv, NEW S, NEW p, Scoped(S, p)
  PROVE  /\ \A k \in Keys(S, p) :
              k \in Keys(Records, p) /\ Assigned(Records, p)[k] = Assigned(S, p)[k]
         /\ \A r \in DOMAIN p \ S :
              p[r] \in Keys(Records, p) /\ Assigned(Records, p)[p[r]] = member[r].id
<1> DEFINE C(i) == Continuing(S, p, i)
           D(i) == Continuing(Records, p, i)
<1>1. /\ S \in SUBSET Records /\ p \in Resolutions /\ DOMAIN p \subseteq Records
      /\ Records \in SUBSET Records /\ Scoped(Records, p)
  BY ScopeIs, ResolutionIs, FullScoped
<1>2. /\ DOMAIN resolved \subseteq Known
      /\ \A r \in Known : member[r].id \in Issued
      /\ \A r, s \in DOMAIN resolved : member[r].id = member[s].id <=> resolved[r] = resolved[s]
  BY RowsAre
<1>3. \A r \in DOMAIN p \ S : r \in DOMAIN resolved
  BY <1>1, ScopeIs
<1>4. \A i : \A r \in D(i) : r \in DOMAIN resolved /\ r \in DOMAIN p /\ member[r].id = i
  BY ContinuingIs
<1>5. ASSUME NEW k \in Keys(S, p)
      PROVE  k \in Keys(Records, p) /\ Claims(Records, p, k) = Claims(S, p, k)
  <2>1. PICK r \in S \cap DOMAIN p : k = p[r]
    BY DEF Keys
  <2>2. \A s \in DOMAIN p : p[s] = k => s \in S
    BY <2>1, ScopeIs
  <2>3. k \in Keys(Records, p)
    BY <1>1, <2>1 DEF Keys
  <2>4. ASSUME NEW i \in Claims(Records, p, k)
        PROVE  i \in Claims(S, p, k)
    <3>1. i \in Issued /\ D(i) # {} /\ p[Anchor(Records, p, i)] = k
      BY DEF Claims, OldIds
    <3>2. Anchor(Records, p, i) \in D(i)
      BY <3>1, AnchorIs
    <3>3. Anchor(Records, p, i) \in S
      BY <1>4, <2>2, <3>1, <3>2
    <3>4. i \in OldIds(S, p)
      BY <3>2, <3>3, ContinuingWhole
    <3>5. C(i) = D(i)
      BY <3>4, ContinuingWhole DEF OldIds
    <3>6. Anchor(S, p, i) = Anchor(Records, p, i)
      BY <3>5 DEF Anchor
    <3> QED BY <3>1, <3>4, <3>6 DEF Claims
  <2>5. ASSUME NEW i \in Claims(S, p, k)
        PROVE  i \in Claims(Records, p, k)
    <3>1. i \in Issued /\ C(i) # {} /\ p[Anchor(S, p, i)] = k
      BY DEF Claims, OldIds
    <3>2. C(i) = D(i)
      BY <3>1, ContinuingWhole
    <3>3. Anchor(S, p, i) = Anchor(Records, p, i)
      BY <3>2 DEF Anchor
    <3>4. i \in OldIds(Records, p)
      BY <3>1, <3>2 DEF OldIds
    <3> QED BY <3>1, <3>3, <3>4 DEF Claims
  <2> QED BY <2>3, <2>4, <2>5
<1>6. ASSUME NEW r \in DOMAIN p \ S
      PROVE  p[r] \in Keys(Records, p) /\ Claims(Records, p, p[r]) = {member[r].id}
  <2> DEFINE i == member[r].id
  <2>1. r \in DOMAIN resolved /\ i \in Issued
    BY <1>2, <1>3
  <2>2. p[r] \in Keys(Records, p)
    BY <1>1 DEF Keys
  <2>3. r \in D(i) /\ i \notin RegistryScope(S)
    BY <1>1, <1>2, <2>1, ContinuingIs, ScopeIs
  <2>4. \A s \in D(i) : s \notin S
    <3>1. i \notin OldIds(S, p)
      BY <2>3, ScopeIs
    <3> QED BY <3>1, ContinuingWhole
  <2>5. \A s \in D(i) : p[s] = p[r]
    BY <1>2, <1>4, <2>1, <2>4, ScopeIs
  <2>6. Anchor(Records, p, i) \in D(i)
    BY <2>3, AnchorIs
  <2>7. i \in Claims(Records, p, p[r])
    <3>1. i \in OldIds(Records, p)
      BY <2>1, <2>3 DEF OldIds
    <3> QED BY <2>5, <2>6, <3>1 DEF Claims
  <2>8. ASSUME NEW j \in Claims(Records, p, p[r])
        PROVE  j = i
    <3>1. j \in Issued /\ D(j) # {} /\ p[Anchor(Records, p, j)] = p[r]
      BY DEF Claims, OldIds
    <3> DEFINE a == Anchor(Records, p, j)
    <3>2. a \in D(j)
      BY <3>1, AnchorIs
    <3>3. a \in DOMAIN resolved /\ a \in DOMAIN p /\ member[a].id = j /\ p[a] = p[r]
      BY <1>4, <3>1, <3>2
    <3> HIDE DEF a
    <3>4. a \notin S
      BY <3>3, ScopeIs
    <3>5. resolved[a] = resolved[r]
      BY <3>3, <3>4, ScopeIs
    <3> QED BY <1>2, <2>1, <3>3, <3>5
  <2> QED BY <2>2, <2>7, <2>8
<1>7. Fresh(Records, p) = Fresh(S, p)
  <2>1. \A k \in Keys(Records, p) : k \in Keys(S, p) \/ Claims(Records, p, k) # {}
    <3>1. ASSUME NEW k \in Keys(Records, p), k \notin Keys(S, p)
          PROVE  Claims(Records, p, k) # {}
      <4>1. PICK r \in Records \cap DOMAIN p : k = p[r]
        BY DEF Keys
      <4>2. r \notin S
        BY <3>1, <4>1 DEF Keys
      <4> QED BY <1>6, <4>1, <4>2
    <3> QED BY <3>1
  <2> QED BY <1>5, <2>1 DEF Fresh
<1>8. ASSUME NEW k \in Keys(S, p)
      PROVE  Assigned(Records, p)[k] = Assigned(S, p)[k]
  <2>1. k \in Keys(Records, p) /\ Claims(Records, p, k) = Claims(S, p, k)
    BY <1>5
  <2>2. CASE k \in Fresh(S, p)
    <3>1. Assigned(S, p)[k] = Cardinality(Issued) + Cardinality({j \in Fresh(S, p) : j >= k})
      BY <1>1, <2>2, AssignedIs
    <3>2. Assigned(Records, p)[k] =
            Cardinality(Issued) + Cardinality({j \in Fresh(Records, p) : j >= k})
      <4>1. k \in Fresh(Records, p)
        BY <1>7, <2>2
      <4> QED BY <1>1, <4>1, AssignedIs
    <3> QED BY <1>7, <3>1, <3>2
  <2>3. CASE k \notin Fresh(S, p)
    <3>1. Assigned(S, p)[k] = Oldest(Claims(S, p, k))
      BY <1>1, <2>3, AssignedIs
    <3>2. Assigned(Records, p)[k] = Oldest(Claims(Records, p, k))
      BY <1>1, <1>7, <2>1, <2>3, AssignedIs
    <3> QED BY <2>1, <3>1, <3>2
  <2> QED BY <2>2, <2>3
<1>9. ASSUME NEW r \in DOMAIN p \ S
      PROVE  p[r] \in Keys(Records, p) /\ Assigned(Records, p)[p[r]] = member[r].id
  <2>1. p[r] \in Keys(Records, p) /\ Claims(Records, p, p[r]) = {member[r].id}
    BY <1>6
  <2>2. p[r] \notin Fresh(Records, p)
    BY <2>1 DEF Fresh
  <2>3. Assigned(Records, p)[p[r]] \in Claims(Records, p, p[r])
    BY <1>1, <2>1, <2>2, AssignedIs
  <2> QED BY <2>1, <2>3
<1> QED BY <1>5, <1>8, <1>9

\* The membership rows are the same.
LEMMA MembersSame ==
  ASSUME IInv, NEW S, NEW p, Scoped(S, p)
  PROVE  Members(Records, p) = Members(S, p)
<1> DEFINE full(r) ==
             IF r \in Records \cap DOMAIN p
             THEN [id |-> Assigned(Records, p)[p[r]], active |-> TRUE,
                   first |-> IF r \in Known THEN member[r].first ELSE revision + 1]
             ELSE IF r \in Records THEN [member[r] EXCEPT !.active = FALSE]
             ELSE member[r]
           part(r) ==
             IF r \in S \cap DOMAIN p
             THEN [id |-> Assigned(S, p)[p[r]], active |-> TRUE,
                   first |-> IF r \in Known THEN member[r].first ELSE revision + 1]
             ELSE IF r \in S THEN [member[r] EXCEPT !.active = FALSE]
             ELSE member[r]
           dom == Known \cup (S \cap DOMAIN p)
<1>1. /\ S \subseteq Records /\ p \in Resolutions /\ DOMAIN p \subseteq Records
      /\ Known \subseteq Records /\ DOMAIN resolved \subseteq Known
  BY ScopeIs, ResolutionIs, RowsAre
<1>2. \A r \in Records \ S : r \in DOMAIN p <=> r \in DOMAIN resolved
  BY ScopeIs
<1>3. Known \cup (Records \cap DOMAIN p) = dom
  BY <1>1, <1>2
<1>4. Members(Records, p) = [r \in dom |-> full(r)]
  BY <1>3 DEF Members, NextMember
<1>5. Members(S, p) = [r \in dom |-> part(r)]
  BY DEF Members, NextMember
<1>6. ASSUME NEW r \in dom
      PROVE  full(r) = part(r)
  <2>1. CASE r \in S /\ r \in DOMAIN p
    <3>1. p[r] \in Keys(S, p)
      BY <2>1 DEF Keys
    <3>2. Assigned(Records, p)[p[r]] = Assigned(S, p)[p[r]]
      BY <3>1, AssignedSame
    <3> QED BY <1>1, <2>1, <3>2
  <2>2. CASE r \in S /\ r \notin DOMAIN p
    BY <1>1, <2>2
  <2>3. CASE r \notin S
    <3>1. r \in Known /\ r \in Records
      BY <1>1, <2>3
    <3>2. member[r] \in [id : Issued, active : BOOLEAN, first : 1 .. revision]
      BY <3>1 DEF IInv, TypeOK
    <3>3. CASE r \in DOMAIN p
      <4>1. Assigned(Records, p)[p[r]] = member[r].id
        BY <2>3, <3>3, AssignedSame
      <4>2. full(r) = [id |-> member[r].id, active |-> TRUE, first |-> member[r].first]
        BY <1>1, <3>1, <3>3, <4>1
      <4>3. part(r) = member[r]
        BY <2>3
      <4>4. member[r].active = TRUE
        <5>1. member[r].active
          BY <1>2, <2>3, <3>1, <3>3, RowsAre
        <5> QED BY <3>2, <5>1
      <4> HIDE DEF full, part
      <4>5. member[r] = [id |-> member[r].id, active |-> TRUE, first |-> member[r].first]
        BY <3>2, <4>4
      <4> QED BY <4>2, <4>3, <4>5
    <3>4. CASE r \notin DOMAIN p
      <4>1. full(r) = [member[r] EXCEPT !.active = FALSE]
        BY <3>1, <3>4
      <4>2. part(r) = member[r]
        BY <2>3
      <4>3. member[r].active = FALSE
        <5>1. ~member[r].active
          BY <1>2, <2>3, <3>1, <3>4, RowsAre
        <5> QED BY <3>2, <5>1
      <4> HIDE DEF full, part
      <4>4. [member[r] EXCEPT !.active = FALSE] = member[r]
        BY <3>2, <4>3
      <4> QED BY <4>1, <4>2, <4>4
    <3> QED BY <3>3, <3>4
  <2> QED BY <2>1, <2>2, <2>3
<1> HIDE DEF full, part, dom
<1> QED BY <1>4, <1>5, <1>6

\* An id is succeeded by the same ids, or by itself alone.
LEMMA SuccessorsSame ==
  ASSUME IInv, NEW S, NEW p, Scoped(S, p), NEW i
  PROVE  /\ i \in OldIds(S, p) \/ i \in RegistryScope(S) =>
              Successors(Records, p, Assigned(Records, p), i) = Successors(S, p, Assigned(S, p), i)
         /\ i \notin OldIds(S, p) =>
              Successors(Records, p, Assigned(Records, p), i) \subseteq {i}
<1>1. p \in Resolutions /\ DOMAIN p \subseteq Records
  BY ScopeIs, ResolutionIs
<1>2. \A r \in Continuing(S, p, i) : Assigned(Records, p)[p[r]] = Assigned(S, p)[p[r]]
  <2>1. \A r \in Continuing(S, p, i) : p[r] \in Keys(S, p)
    BY DEF Continuing, Keys
  <2> QED BY <2>1, AssignedSame
<1>3. i \in OldIds(S, p) \/ i \in RegistryScope(S) =>
        Continuing(Records, p, i) = Continuing(S, p, i)
  BY ContinuingWhole DEF OldIds
<1>4. i \in OldIds(S, p) \/ i \in RegistryScope(S) =>
        Successors(Records, p, Assigned(Records, p), i) = Successors(S, p, Assigned(S, p), i)
  BY <1>2, <1>3 DEF Successors
<1>5. ASSUME i \notin OldIds(S, p), NEW r \in Continuing(Records, p, i)
      PROVE  Assigned(Records, p)[p[r]] = i
  <2>1. r \in DOMAIN p /\ member[r].id = i
    BY ContinuingIs
  <2>2. r \notin S
    BY <1>5, ContinuingWhole
  <2> QED BY <2>1, <2>2, AssignedSame
<1> QED BY <1>4, <1>5 DEF Successors

\* The registry rows are the same.
LEMMA RegistrySame ==
  ASSUME IInv, NEW S, NEW p, Scoped(S, p)
  PROVE  Registry(Records, p) = Registry(S, p)
<1> DEFINE newS == Assigned(S, p)
           newR == Assigned(Records, p)
           ids == Issued \cup Used(S, p)
           row == [status |-> "active", created |-> revision + 1, retired |-> 0]
<1>1. /\ S \subseteq Records /\ p \in Resolutions /\ DOMAIN p \subseteq Records
      /\ DOMAIN resolved \subseteq Known /\ \A r \in Known : member[r].id \in Issued
  BY ScopeIs, ResolutionIs, RowsAre
<1>2. RegistryScope(S) \subseteq Issued
  BY ScopeIs
<1>3. Used(S, p) \subseteq Used(Records, p) /\ Used(Records, p) \subseteq ids
  <2>1. Used(S, p) \subseteq Used(Records, p)
    BY AssignedSame DEF Used
  <2>2. ASSUME NEW k \in Keys(Records, p)
        PROVE  newR[k] \in ids
    <3>1. PICK r \in Records \cap DOMAIN p : k = p[r]
      BY DEF Keys
    <3>2. CASE r \in S
      <4>1. k \in Keys(S, p)
        BY <3>1, <3>2 DEF Keys
      <4>2. newR[k] = newS[k]
        BY <4>1, AssignedSame
      <4> QED BY <4>1, <4>2 DEF Used
    <3>3. CASE r \notin S
      <4>1. newR[k] = member[r].id
        BY <3>1, <3>3, AssignedSame
      <4>2. r \in Known
        BY <1>1, <3>3, ScopeIs
      <4> QED BY <1>1, <4>1, <4>2
    <3> QED BY <3>2, <3>3
  <2> QED BY <2>1, <2>2 DEF Used
<1>4. Registry(S, p) = [i \in ids |->
         IF i \in RegistryScope(S) THEN NextIdentity(S, p, newS, i)
         ELSE IF i \in Issued THEN registry[i] ELSE row]
  BY DEF Registry, NextRegistry, Used
<1>5. Registry(Records, p) = [i \in ids |->
         IF i \in Issued THEN NextIdentity(Records, p, newR, i) ELSE row]
  <2>1. Issued \cup {newR[k] : k \in Keys(Records, p)} = ids
    BY <1>3 DEF Used
  <2>2. RegistryScope(Records) = Issued
    BY DEF RegistryScope
  <2>3. Registry(Records, p) = [i \in Issued \cup {newR[k] : k \in Keys(Records, p)} |->
         IF i \in RegistryScope(Records) THEN NextIdentity(Records, p, newR, i)
         ELSE IF i \in Issued THEN registry[i] ELSE row]
    BY DEF Registry, NextRegistry
  <2> HIDE DEF ids, newR, row
  <2> QED BY <2>1, <2>2, <2>3
<1>6. ASSUME NEW i \in RegistryScope(S)
      PROVE  NextIdentity(Records, p, newR, i) = NextIdentity(S, p, newS, i)
  <2>1. Successors(Records, p, newR, i) = Successors(S, p, newS, i)
    BY SuccessorsSame
  <2> QED BY <2>1 DEF NextIdentity
<1>7. ASSUME NEW i \in Issued, i \notin RegistryScope(S)
      PROVE  NextIdentity(Records, p, newR, i) = registry[i]
  <2>1. CASE ~Active(i)
    BY <2>1 DEF NextIdentity
  <2>2. CASE Active(i)
    <3>1. PICK r \in DOMAIN resolved : member[r].id = i
      BY <2>2, RowsAre
    <3>2. r \notin S /\ r \in Known
      <4>1. r \in Known
        BY <1>1
      <4>2. S # Records
        BY <1>7 DEF RegistryScope
      <4>3. i \notin {member[x].id : x \in S \cap Known}
        BY <1>7, <4>2 DEF RegistryScope
      <4> QED BY <3>1, <4>1, <4>3
    <3>3. r \in DOMAIN p /\ r \in Records
      BY <1>1, <3>2, ScopeIs, RowsAre
    <3>4. newR[p[r]] = i
      BY <3>1, <3>2, <3>3, AssignedSame
    <3>5. r \in Continuing(Records, p, i)
      BY <3>1, <3>3, ContinuingIs
    <3>6. i \in Successors(Records, p, newR, i)
      BY <3>4, <3>5 DEF Successors
    <3> QED BY <3>6 DEF NextIdentity
  <2> QED BY <2>1, <2>2
<1> HIDE DEF newS, newR, row, ids
<1> QED BY <1>2, <1>4, <1>5, <1>6, <1>7

\* The rows of the lineage are the same.
LEMMA LineageSame ==
  ASSUME IInv, NEW S, NEW p, Scoped(S, p)
  PROVE  Aliases(Records, p) = Aliases(S, p) /\ Splits(Records, p) = Splits(S, p)
<1> DEFINE nextS(i) == Successors(S, p, Assigned(S, p), i)
           nextR(i) == Successors(Records, p, Assigned(Records, p), i)
<1>1. OldIds(S, p) \subseteq OldIds(Records, p)
  BY ContinuingWhole DEF OldIds
<1>2. \A i \in OldIds(S, p) : nextR(i) = nextS(i)
  BY SuccessorsSame
<1>3. ASSUME NEW i \in OldIds(Records, p), i \notin OldIds(S, p)
      PROVE  nextR(i) = {i} /\ Cardinality(nextR(i)) = 1
  <2>1. nextR(i) \subseteq {i}
    BY <1>3, SuccessorsSame
  <2>2. nextR(i) # {}
    BY DEF OldIds, Successors
  <2>3. nextR(i) = {i}
    BY <2>1, <2>2
  <2> QED BY <2>3, FS_Singleton
<1>4. Aliases(Records, p) = Aliases(S, p)
  <2>1. ASSUME NEW a
        PROVE  a \in Aliases(Records, p) <=> a \in Aliases(S, p)
    <3>1. a \in Aliases(Records, p) <=>
            \E i \in OldIds(Records, p) :
              Cardinality(nextR(i)) = 1 /\ \E c \in nextR(i) \ {i} : a = Row(i, c)
      BY DEF Aliases, NewAliases
    <3>2. a \in Aliases(S, p) <=>
            \E i \in OldIds(S, p) :
              Cardinality(nextS(i)) = 1 /\ \E c \in nextS(i) \ {i} : a = Row(i, c)
      BY DEF Aliases, NewAliases
    <3> HIDE DEF nextS, nextR
    <3> QED BY <1>1, <1>2, <1>3, <3>1, <3>2
  <2> QED BY <2>1
<1>5. Splits(Records, p) = Splits(S, p)
  <2>1. ASSUME NEW a
        PROVE  a \in Splits(Records, p) <=> a \in Splits(S, p)
    <3>1. a \in Splits(Records, p) <=>
            \E i \in OldIds(Records, p) :
              Cardinality(nextR(i)) > 1 /\ \E c \in nextR(i) : a = Row(i, c)
      BY DEF Splits, NewSplits
    <3>2. a \in Splits(S, p) <=>
            \E i \in OldIds(S, p) :
              Cardinality(nextS(i)) > 1 /\ \E c \in nextS(i) : a = Row(i, c)
      BY DEF Splits, NewSplits
    <3> HIDE DEF nextS, nextR
    <3> QED BY <1>1, <1>2, <1>3, <3>1, <3>2
  <2> QED BY <2>1
<1> QED BY <1>4, <1>5

\* A refresh over an affected closure writes the ledger a full refresh would
\* have written.
THEOREM AffectedIsFull == Spec => AffectedMatchesFull
<1> DEFINE Same == \A p \in {resolved'} : \A new \in {Assigned(Records, p)} :
                     /\ ~Invalid(Records, p, new)
                     /\ registry' = NextRegistry(Records, p, new)
                     /\ member' = NextMember(Records, p, new)
                     /\ aliases' = aliases \cup NewAliases(Records, p, new)
                     /\ splits' = splits \cup NewSplits(Records, p, new)
<1>1. ASSUME IInv, NEW S, NEW p, Scoped(S, p), Commit(S, p)
      PROVE  Same
  <2>1. /\ resolved' = p /\ registry' = Registry(S, p) /\ member' = Members(S, p)
        /\ aliases' = aliases \cup Aliases(S, p) /\ splits' = splits \cup Splits(S, p)
    BY <1>1, CommitIs
  <2>2. ~Invalid(Records, p, Assigned(Records, p))
    BY <1>1, ScopeIs, FullScoped, NotInvalid
  <2>3. /\ Registry(S, p) = Registry(Records, p) /\ Members(S, p) = Members(Records, p)
        /\ Aliases(S, p) = Aliases(Records, p) /\ Splits(S, p) = Splits(Records, p)
    BY <1>1, RegistrySame, MembersSame, LineageSame
  <2> QED BY <2>1, <2>2, <2>3 DEF Registry, Members, Aliases, Splits
<1>2. ASSUME IInv, Next PROVE Same
  BY <1>1, <1>2, NextIsCommit
<1>3. IInv /\ [Next]_vars => [Same]_vars
  BY <1>2
<1> QED BY <1>3, Invariance, PTL DEF Spec, AffectedMatchesFull

-----------------------------------------------------------------------------
(* Continuity.                                                             *)

\* The anchor keeps its id or takes it into an older one, and the id is given
\* exactly if the anchor keeps it.
LEMMA AnchorGets ==
  ASSUME IInv, NEW p \in Resolutions, NEW i \in Issued, Continuing(Records, p, i) # {}
  PROVE  LET got == Assigned(Records, p)[p[Anchor(Records, p, i)]]
         IN  /\ got = i \/ (got \in Issued /\ IdBefore(got, i))
             /\ i \in Used(Records, p) <=> got = i
<1> DEFINE k == p[Anchor(Records, p, i)]
           got == Assigned(Records, p)[k]
<1>1. Records \in SUBSET Records /\ DOMAIN p \subseteq Records
  BY ResolutionIs
<1>2. Anchor(Records, p, i) \in Records \cap DOMAIN p
  BY AnchorIs DEF Continuing
<1>3. k \in Keys(Records, p)
  BY <1>2 DEF Keys
<1>4. i \in Claims(Records, p, k)
  BY DEF Claims, OldIds
<1>5. k \notin Fresh(Records, p)
  BY <1>4 DEF Fresh
<1>6. /\ got \in Claims(Records, p, k)
      /\ \A j \in Claims(Records, p, k) \ {got} : IdBefore(got, j)
  <2> HIDE DEF k
  <2> QED BY <1>1, <1>3, <1>5, AssignedIs
<1>7. got \in Issued
  BY <1>6 DEF Claims, OldIds
<1>8. got = i \/ IdBefore(got, i)
  BY <1>4, <1>6
<1>9. ASSUME i \in Used(Records, p)
      PROVE  got = i
  <2>1. PICK j \in Keys(Records, p) : i = Assigned(Records, p)[j]
    BY <1>9 DEF Used
  <2>2. i \in Claims(Records, p, j)
    BY <1>1, <2>1, AssignedOnce
  <2>3. j = k
    BY <2>2 DEF Claims
  <2> QED BY <2>1, <2>3
<1>10. got = i => i \in Used(Records, p)
  BY <1>3 DEF Used
<1> QED BY <1>7, <1>8, <1>9, <1>10

\* The earliest member that stays keeps its id or takes it into an older one,
\* and the id lives on exactly if it kept it.
THEOREM AnchorContinues == Spec => ContinuityByAnchor
<1> DEFINE stay(i) == {r \in DOMAIN resolved \cap DOMAIN resolved' : member[r].id = i}
           first(i) == CHOOSE r \in stay(i) : \A s \in stay(i) \ {r} : AnchorBefore(r, s)
           Kept == \A i \in Issued : stay(i) # {} /\ ~error' =>
                     /\ \/ member'[first(i)].id = i
                        \/ member'[first(i)].id \in Issued /\ IdBefore(member'[first(i)].id, i)
                     /\ registry'[i].status = "active" <=> member'[first(i)].id = i
<1>1. ASSUME IInv, NEW S, NEW p, Scoped(S, p), Commit(S, p),
             NEW i \in Issued, stay(i) # {}
      PROVE  /\ \/ member'[first(i)].id = i
                \/ member'[first(i)].id \in Issued /\ IdBefore(member'[first(i)].id, i)
             /\ registry'[i].status = "active" <=> member'[first(i)].id = i
  <2> DEFINE T == Continuing(Records, p, i)
             a == Anchor(Records, p, i)
             got == Assigned(Records, p)[p[a]]
  <2>1. /\ resolved' = p /\ registry' = Registry(Records, p) /\ member' = Members(Records, p)
        /\ p \in Resolutions /\ Scoped(Records, p)
    BY <1>1, CommitIs, RegistrySame, MembersSame, ScopeIs, FullScoped
  <2>2. stay(i) = T
    <3>1. T = {r \in DOMAIN resolved : r \in Records /\ r \in DOMAIN p /\ member[r].id = i}
      BY <1>1, ContinuingIs
    <3>2. DOMAIN p \subseteq Records
      BY <2>1, ResolutionIs
    <3> HIDE DEF T
    <3> QED BY <2>1, <3>1, <3>2
  <2>3. first(i) = a
    BY <2>2 DEF Anchor
  <2>4. a \in Records \cap DOMAIN p /\ a \in T
    BY <1>1, <2>2, AnchorIs DEF Continuing
  <2>5. Active(i)
    BY <1>1, <2>4, ContinuingIs, RowsAre
  <2>6. (got = i \/ (got \in Issued /\ IdBefore(got, i))) /\ (i \in Used(Records, p) <=> got = i)
    BY <1>1, <2>1, <2>2, AnchorGets
  <2>7. Members(Records, p)[a].id = got
    <3>1. Members(Records, p)[a] =
            [id |-> got, active |-> TRUE,
             first |-> IF a \in Known THEN member[a].first ELSE revision + 1]
      <4> HIDE DEF a, T
      <4>1. MembersOk(Records, p)
        BY <1>1, <2>1, MembersAre
      <4> QED BY <2>4, <4>1 DEF MembersOk
    <3> HIDE DEF got, a
    <3> QED BY <3>1
  <2>8. Registry(Records, p)[i].status = "active" <=> i \in Used(Records, p)
    <3>1. RegistryOk(Records, p)
      BY <1>1, <2>1, RegistryIs
    <3>2. CASE i \in Used(Records, p)
      BY <2>5, <3>1, <3>2 DEF RegistryOk, Active
    <3>3. CASE i \notin Used(Records, p)
      <4>1. i \in RegistryScope(Records)
        BY DEF RegistryScope
      <4>2. PICK status \in {"retired", "merged", "split"} : Registry(Records, p)[i] = Retire(i, status)
        BY <2>5, <3>1, <3>3, <4>1 DEF RegistryOk
      <4>3. Registry(Records, p)[i].status = status
        BY <4>2 DEF Retire
      <4> QED BY <3>3, <4>3
    <3> QED BY <3>2, <3>3
  <2>9. member'[first(i)].id = got
    BY <2>1, <2>3, <2>7
  <2> HIDE DEF first, got, a, T, stay
  <2> QED BY <2>1, <2>6, <2>8, <2>9
<1>2. ASSUME IInv, Next PROVE Kept
  <2>1. PICK S, p : Scoped(S, p) /\ Commit(S, p)
    BY <1>2, NextIsCommit
  <2> HIDE DEF first, stay
  <2> QED BY <1>1, <1>2, <2>1
<1>3. IInv /\ [Next]_vars => [Kept]_vars
  <2> HIDE DEF Kept
  <2> QED BY <1>2
<1> QED BY <1>3, Invariance, PTL DEF Spec, ContinuityByAnchor

-----------------------------------------------------------------------------
(* Lineage.                                                                *)

\* What the recursion says of R, a function like Reach: of the ids I, of the
\* publications up to m and of the transitions T.
After(T, i, n) == {t \in T : t.from = i /\ t.rev > n}
FirstOf(A) == {t \in A : \A u \in A : t.rev <= u.rev}

Leads(R, T, I, m) ==
  \A i \in I, n \in 0 .. m :
    R[<<i, n>>] = IF After(T, i, n) = {} THEN {i}
                  ELSE UNION {R[<<t.to, t.rev>>] : t \in FirstOf(After(T, i, n))}

ReachOk == Leads(Reach, Transitions, Issued, MaxRevision)

\* There is a function that meets the recursion: the least relation between
\* a place in the history and an id that is closed under it.
LEMMA ReachIs == TypeOK => ReachOk
<1> SUFFICES ASSUME TypeOK PROVE Leads(Reach, Transitions, Issued, MaxRevision)
  BY DEF ReachOk
<1> DEFINE D == Issued \X (0 .. MaxRevision)
           Closed(G) ==
             \A q \in D :
               /\ Later(q) = {} => <<q, q[1]>> \in G
               /\ \A t \in Following(q), c \in Issued :
                    <<<<t.to, t.rev>>, c>> \in G => <<q, c>> \in G
           f == [q \in D |-> {c \in Issued : \A G \in SUBSET (D \X Issued) :
                                               Closed(G) => <<q, c>> \in G}]
           R(q) == IF Later(q) = {} THEN {q[1]}
                   ELSE UNION {f[<<t.to, t.rev>>] : t \in Following(q)}
<1>1. \A q \in D : \A t \in Following(q) : <<t.to, t.rev>> \in D
  <2>1. \A t \in Transitions : t.to \in Issued /\ t.rev \in 0 .. MaxRevision
    BY BoundsAssumption DEF TypeOK
  <2> QED BY <2>1 DEF Following, Later
<1>2. \A q \in D : q[1] \in Issued
  OBVIOUS
<1>3. \A q \in D : Following(q) \subseteq Later(q)
  BY DEF Following
<1>4. \A q \in D : \A c : c \in f[q] <=>
        c \in Issued /\ \A G \in SUBSET (D \X Issued) : Closed(G) => <<q, c>> \in G
  OBVIOUS
<1>5. \A q \in D : \A c : c \in R(q) <=>
        IF Later(q) = {} THEN c = q[1] ELSE \E t \in Following(q) : c \in f[<<t.to, t.rev>>]
  <2> HIDE DEF f, D
  <2> QED OBVIOUS
<1> HIDE DEF f, R, D
<1>6. \A q \in D : R(q) \subseteq f[q]
  <2> SUFFICES ASSUME NEW q \in D, NEW c \in R(q) PROVE c \in f[q]
    OBVIOUS
  <2>1. CASE Later(q) = {}
    <3>1. c = q[1] /\ c \in Issued
      BY <1>2, <1>5, <2>1
    <3>2. \A G \in SUBSET (D \X Issued) : Closed(G) => <<q, c>> \in G
      BY <2>1, <3>1
    <3> QED BY <1>4, <3>1, <3>2
  <2>2. CASE Later(q) # {}
    <3>1. PICK t \in Following(q) : c \in f[<<t.to, t.rev>>]
      BY <1>5, <2>2
    <3>2. c \in Issued /\ \A G \in SUBSET (D \X Issued) :
            Closed(G) => <<<<t.to, t.rev>>, c>> \in G
      BY <1>1, <1>4, <3>1
    <3>3. \A G \in SUBSET (D \X Issued) : Closed(G) => <<q, c>> \in G
      BY <3>2
    <3> QED BY <1>4, <3>2, <3>3
  <2> QED BY <2>1, <2>2
<1>7. \A q \in D : f[q] \subseteq R(q)
  <2> DEFINE G == {x \in D \X Issued : x[2] \in R(x[1])}
  <2>1. G \in SUBSET (D \X Issued)
    OBVIOUS
  <2>2. \A q \in D, c \in Issued : <<q, c>> \in G <=> c \in R(q)
    OBVIOUS
  <2> HIDE DEF G
  <2>3. Closed(G)
    <3> SUFFICES ASSUME NEW q \in D
                 PROVE  /\ Later(q) = {} => <<q, q[1]>> \in G
                        /\ \A t \in Following(q), c \in Issued :
                             <<<<t.to, t.rev>>, c>> \in G => <<q, c>> \in G
      OBVIOUS
    <3>1. Later(q) = {} => <<q, q[1]>> \in G
      BY <1>2, <1>5, <2>2
    <3>2. ASSUME NEW t \in Following(q), NEW c \in Issued, <<<<t.to, t.rev>>, c>> \in G
          PROVE  <<q, c>> \in G
      <4>1. c \in f[<<t.to, t.rev>>]
        BY <1>1, <1>6, <2>2, <3>2
      <4>2. Later(q) # {}
        BY <1>3
      <4> QED BY <1>5, <2>2, <4>1, <4>2
    <3> QED BY <3>1, <3>2
  <2> QED BY <1>4, <2>1, <2>2, <2>3
<1>8. f = [q \in D |-> R(q)]
  <2>1. \A q \in D : f[q] = R(q)
    BY <1>6, <1>7
  <2>2. f = [q \in D |-> f[q]]
    BY DEF f
  <2> QED BY <2>1, <2>2
<1>9. Reach = [q \in D |-> IF Later(q) = {} THEN {q[1]}
                           ELSE UNION {Reach[<<t.to, t.rev>>] : t \in Following(q)}]
  <2> DEFINE Meets(g) ==
        g = [q \in Issued \X (0 .. MaxRevision) |->
               IF Later(q) = {} THEN {q[1]}
               ELSE UNION {g[<<t.to, t.rev>>] : t \in Following(q)}]
  <2>1. Meets(f)
    BY <1>8 DEF R, D
  <2>2. Reach = CHOOSE g : Meets(g)
    BY DEF Reach
  <2>3. Meets(Reach)
    <3> HIDE DEF Meets
    <3> QED BY <2>1, <2>2
  <2> QED BY <2>3 DEF D
<1>10. ASSUME NEW i \in Issued, NEW n \in 0 .. MaxRevision
       PROVE  Reach[<<i, n>>] =
                IF Later(<<i, n>>) = {} THEN {i}
                ELSE UNION {Reach[<<t.to, t.rev>>] : t \in Following(<<i, n>>)}
  <2>1. <<i, n>> \in D /\ <<i, n>>[1] = i
    BY DEF D
  <2> QED BY <1>9, <2>1
<1>11. \A i, n : Later(<<i, n>>) = After(Transitions, i, n) /\ Following(<<i, n>>) = FirstOf(After(Transitions, i, n))
  BY DEF Later, Following, After, FirstOf
<1>12. ASSUME NEW i \in Issued, NEW n \in 0 .. MaxRevision
       PROVE  Reach[<<i, n>>] =
                IF After(Transitions, i, n) = {} THEN {i}
                ELSE UNION {Reach[<<t.to, t.rev>>] : t \in FirstOf(After(Transitions, i, n))}
  BY <1>10, <1>11
<1> QED BY <1>12 DEF Leads

\* What a publication writes of the past of the ids, and where it leads.
Written(S, p) == Aliases(S, p) \cup Splits(S, p)

Led(S, p, i) == IF i \in OldIds(S, p) THEN Successors(S, p, Assigned(S, p), i) ELSE {i}

\* Rows are written of an id with members, to every id these are given; none
\* are if that is the id itself alone.
LEMMA WrittenAre ==
  ASSUME IInv, NEW S, NEW p, Scoped(S, p)
  PROVE  /\ \A t \in Written(S, p) : t.from \in Issued /\ t.to \in Used(S, p) /\ t.rev = revision + 1
         /\ \A i \in Issued :
              /\ Led(S, p, i) # {}
              /\ (\A t \in Written(S, p) : t.from # i) => Led(S, p, i) = {i}
              /\ (\E t \in Written(S, p) : t.from = i) =>
                   \A c : c \in Led(S, p, i) <=> \E t \in Written(S, p) : t.from = i /\ t.to = c
<1> DEFINE next(i) == Successors(S, p, Assigned(S, p), i)
<1>1. \A i : next(i) \subseteq Used(S, p)
  BY SuccessorsAre
<1>2. \A i \in OldIds(S, p) : i \in Issued /\ next(i) # {}
  BY DEF OldIds, Successors
<1>3. \A i : IsFiniteSet(next(i))
  <2>1. \A i : next(i) \in SUBSET (Issued \cup Used(S, p))
    BY <1>1
  <2>2. IsFiniteSet(Issued \cup Used(S, p))
    BY ScopeIs, AssignedOnce
  <2> HIDE DEF next
  <2> QED BY <2>1, <2>2, FS_Subset
<1>4. \A t : t \in Aliases(S, p) <=>
        \E i \in OldIds(S, p) : Cardinality(next(i)) = 1 /\ \E c \in next(i) \ {i} : t = Row(i, c)
  BY DEF Aliases, NewAliases
<1>5. \A t : t \in Splits(S, p) <=>
        \E i \in OldIds(S, p) : Cardinality(next(i)) > 1 /\ \E c \in next(i) : t = Row(i, c)
  BY DEF Splits, NewSplits
<1> HIDE DEF next
<1>6. \A i, c : Row(i, c).from = i /\ Row(i, c).to = c /\ Row(i, c).rev = revision + 1
  BY DEF Row
<1>7. \A t \in Written(S, p) :
        \E i \in OldIds(S, p) : \E c \in next(i) : t = Row(i, c)
  BY <1>4, <1>5 DEF Written
<1>8. \A i \in OldIds(S, p) : Led(S, p, i) = next(i)
  BY DEF Led, next
<1>9. \A i \in Issued \ OldIds(S, p) : Led(S, p, i) = {i}
  BY DEF Led
<1>10. ASSUME NEW i \in OldIds(S, p)
       PROVE  \/ next(i) = {i} /\ \A t \in Written(S, p) : t.from # i
              \/ \A c \in next(i) : Row(i, c) \in Written(S, p)
  <2>1. CASE Cardinality(next(i)) = 1
    <3>1. PICK c : next(i) = {c}
      BY <1>3, <2>1, FS_Singleton
    <3>2. \A t \in Written(S, p) : t.from = i => \E d \in next(i) \ {i} : t = Row(i, d)
      BY <1>4, <1>5, <1>6, <2>1 DEF Written
    <3> QED BY <1>4, <2>1, <3>1, <3>2 DEF Written
  <2>2. CASE Cardinality(next(i)) # 1
    <3>1. Cardinality(next(i)) \in Nat /\ Cardinality(next(i)) # 0
      BY <1>2, <1>3, FS_CardinalityType, FS_EmptySet
    <3>2. Cardinality(next(i)) > 1
      BY <2>2, <3>1
    <3> QED BY <1>5, <3>2 DEF Written
  <2> QED BY <2>1, <2>2
<1>11. \A t \in Written(S, p) : t.from \in Issued /\ t.to \in Used(S, p) /\ t.rev = revision + 1
  BY <1>1, <1>2, <1>6, <1>7
<1>12. ASSUME NEW i \in Issued, \A t \in Written(S, p) : t.from # i
       PROVE  Led(S, p, i) = {i}
  BY <1>2, <1>6, <1>8, <1>9, <1>10, <1>12
<1>13. ASSUME NEW i \in Issued, \E t \in Written(S, p) : t.from = i, NEW c
       PROVE  c \in Led(S, p, i) <=> \E t \in Written(S, p) : t.from = i /\ t.to = c
  <2>1. i \in OldIds(S, p)
    BY <1>6, <1>7, <1>13
  <2>2. \A d \in next(i) : Row(i, d) \in Written(S, p)
    BY <1>10, <1>13, <2>1
  <2>3. \A t \in Written(S, p) : t.from = i => t.to \in next(i)
    BY <1>6, <1>7
  <2> QED BY <1>6, <1>8, <2>1, <2>2, <2>3
<1>14. \A i \in Issued : Led(S, p, i) # {}
  BY <1>2, <1>8, <1>9
<1> QED BY <1>11, <1>12, <1>13, <1>14

\* Rows N of the publication v + 1 follow the rows T, and where they lead.
RowsOf(T, I, v) == \A t \in T : t.from \in I /\ t.to \in I /\ t.rev \in 1 .. v

NextRows(U, T, N, I, J, v) ==
  /\ \A t : t \in U <=> t \in T \/ t \in N
  /\ \A t \in N : t.from \in I /\ t.to \in J /\ t.rev = v + 1

LedBy(led, N, I) ==
  \A i \in I :
    /\ (\A t \in N : t.from # i) => led[i] = {i}
    /\ (\E t \in N : t.from = i) =>
         \A c : c \in led[i] <=> \E t \in N : t.from = i /\ t.to = c

LeadsFrom(R, R1, led, I, J, v) ==
  /\ \A i \in J \ I : R1[<<i, 0>>] = {i}
  /\ \A i \in I, n \in 0 .. v : \A d :
       d \in R1[<<i, n>>] <=> \E c \in R[<<i, n>>] : d \in led[c]

\* When rows N of the next publication follow, an id leads to where it led
\* before, and from there on by the rows; the rows lead to the end.
LEMMA LeadsOn ==
  ASSUME NEW m \in Nat, NEW v \in Nat, v + 1 <= m, NEW I, NEW J, I \subseteq J,
         NEW T, NEW N, NEW U, RowsOf(T, I, v), NextRows(U, T, N, I, J, v),
         NEW R, Leads(R, T, I, m), NEW R1, Leads(R1, U, J, m),
         NEW led, LedBy(led, N, I)
  PROVE  LeadsFrom(R, R1, led, I, J, v)
<1>1. \A t \in T : t.from \in I /\ t.to \in I /\ t.rev \in 1 .. v
  BY DEF RowsOf
<1>2. /\ \A t : t \in U <=> t \in T \/ t \in N
      /\ \A t \in N : t.from \in I /\ t.to \in J /\ t.rev = v + 1
  BY DEF NextRows
<1>3. \A i \in I :
        /\ (\A t \in N : t.from # i) => led[i] = {i}
        /\ (\E t \in N : t.from = i) =>
             \A c : c \in led[i] <=> \E t \in N : t.from = i /\ t.to = c
  BY DEF LedBy
<1> DEFINE w == v + 1
<1>4. \A n \in 0 .. v : n \in 0 .. m /\ n \in Nat
  OBVIOUS
<1>5. w \in 0 .. m /\ w \in Nat
  OBVIOUS
<1>6. \A i, n, t : t \in After(T, i, n) <=> t \in T /\ t.from = i /\ t.rev > n
  BY DEF After
<1>7. \A i, n, t : t \in After(U, i, n) <=> (t \in T \/ t \in N) /\ t.from = i /\ t.rev > n
  BY <1>2 DEF After
<1>8. \A A, t : t \in FirstOf(A) <=> t \in A /\ \A u \in A : t.rev <= u.rev
  BY DEF FirstOf
<1>9. ASSUME NEW i \in J, NEW n \in 0 .. m, After(U, i, n) = {}
      PROVE  R1[<<i, n>>] = {i}
  BY <1>9 DEF Leads
<1>10. ASSUME NEW i \in J
      PROVE  R1[<<i, w>>] = {i}
  <2>1. \A t \in U : ~(t.rev > w)
    BY <1>1, <1>2
  <2>2. After(U, i, w) = {}
    <3> HIDE DEF w
    <3> QED BY <2>1 DEF After
  <2> QED BY <1>5, <1>9, <2>2
<1>11. ASSUME NEW i \in J \ I
      PROVE  R1[<<i, 0>>] = {i}
  <2>1. After(U, i, 0) = {}
    BY <1>7, <1>1, <1>2
  <2> QED BY <1>9, <2>1
<1> DEFINE Ok(i, n) == \A d : d \in R1[<<i, n>>] <=> \E c \in R[<<i, n>>] : d \in led[c]
           Bad == {x \in Nat : \E i \in I, n \in 0 .. v : x = v - n /\ ~Ok(i, n)}
<1>12. ASSUME NEW i \in I, NEW n \in 0 .. v,
              \A j \in I, k \in 0 .. v : k > n => Ok(j, k)
       PROVE  Ok(i, n)
  <2>1. n \in 0 .. m /\ i \in J
    BY <1>4
  <2> DEFINE A == After(T, i, n)
             B == After(U, i, n)
  <2>2. \A t : t \in B <=> t \in A \/ (t \in N /\ t.from = i)
    <3>1. v + 1 > n
      BY <1>4
    <3> QED BY <1>6, <1>7, <1>1, <1>2, <3>1
  <2>3. R[<<i, n>>] = IF A = {} THEN {i} ELSE UNION {R[<<t.to, t.rev>>] : t \in FirstOf(A)}
    BY <2>1 DEF Leads
  <2>4. R1[<<i, n>>] = IF B = {} THEN {i} ELSE UNION {R1[<<t.to, t.rev>>] : t \in FirstOf(B)}
    BY <2>1 DEF Leads
  <2>5. CASE A = {}
    <3>1. R[<<i, n>>] = {i}
      BY <2>3, <2>5
    <3>2. CASE \A t \in N : t.from # i
      <4>1. B = {}
        BY <2>2, <2>5, <3>2
      <4>2. R1[<<i, n>>] = {i}
        BY <2>4, <4>1
      <4>3. led[i] = {i}
        BY <1>3, <3>2
      <4> QED BY <3>1, <4>2, <4>3
    <3>3. CASE \E t \in N : t.from = i
      <4>1. \A t : t \in FirstOf(B) <=> t \in N /\ t.from = i
        <5>1. \A t : t \in B <=> t \in N /\ t.from = i
          BY <2>2, <2>5
        <5>2. \A t, u \in N : t.rev <= u.rev
          BY <1>2
        <5> HIDE DEF B
        <5> QED BY <1>8, <5>1, <5>2
      <4>2. B # {}
        BY <2>2, <3>3
      <4>3. \A d : d \in R1[<<i, n>>] <=> \E t \in FirstOf(B) : d \in R1[<<t.to, t.rev>>]
        BY <2>4, <4>2
      <4>4. \A t \in N : R1[<<t.to, t.rev>>] = {t.to}
        BY <1>2, <1>10
      <4>5. \A d : d \in led[i] <=> \E t \in N : t.from = i /\ t.to = d
        BY <1>3, <3>3
      <4> HIDE DEF B
      <4>6. \A d : d \in R1[<<i, n>>] <=> d \in led[i]
        <5>1. ASSUME NEW d
              PROVE  d \in R1[<<i, n>>] <=> \E t \in N : t.from = i /\ d \in R1[<<t.to, t.rev>>]
          BY <4>1, <4>3
        <5>2. ASSUME NEW d
              PROVE  d \in R1[<<i, n>>] <=> \E t \in N : t.from = i /\ d = t.to
          <6>1. d \in R1[<<i, n>>] <=> \E t \in N : t.from = i /\ d \in R1[<<t.to, t.rev>>]
            BY <5>1
          <6>2. \A t \in N : d \in R1[<<t.to, t.rev>>] <=> d = t.to
            BY <4>4
          <6> QED BY <6>1, <6>2
        <5> QED BY <4>5, <5>2
      <4> QED BY <3>1, <4>6
    <3> QED BY <3>2, <3>3
  <2>6. CASE A # {}
    <3>1. \A t \in A : t \in T /\ t.rev \in Nat /\ t.rev <= v
      BY <1>1, <1>6
    <3>2. \A t \in B \ A : t.rev = v + 1
      BY <1>2, <2>2
    <3>3. \A t : t \in FirstOf(B) <=> t \in FirstOf(A)
      <4>1. \A t \in A : t \in B
        BY <2>2
      <4> HIDE DEF A, B
      <4>2. PICK u : u \in A
        BY <2>6
      <4>3. ASSUME NEW t, t \in FirstOf(B)
            PROVE  t \in FirstOf(A)
        <5>1. t.rev <= u.rev /\ u.rev \in Nat /\ u.rev <= v
          BY <1>8, <3>1, <4>1, <4>2, <4>3
        <5>2. t \in A
          BY <1>8, <3>2, <4>3, <5>1
        <5> QED BY <1>8, <4>1, <4>3, <5>2
      <4>4. ASSUME NEW t, t \in FirstOf(A)
            PROVE  t \in FirstOf(B)
        <5>1. t \in A /\ \A x \in A : t.rev <= x.rev
          BY <1>8, <4>4
        <5>2. \A x \in B \ A : t.rev <= x.rev
          BY <3>1, <3>2, <5>1
        <5> QED BY <1>8, <4>1, <5>1, <5>2
      <4> QED BY <4>3, <4>4
    <3>4. B # {}
      BY <2>2, <2>6
    <3>5. \A t \in FirstOf(A) : t.to \in I /\ t.rev \in 0 .. v /\ t.rev > n
      <4>1. \A t \in FirstOf(A) : t \in T /\ t.rev > n
        BY <1>6, <1>8
      <4> HIDE DEF A
      <4> QED BY <1>1, <4>1
    <3>6. \A t \in FirstOf(A) : Ok(t.to, t.rev)
      <4> HIDE DEF Ok, A
      <4> QED BY <1>12, <3>5
    <3>7. \A d : d \in R1[<<i, n>>] <=> \E t \in FirstOf(B) : d \in R1[<<t.to, t.rev>>]
      BY <2>4, <3>4
    <3>8. \A c : c \in R[<<i, n>>] <=> \E t \in FirstOf(A) : c \in R[<<t.to, t.rev>>]
      BY <2>3, <2>6
    <3> HIDE DEF A, B
    <3>9. ASSUME NEW d
          PROVE  d \in R1[<<i, n>>] <=> \E t \in FirstOf(A) : \E c \in R[<<t.to, t.rev>>] : d \in led[c]
      <4>1. d \in R1[<<i, n>>] <=> \E t \in FirstOf(A) : d \in R1[<<t.to, t.rev>>]
        BY <3>3, <3>7
      <4>2. ASSUME NEW t \in FirstOf(A)
            PROVE  d \in R1[<<t.to, t.rev>>] <=> \E c \in R[<<t.to, t.rev>>] : d \in led[c]
        BY <3>6
      <4> HIDE DEF Ok
      <4> QED BY <4>1, <4>2
    <3>10. ASSUME NEW d
           PROVE  d \in R1[<<i, n>>] <=> \E c \in R[<<i, n>>] : d \in led[c]
      <4>1. (\E c \in R[<<i, n>>] : d \in led[c])
              <=> \E t \in FirstOf(A) : \E c \in R[<<t.to, t.rev>>] : d \in led[c]
        BY <3>8
      <4> QED BY <3>9, <4>1
    <3> QED BY <3>10
  <2> QED BY <2>5, <2>6
<1> HIDE DEF Ok
<1>13. Bad = {}
  <2> SUFFICES ASSUME Bad # {} PROVE FALSE
    OBVIOUS
  <2>1. Bad \in SUBSET Nat
    OBVIOUS
  <2>2. \A x : x \in Bad <=> x \in Nat /\ \E i \in I, n \in 0 .. v : x = v - n /\ ~Ok(i, n)
    OBVIOUS
  <2> HIDE DEF Bad
  <2>3. PICK x \in Bad : \A y \in Bad : x <= y
    BY <2>1, NatFirst
  <2>4. PICK i \in I, n \in 0 .. v : x = v - n /\ ~Ok(i, n)
    BY <2>2
  <2>5. ASSUME NEW j \in I, NEW k \in 0 .. v, k > n, ~Ok(j, k)
        PROVE  FALSE
    <3>1. v - k \in Nat
      OBVIOUS
    <3>2. v - k \in Bad
      BY <2>2, <2>5, <3>1
    <3>3. v - n <= v - k
      BY <2>3, <2>4, <3>2
    <3> QED BY <2>5, <3>3
  <2> QED BY <1>12, <2>4, <2>5
<1>14. \A i \in I, n \in 0 .. v : Ok(i, n)
  <2> SUFFICES ASSUME NEW i \in I, NEW n \in 0 .. v, ~Ok(i, n) PROVE FALSE
    OBVIOUS
  <2>1. v - n \in Nat /\ v - n \in Bad
    OBVIOUS
  <2> QED BY <1>13, <2>1
<1> QED BY <1>11, <1>14 DEF Ok, LeadsFrom

\* The lineage of each id, with what makes it inductive: a record holds its
\* present id among others.
Lineage ==
  /\ \A r \in DOMAIN resolved :
       /\ member[r].id \in held[r]
       /\ \A i \in held[r] : member[r].id \in Reach[<<i, 0>>]
  /\ \A i \in Issued :
       /\ Reach[<<i, 0>>] # {}
       /\ \A c \in Reach[<<i, 0>>] : c \in Issued /\ registry[c].status \in {"active", "retired"}

\* Where a publication leads an id that is active or retired is so again.
LEMMA LedToEnds ==
  ASSUME IInv, NEW S, NEW p, Scoped(S, p), NEW c \in Issued,
         registry[c].status \in {"active", "retired"}, NEW d \in Led(S, p, c)
  PROVE  /\ d \in Issued \cup Used(S, p)
         /\ Registry(S, p)[d].status \in {"active", "retired"}
<1>1. RegistryOk(S, p)
  BY RegistryIs
<1>2. CASE c \in OldIds(S, p)
  <2>1. d \in Used(S, p)
    BY <1>2, SuccessorsAre DEF Led
  <2>2. CASE d \in Issued
    <3>1. Registry(S, p)[d] = registry[d] /\ Active(d)
      BY <1>1, <2>1, <2>2, UsedIs DEF RegistryOk
    <3> QED BY <2>1, <3>1 DEF Active
  <2>3. CASE d \notin Issued
    <3>1. Registry(S, p)[d] = [status |-> "active", created |-> revision + 1, retired |-> 0]
      BY <1>1, <2>1, <2>3 DEF RegistryOk
    <3> QED BY <2>1, <3>1
  <2> QED BY <2>2, <2>3
<1>3. CASE c \notin OldIds(S, p)
  <2>1. d = c
    BY <1>3 DEF Led
  <2>2. CASE ~Active(c) \/ c \in Used(S, p) \/ c \notin RegistryScope(S)
    BY <1>1, <2>1, <2>2 DEF RegistryOk
  <2>3. CASE Active(c) /\ c \in RegistryScope(S)
    <3>1. Registry(S, p)[c] = NextIdentity(S, p, Assigned(S, p), c)
      BY <2>3 DEF Registry, NextRegistry
    <3>2. Successors(S, p, Assigned(S, p), c) = {}
      BY <1>3 DEF OldIds, Successors
    <3>3. NextIdentity(S, p, Assigned(S, p), c) = Retire(c, "retired")
      BY <2>3, <3>2 DEF NextIdentity
    <3>4. Registry(S, p)[c].status = "retired"
      BY <3>1, <3>3 DEF Retire
    <3> QED BY <2>1, <3>4
  <2> QED BY <2>1, <2>2, <2>3
<1> QED BY <1>2, <1>3

\* A publication leads the id of a record that stays to its id thereafter, and
\* that id, if it was issued before, to itself.
LEMMA LedToMembers ==
  ASSUME IInv, NEW S, NEW p, Scoped(S, p), NEW r \in DOMAIN p
  PROVE  LET i == Members(S, p)[r].id
         IN  /\ r \in DOMAIN resolved => i \in Led(S, p, member[r].id)
             /\ i \in Issued => Active(i) /\ i \in Led(S, p, i)
             /\ i \in Issued \cup Used(S, p)
<1> DEFINE i == Members(S, p)[r].id
<1>1. MembersOk(S, p)
  BY MembersAre
<1>2. CASE r \in S
  <2>1. i = Assigned(S, p)[p[r]] /\ i \in Used(S, p)
    <3>1. /\ Assigned(S, p)[p[r]] \in Used(S, p)
          /\ Members(S, p)[r] = [id |-> Assigned(S, p)[p[r]], active |-> TRUE,
                                first |-> IF r \in Known THEN member[r].first ELSE revision + 1]
      BY <1>1, <1>2 DEF MembersOk
    <3> QED BY <3>1
  <2>2. i \in Issued => Active(i) /\ i \in Led(S, p, i)
    BY <2>1, UsedIs DEF Led
  <2>3. ASSUME r \in DOMAIN resolved
        PROVE  i \in Led(S, p, member[r].id)
    <3>1. r \in Continuing(S, p, member[r].id) /\ member[r].id \in Issued
      BY <1>2, <2>3, ContinuingIs, RowsAre
    <3>2. member[r].id \in OldIds(S, p)
      BY <3>1 DEF OldIds
    <3>3. i \in Successors(S, p, Assigned(S, p), member[r].id)
      BY <2>1, <3>1 DEF Successors
    <3> QED BY <3>2, <3>3 DEF Led
  <2> QED BY <2>1, <2>2, <2>3
<1>3. CASE r \notin S
  <2>1. r \in DOMAIN resolved /\ r \in Known \ S
    BY <1>3, ScopeIs, ResolutionIs, RowsAre
  <2>2. i = member[r].id /\ i \in Issued /\ Active(i)
    BY <1>1, <2>1, RowsAre DEF MembersOk
  <2>3. i \notin OldIds(S, p)
    BY <2>1, <2>2, ScopeIs
  <2>4. i \in Led(S, p, i)
    BY <2>3 DEF Led
  <2> QED BY <2>1, <2>2, <2>4
<1> QED BY <1>2, <1>3

LEMMA LineageCommit ==
  ASSUME IInv, IInv', NEW S, NEW p, Scoped(S, p), Commit(S, p), Lineage,
         Leads(Reach, Transitions, Issued, MaxRevision),
         Leads(Reach', Transitions', Issued', MaxRevision)
  PROVE  Lineage'
<1>1. /\ revision' = revision + 1 /\ resolved' = p
      /\ registry' = Registry(S, p) /\ member' = Members(S, p)
      /\ Transitions' = Transitions \cup Written(S, p)
      /\ held' = [r \in Records |->
           IF r \notin DOMAIN p THEN {}
           ELSE {Members(S, p)[r].id} \cup (IF r \in DOMAIN resolved THEN held[r] ELSE {})]
  BY CommitIs DEF Transitions, Written
<1>2. Issued' = Issued \cup Used(S, p)
  BY <1>1, RegistryIs DEF Issued, RegistryOk
<1>3. revision \in Nat /\ MaxRevision \in Nat /\ revision + 1 <= MaxRevision
  <2>1. revision \in Nat /\ revision' \in 0 .. MaxRevision
    BY RowsAre DEF IInv, TypeOK
  <2> QED BY <1>1, <2>1, BoundsAssumption
<1>4. RowsOf(Transitions, Issued, revision)
  BY DEF IInv, TypeOK, RowsOf
<1>5. NextRows(Transitions', Transitions, Written(S, p), Issued, Issued', revision)
  BY <1>1, <1>2, WrittenAre DEF NextRows
<1> DEFINE led == [i \in Issued |-> Led(S, p, i)]
<1>6. \A i \in Issued :
        led[i] = Led(S, p, i) /\ Led(S, p, i) # {}
  BY WrittenAre
<1>7. LedBy(led, Written(S, p), Issued)
  BY WrittenAre DEF LedBy
<1> HIDE DEF led
<1>8. /\ \A i \in Issued' \ Issued : Reach'[<<i, 0>>] = {i}
      /\ \A i \in Issued, n \in 0 .. revision : \A d :
           d \in Reach'[<<i, n>>] <=> \E c \in Reach[<<i, n>>] : d \in led[c]
  <2>1. Issued \subseteq Issued'
    BY <1>2
  <2>2. LeadsFrom(Reach, Reach', led, Issued, Issued', revision)
    BY <1>3, <1>4, <1>5, <1>7, <2>1, LeadsOn
  <2> QED BY <2>2 DEF LeadsFrom
<1>9. \A i \in Issued : \A c : c \in Reach[<<i, 0>>] => c \in Issued /\ led[c] = Led(S, p, c)
  BY <1>6 DEF Lineage
<1>10. ASSUME NEW i \in Issued, NEW d
       PROVE  d \in Reach'[<<i, 0>>] <=> \E c \in Reach[<<i, 0>>] : d \in Led(S, p, c)
  <2>1. 0 \in 0 .. revision
    BY <1>3
  <2>2. d \in Reach'[<<i, 0>>] <=> \E c \in Reach[<<i, 0>>] : d \in led[c]
    BY <1>8, <2>1
  <2> QED BY <1>9, <2>2
<1>11. ASSUME NEW i \in Issued'
       PROVE  /\ Reach'[<<i, 0>>] # {}
              /\ \A c \in Reach'[<<i, 0>>] :
                   c \in Issued' /\ registry'[c].status \in {"active", "retired"}
  <2>1. CASE i \in Issued
    <3>1. PICK c : c \in Reach[<<i, 0>>]
      BY <2>1 DEF Lineage
    <3>2. Reach'[<<i, 0>>] # {}
      BY <1>6, <1>9, <1>10, <2>1, <3>1
    <3>3. ASSUME NEW d \in Reach'[<<i, 0>>]
          PROVE  d \in Issued' /\ registry'[d].status \in {"active", "retired"}
      <4>1. PICK e \in Reach[<<i, 0>>] : d \in Led(S, p, e)
        BY <1>10, <2>1
      <4>2. e \in Issued /\ registry[e].status \in {"active", "retired"}
        BY <2>1 DEF Lineage
      <4> QED BY <1>1, <1>2, <4>1, <4>2, LedToEnds
    <3> QED BY <3>2, <3>3
  <2>2. CASE i \notin Issued
    <3>1. Reach'[<<i, 0>>] = {i}
      BY <1>8, <2>2
    <3>2. Registry(S, p)[i] = [status |-> "active", created |-> revision + 1, retired |-> 0]
      BY <1>2, <2>2, RegistryIs DEF RegistryOk
    <3> QED BY <1>1, <3>1, <3>2
  <2> QED BY <2>1, <2>2
<1>12. ASSUME NEW r \in DOMAIN p
       PROVE  /\ Members(S, p)[r].id \in held'[r]
              /\ \A i \in held'[r] : Members(S, p)[r].id \in Reach'[<<i, 0>>]
  <2> DEFINE id == Members(S, p)[r].id
  <2>1. r \in Records
    BY ScopeIs, ResolutionIs
  <2>2. held'[r] = {id} \cup (IF r \in DOMAIN resolved THEN held[r] ELSE {})
    BY <1>1, <2>1
  <2>3. /\ r \in DOMAIN resolved => id \in Led(S, p, member[r].id)
        /\ id \in Issued => Active(id) /\ id \in Led(S, p, id)
        /\ id \in Issued'
    BY <1>2, LedToMembers
  <2> HIDE DEF id
  <2>4. id \in Reach'[<<id, 0>>]
    <3>1. CASE id \in Issued
      <4>1. PICK s \in DOMAIN resolved : member[s].id = id
        BY <2>3, <3>1, RowsAre
      <4>2. id \in Reach[<<id, 0>>]
        BY <4>1 DEF Lineage
      <4> QED BY <1>10, <2>3, <3>1, <4>2
    <3>2. CASE id \notin Issued
      BY <1>8, <2>3, <3>2
    <3> QED BY <3>1, <3>2
  <2>5. ASSUME r \in DOMAIN resolved, NEW i \in held[r]
        PROVE  id \in Reach'[<<i, 0>>]
    <3>1. member[r].id \in Reach[<<i, 0>>]
      BY <2>5 DEF Lineage
    <3>2. i \in Issued
      BY <2>1 DEF IInv, TypeOK
    <3> QED BY <1>10, <2>3, <2>5, <3>1, <3>2
  <2> QED BY <2>2, <2>4, <2>5 DEF id
<1> QED BY <1>1, <1>11, <1>12 DEF Lineage

\* The history of an mdm_id is complete: however often ids were merged and
\* split, each still leads (current_successors) to the present id of every
\* record that held it, and to nothing that was merged or split away.
THEOREM HistoryLeadsToRecords == Spec => []LineageComplete
<1>1. Init => Lineage
  <2> SUFFICES ASSUME Init PROVE Lineage
    OBVIOUS
  <2>1. DOMAIN resolved = {} /\ Issued = {}
    BY DEF Init, Issued
  <2> QED BY <2>1 DEF Lineage
<1>2. IInv /\ IInv' /\ ReachOk /\ ReachOk' /\ Lineage /\ [Next]_vars => Lineage'
  <2> SUFFICES ASSUME IInv, IInv', ReachOk, ReachOk', Lineage, [Next]_vars PROVE Lineage'
    OBVIOUS
  <2>1. CASE Next
    <3>1. PICK S, p : Scoped(S, p) /\ Commit(S, p)
      BY <2>1, NextIsCommit
    <3> QED BY <3>1, LineageCommit DEF ReachOk
  <2>2. CASE UNCHANGED vars
    <3>1. Reach' = Reach
      BY <2>2 DEF vars, Reach, Later, Following, Transitions, Issued
    <3> QED BY <2>2, <3>1 DEF vars, Lineage, Issued
  <2> QED BY <2>1, <2>2
<1>3. IInv => ReachOk
  BY ReachIs DEF IInv
<1>4. Spec => []ReachOk
  BY <1>3, Invariance, PTL
<1>5. IInv /\ Lineage => LineageComplete
  <2> SUFFICES ASSUME IInv, Lineage PROVE LineageComplete
    OBVIOUS
  <2> DEFINE ends == [i \in Issued |-> CurrentSuccessors(i)]
  <2>1. \A i \in Issued : ends[i] = Reach[<<i, 0>>]
    BY DEF CurrentSuccessors
  <2>2. \A r \in DOMAIN resolved : r \in Records /\ held[r] \subseteq Issued
    BY DEF IInv, TypeOK
  <2> HIDE DEF ends
  <2>3. \A r \in DOMAIN resolved : \A i \in held[r] : member[r].id \in ends[i]
    BY <2>1, <2>2 DEF Lineage
  <2>4. \A i \in Issued : ends[i] # {} /\ \A c \in ends[i] : registry[c].status \in {"active", "retired"}
    BY <2>1 DEF Lineage
  <2> QED BY <2>3, <2>4 DEF LineageComplete, ends
<1> QED BY <1>1, <1>2, <1>4, <1>5, Invariance, PTL DEF Spec

=============================================================================
