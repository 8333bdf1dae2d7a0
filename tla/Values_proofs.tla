--------------------------- MODULE Values_proofs ---------------------------
(***************************************************************************)
(* Proofs about Candidates and Golden: a refresh that evaluates has all    *)
(* the evidence on all the pairs some channel discovers, and one that is   *)
(* refused is over a limit of the reference algorithm; the golden values   *)
(* that are published are those of the table of policies, and values that  *)
(* agree survive a merge.                                                  *)
(***************************************************************************)
EXTENDS Candidates, Golden, FiniteSetTheorems, TLAPS

-----------------------------------------------------------------------------
(* Counting.                                                               *)

LEMMA MinOfTwo ==
  ASSUME NEW a \in Int, NEW b \in Int
  PROVE  Min({a, b}) = IF a <= b THEN a ELSE b
<1>1. \E x \in {a, b} : \A y \in {a, b} : x <= y
  OBVIOUS
<1> QED BY <1>1 DEF Min

LEMMA MaxOfTwo ==
  ASSUME NEW a \in Int, NEW b \in Int
  PROVE  Max({a, b}) = IF a >= b THEN a ELSE b
<1>1. \E x \in {a, b} : \A y \in {a, b} : x >= y
  OBVIOUS
<1> QED BY <1>1 DEF Max

\* Of a family of finite sets some member contains no other.
LEMMA SmallestOf ==
  ASSUME NEW S, IsFiniteSet(S), NEW T \in SUBSET (SUBSET S), T # {}
  PROVE  \E P \in T : \A Q \in T : Q \subseteq P => Q = P
<1>1. FiniteSubsetsOf(S) = SUBSET S
  BY FS_FiniteSubsetsOfFinite
<1>2. IsWellFoundedOn(StrictSubsetOrdering(S), SUBSET S)
  BY <1>1, FS_StrictSubsetOrderingWellFounded
<1>3. PICK P \in T : \A Q \in T : <<Q, P>> \notin StrictSubsetOrdering(S)
  BY <1>2, WFMin
<1>4. \A Q \in T : Q \subseteq P => Q = P
  BY <1>3 DEF StrictSubsetOrdering
<1> QED BY <1>4

\* Induction over a finite set S whose hypothesis is the set T of the subsets
\* of which something holds.
LEMMA InductionOverSets ==
  ASSUME NEW S, IsFiniteSet(S), NEW T, {} \in T,
         \A P \in SUBSET S : \A x \in S \ P : P \in T => P \cup {x} \in T
  PROVE  S \in T
<1> DEFINE U == {P \in SUBSET S : P \notin T}
<1>1. ASSUME NEW P \in U, \A Q \in U : Q \subseteq P => Q = P
      PROVE  FALSE
  <2>1. P # {} /\ P \in SUBSET S /\ P \notin T
    OBVIOUS
  <2>2. PICK x \in P : TRUE
    BY <2>1
  <2>3. /\ P \ {x} \in SUBSET S /\ x \in S \ (P \ {x}) /\ P \ {x} \subseteq P
        /\ P \ {x} # P /\ P = (P \ {x}) \cup {x}
    BY <2>1, <2>2
  <2>4. P \ {x} \in T
    BY <1>1, <2>3
  <2>5. (P \ {x}) \cup {x} \in T
    BY <2>3, <2>4
  <2> QED BY <2>1, <2>3, <2>5
<1>2. U = {}
  <2>1. U \in SUBSET (SUBSET S)
    OBVIOUS
  <2> HIDE DEF U
  <2> QED BY <1>1, <2>1, SmallestOf
<1> QED BY <1>2

\* What a function onto a set, from a finite one, says of its size.
LEMMA ImageBound ==
  ASSUME NEW S, IsFiniteSet(S), NEW T, NEW f, f \in [S -> T],
         \A t \in T : \E s \in S : f[s] = t
  PROVE  /\ IsFiniteSet(T) /\ Cardinality(T) <= Cardinality(S)
         /\ (\A s, t \in S : f[s] = f[t] => s = t) => Cardinality(T) = Cardinality(S)
<1>1. f \in Surjection(S, T)
  BY DEF Surjection
<1>2. (\A s, t \in S : f[s] = f[t] => s = t) => f \in Injection(S, T)
  BY <1>1 DEF Injection, IsInjective, Surjection
<1> QED BY <1>1, <1>2, FS_Surjection

\* A block of n records has n * (n - 1) / 2 pairs.
LEMMA PairsInCount ==
  ASSUME NEW block \in SUBSET Nat, IsFiniteSet(block)
  PROVE  /\ IsFiniteSet(PairsIn(block))
         /\ Cardinality(PairsIn(block)) \in Nat /\ Cardinality(block) \in Nat
         /\ 2 * Cardinality(PairsIn(block)) = Cardinality(block) * (Cardinality(block) - 1)
<1> DEFINE Good(B) == /\ IsFiniteSet(PairsIn(B)) /\ Cardinality(PairsIn(B)) \in Nat
                      /\ 2 * Cardinality(PairsIn(B)) = Cardinality(B) * (Cardinality(B) - 1)
           T == {B \in SUBSET block : Good(B)}
<1>1. {} \in T
  <2>1. PairsIn({}) = {}
    BY DEF PairsIn
  <2> QED BY <2>1, FS_EmptySet
<1>2. ASSUME NEW B \in SUBSET block, NEW x \in block \ B, B \in T
      PROVE  B \cup {x} \in T
  <2> DEFINE new == {IF y < x THEN <<y, x>> ELSE <<x, y>> : y \in B}
             pairing == [y \in B |-> IF y < x THEN <<y, x>> ELSE <<x, y>>]
  <2>1. IsFiniteSet(B) /\ Cardinality(B) \in Nat /\ Cardinality(B \cup {x}) = Cardinality(B) + 1
    BY FS_Subset, FS_AddElement, FS_CardinalityType
  <2>2. PairsIn(B \cup {x}) = PairsIn(B) \cup new
    <3>1. ASSUME NEW p \in PairsIn(B \cup {x}), p \notin PairsIn(B)
          PROVE  p \in new
      <4>1. p = <<p[1], p[2]>> /\ p[1] \in B \cup {x} /\ p[2] \in B \cup {x} /\ p[1] < p[2]
        BY DEF PairsIn
      <4>2. ~(p[1] \in B /\ p[2] \in B)
        BY <3>1, <4>1 DEF PairsIn
      <4>3. x \in Nat /\ B \subseteq Nat
        OBVIOUS
      <4>4. CASE p[1] = x
        <5>1. p[2] \in B /\ ~(p[2] < x)
          BY <4>1, <4>3, <4>4
        <5> QED BY <4>1, <4>4, <5>1
      <4>5. CASE p[2] = x
        <5>1. p[1] \in B /\ p[1] < x
          BY <4>1, <4>3, <4>5
        <5> QED BY <4>1, <4>5, <5>1
      <4> QED BY <4>1, <4>2, <4>4, <4>5
    <3>2. ASSUME NEW y \in B
          PROVE  (IF y < x THEN <<y, x>> ELSE <<x, y>>) \in PairsIn(B \cup {x})
      BY DEF PairsIn
    <3>3. PairsIn(B) \subseteq PairsIn(B \cup {x})
      BY DEF PairsIn
    <3>4. new \subseteq PairsIn(B \cup {x})
      BY <3>2
    <3> HIDE DEF new
    <3> QED BY <3>1, <3>3, <3>4
  <2>3. PairsIn(B) \cap new = {}
    BY DEF PairsIn
  <2>4. IsFiniteSet(new) /\ Cardinality(new) = Cardinality(B)
    <3>1. pairing \in [B -> new] /\ \A t \in new : \E s \in B : pairing[s] = t
      OBVIOUS
    <3>2. \A s, t \in B : pairing[s] = pairing[t] => s = t
      OBVIOUS
    <3> HIDE DEF pairing, new
    <3> QED BY <2>1, <3>1, <3>2, ImageBound
  <2>5. Good(B)
    BY <1>2
  <2> HIDE DEF new
  <2>6. /\ IsFiniteSet(PairsIn(B \cup {x}))
        /\ Cardinality(PairsIn(B \cup {x})) = Cardinality(PairsIn(B)) + Cardinality(B)
    <3>1. Cardinality(PairsIn(B) \cap new) = 0
      BY <2>3, FS_EmptySet
    <3>2. IsFiniteSet(PairsIn(B)) /\ Cardinality(PairsIn(B)) \in Nat
      BY <2>5
    <3>3. /\ IsFiniteSet(PairsIn(B) \cup new)
          /\ Cardinality(PairsIn(B) \cup new)
               = Cardinality(PairsIn(B)) + Cardinality(new) - Cardinality(PairsIn(B) \cap new)
      BY <2>4, <3>2, FS_Union
    <3>4. IsFiniteSet(PairsIn(B \cup {x}))
      BY <2>2, <3>3
    <3>5. Cardinality(PairsIn(B \cup {x})) = Cardinality(PairsIn(B)) + Cardinality(B) - 0
      BY <2>2, <2>4, <3>1, <3>3, Zenon
    <3> QED BY <2>1, <3>2, <3>4, <3>5
  <2>7. ASSUME NEW m \in Nat, NEW n \in Nat, 2 * m = n * (n - 1)
        PROVE  2 * (m + n) = (n + 1) * ((n + 1) - 1)
    BY <2>7
  <2>8. Good(B \cup {x})
    BY <2>1, <2>5, <2>6, <2>7
  <2> QED BY <2>8
<1>3. block \in T
  <2> HIDE DEF T
  <2> QED BY <1>1, <1>2, InductionOverSets
<1> QED BY <1>3, FS_CardinalityType

-----------------------------------------------------------------------------
(* Blocks.                                                                 *)

LEMMA TextOf ==
  ASSUME NEW c \in Rules, NEW fields \in Rows
  PROVE  /\ c.fields \in Seq(STRING) /\ Len(c.fields) \in Nat /\ Len(c.fields) > 0
         /\ DOMAIN c.fields = 1 .. Len(c.fields)
         /\ \A i \in DOMAIN c.fields : fields[c.fields[i]] \in Seq(Nat)
         /\ fields[c.fields[1]] \in Seq(Nat)
         /\ c.length \in Nat
         /\ c.candidate \in {"none", "exact", "composite_exact", "prefix", "token"}
<1>1. c \in RuleType /\ Len(c.fields) > 0
  BY RulesAssumption
<1>2. \A i \in DOMAIN c.fields : fields[c.fields[i]] \in Seq(Nat)
  BY RowsAssumption
<1> QED BY <1>1, <1>2 DEF RuleType

\* Two prefixes are one if they have one length and the same words.
LEMMA PrefixesAgree ==
  ASSUME NEW l \in Seq(Nat), NEW r \in Seq(Nat), NEW a \in 0 .. Len(l), NEW b \in 0 .. Len(r)
  PROVE  SubSeq(l, 1, a) = SubSeq(r, 1, b) <=> a = b /\ \A i \in 1 .. a : l[i] = r[i]
<1>1. /\ SubSeq(l, 1, a) = [i \in 1 .. a |-> l[i]]
      /\ SubSeq(r, 1, b) = [i \in 1 .. b |-> r[i]]
  OBVIOUS
<1>2. 1 .. a = 1 .. b <=> a = b
  OBVIOUS
<1>3. ASSUME SubSeq(l, 1, a) = SubSeq(r, 1, b)
      PROVE  a = b /\ \A i \in 1 .. a : l[i] = r[i]
  <2>1. [i \in 1 .. a |-> l[i]] = [i \in 1 .. b |-> r[i]]
    BY <1>1, <1>3
  <2>2. 1 .. a = 1 .. b
    BY <2>1
  <2> QED BY <1>2, <2>1, <2>2
<1>4. ASSUME a = b, \A i \in 1 .. a : l[i] = r[i]
      PROVE  SubSeq(l, 1, a) = SubSeq(r, 1, b)
  BY <1>1, <1>4
<1> QED BY <1>3, <1>4

\* Two rows share a block of a channel exactly if the channel discovers them:
\* what the graph joins on is what the rule says.
LEMMA KeysMeet ==
  ASSUME NEW c \in Channels, NEW left \in Rows, NEW right \in Rows
  PROVE  BlockKeys(c, left) \cap BlockKeys(c, right) # {} <=> Discovers(c, left, right)
<1>0. c \in Rules /\ c.candidate # "none"
  BY DEF Channels
<1>1. /\ \A fields \in Rows : /\ \A i \in DOMAIN c.fields : fields[c.fields[i]] \in Seq(Nat)
                             /\ fields[c.fields[1]] \in Seq(Nat)
      /\ c.length \in Nat
      /\ c.candidate \in {"exact", "composite_exact", "prefix", "token"}
      /\ DOMAIN c.fields # {}
  BY <1>0, TextOf
<1>2. CASE c.candidate = "composite_exact"
  <2>1. BlockKeys(c, left) = CompositeKey(c, left) /\ BlockKeys(c, right) = CompositeKey(c, right)
    BY <1>2 DEF BlockKeys
  <2>2. Discovers(c, left, right) <=>
          \A i \in DOMAIN c.fields :
            Unusable # left[c.fields[i]] /\ left[c.fields[i]] = right[c.fields[i]]
    BY <1>2 DEF Discovers
  <2>3. [i \in DOMAIN c.fields |-> left[c.fields[i]]] = [i \in DOMAIN c.fields |-> right[c.fields[i]]]
          <=> \A i \in DOMAIN c.fields : left[c.fields[i]] = right[c.fields[i]]
    OBVIOUS
  <2> QED BY <2>1, <2>2, <2>3 DEF CompositeKey
<1> DEFINE l == left[c.fields[1]]
           r == right[c.fields[1]]
<1>3. l \in Seq(Nat) /\ r \in Seq(Nat)
  BY <1>1
<1>4. c.candidate # "composite_exact" /\ (l = Unusable \/ r = Unusable) =>
        (BlockKeys(c, left) \cap BlockKeys(c, right) = {} /\ ~Discovers(c, left, right))
  <2>1. c.candidate # "composite_exact" /\ l = Unusable => BlockKeys(c, left) = {}
    BY DEF BlockKeys
  <2>2. c.candidate # "composite_exact" /\ r = Unusable => BlockKeys(c, right) = {}
    BY DEF BlockKeys
  <2>3. c.candidate # "composite_exact" /\ (l = Unusable \/ r = Unusable) => ~Discovers(c, left, right)
    BY DEF Discovers
  <2> QED BY <2>1, <2>2, <2>3
<1>5. CASE c.candidate = "exact" /\ l # Unusable /\ r # Unusable
  <2>1. BlockKeys(c, left) = {<<l>>} /\ BlockKeys(c, right) = {<<r>>}
    BY <1>5 DEF BlockKeys
  <2>2. Discovers(c, left, right) <=> l = r
    BY <1>5 DEF Discovers
  <2>3. <<l>> = <<r>> <=> l = r
    OBVIOUS
  <2> HIDE DEF l, r
  <2> QED BY <2>1, <2>2, <2>3
<1>6. CASE c.candidate = "prefix" /\ l # Unusable /\ r # Unusable
  <2> DEFINE a == Min({c.length, Len(l)})
             b == Min({c.length, Len(r)})
             n == Min({c.length, Max({Len(l), Len(r)})})
  <2>1. /\ BlockKeys(c, left) = {<<SubSeq(l, 1, a)>>}
        /\ BlockKeys(c, right) = {<<SubSeq(r, 1, b)>>}
    BY <1>6 DEF BlockKeys
  <2>2. Discovers(c, left, right) <=>
          /\ Len(l) >= n /\ Len(r) >= n
          /\ \A i \in 1 .. n : l[i] = r[i]
    BY <1>6 DEF Discovers
  <2> HIDE DEF l, r
  <2>3. Len(l) \in Nat /\ Len(r) \in Nat /\ c.length \in Nat
    BY <1>1, <1>3
  <2>4. /\ a = IF c.length <= Len(l) THEN c.length ELSE Len(l)
        /\ b = IF c.length <= Len(r) THEN c.length ELSE Len(r)
    BY <2>3, MinOfTwo
  <2>5. Max({Len(l), Len(r)}) = IF Len(l) >= Len(r) THEN Len(l) ELSE Len(r)
    BY <2>3, MaxOfTwo
  <2>11. ASSUME NEW m \in Nat
         PROVE  Min({c.length, m}) = IF c.length <= m THEN c.length ELSE m
    BY <2>3, MinOfTwo
  <2> DEFINE longer == Max({Len(l), Len(r)})
  <2>14. longer \in Nat
    BY <2>3, <2>5
  <2>15. n = Min({c.length, longer})
    OBVIOUS
  <2> HIDE DEF longer, n
  <2>6. n = IF c.length <= longer THEN c.length ELSE longer
    BY <2>11, <2>14, <2>15
  <2> HIDE DEF a, b
  <2>7. a \in 0 .. Len(l) /\ b \in 0 .. Len(r)
    BY <2>3, <2>4
  <2>8. SubSeq(l, 1, a) = SubSeq(r, 1, b) <=> a = b /\ \A i \in 1 .. a : l[i] = r[i]
    BY <1>3, <2>7, PrefixesAgree
  <2>9. a = b <=> Len(l) >= n /\ Len(r) >= n
    BY <2>3, <2>4, <2>5, <2>6 DEF longer
  <2>10. a = b => n = a
    BY <2>3, <2>4, <2>5, <2>6 DEF longer
  <2>12. <<SubSeq(l, 1, a)>> = <<SubSeq(r, 1, b)>> <=> SubSeq(l, 1, a) = SubSeq(r, 1, b)
    OBVIOUS
  <2>13. BlockKeys(c, left) \cap BlockKeys(c, right) # {} <=>
           <<SubSeq(l, 1, a)>> = <<SubSeq(r, 1, b)>>
    BY <2>1, Zenon
  <2> QED BY <2>2, <2>8, <2>9, <2>10, <2>12, <2>13
<1>7. CASE c.candidate = "token" /\ l # Unusable /\ r # Unusable
  <2>1. /\ BlockKeys(c, left) = {<<<<w>>>> : w \in {v \in Range(l) : v >= c.length}}
        /\ BlockKeys(c, right) = {<<<<w>>>> : w \in {v \in Range(r) : v >= c.length}}
    BY <1>7 DEF BlockKeys
  <2>2. Discovers(c, left, right) <=>
          \E i \in DOMAIN l, j \in DOMAIN r : l[i] = r[j] /\ l[i] >= c.length
    BY <1>7 DEF Discovers
  <2> HIDE DEF l, r
  <2>3. BlockKeys(c, left) \cap BlockKeys(c, right) # {} <=>
          \E w : w \in Range(l) /\ w \in Range(r) /\ w >= c.length
    <3>1. \A v, w : <<<<v>>>> = <<<<w>>>> => v = w
      OBVIOUS
    <3>2. \A key : key \in BlockKeys(c, left) <=>
            \E w \in Range(l) : w >= c.length /\ key = <<<<w>>>>
      BY <2>1
    <3>3. \A key : key \in BlockKeys(c, right) <=>
            \E w \in Range(r) : w >= c.length /\ key = <<<<w>>>>
      BY <2>1
    <3>4. ASSUME BlockKeys(c, left) \cap BlockKeys(c, right) # {}
          PROVE  \E w : w \in Range(l) /\ w \in Range(r) /\ w >= c.length
      <4>1. PICK key : key \in BlockKeys(c, left) /\ key \in BlockKeys(c, right)
        BY <3>4
      <4>2. PICK v \in Range(l) : v >= c.length /\ key = <<<<v>>>>
        BY <3>2, <4>1
      <4>3. PICK w \in Range(r) : w >= c.length /\ key = <<<<w>>>>
        BY <3>3, <4>1
      <4>4. v = w
        BY <3>1, <4>2, <4>3
      <4> QED BY <4>2, <4>3, <4>4
    <3>5. ASSUME NEW w, w \in Range(l), w \in Range(r), w >= c.length
          PROVE  BlockKeys(c, left) \cap BlockKeys(c, right) # {}
      <4>1. <<<<w>>>> \in BlockKeys(c, left) /\ <<<<w>>>> \in BlockKeys(c, right)
        BY <3>2, <3>3, <3>5
      <4> QED BY <4>1
    <3> QED BY <3>4, <3>5
  <2>4. \A w : /\ w \in Range(l) <=> \E i \in DOMAIN l : l[i] = w
              /\ w \in Range(r) <=> \E i \in DOMAIN r : r[i] = w
    BY DEF Range
  <2>5. (\E w : w \in Range(l) /\ w \in Range(r) /\ w >= c.length)
          <=> \E i \in DOMAIN l, j \in DOMAIN r : l[i] = r[j] /\ l[i] >= c.length
    <3>1. ASSUME NEW w, w \in Range(l), w \in Range(r), w >= c.length
          PROVE  \E i \in DOMAIN l, j \in DOMAIN r : l[i] = r[j] /\ l[i] >= c.length
      <4>1. PICK i \in DOMAIN l : l[i] = w
        BY <3>1 DEF Range
      <4>2. PICK j \in DOMAIN r : r[j] = w
        BY <3>1 DEF Range
      <4> QED BY <3>1, <4>1, <4>2
    <3>2. ASSUME NEW i \in DOMAIN l, NEW j \in DOMAIN r, l[i] = r[j], l[i] >= c.length
          PROVE  \E w : w \in Range(l) /\ w \in Range(r) /\ w >= c.length
      BY <2>4, <3>2
    <3> QED BY <3>1, <3>2
  <2> QED BY <2>2, <2>3, <2>5
<1> QED BY <1>1, <1>2, <1>4, <1>5, <1>6, <1>7

\* A composite key needs every field and is equal if all fields are.
LEMMA CompositeIs ==
  ASSUME NEW c \in Rules, NEW left, NEW right
  PROVE  Discovers([c EXCEPT !.candidate = "composite_exact"], left, right) <=>
           \A i \in DOMAIN c.fields :
             Unusable # left[c.fields[i]] /\ left[c.fields[i]] = right[c.fields[i]]
<1> DEFINE d == [c EXCEPT !.candidate = "composite_exact"]
<1>1. d.candidate = "composite_exact" /\ d.fields = c.fields
  BY RulesAssumption DEF RuleType
<1> HIDE DEF d
<1>2. Discovers(d, left, right) <=>
        \A i \in DOMAIN c.fields :
          Unusable # left[c.fields[i]] /\ left[c.fields[i]] = right[c.fields[i]]
  BY <1>1 DEF Discovers
<1> QED BY <1>2 DEF d

-----------------------------------------------------------------------------
(* The candidate set.                                                      *)

RowsTyped == Present \subseteq SourceRecords /\ \A r \in Present : rows[r] \in Rows

LEMMA Sizes ==
  ASSUME RowsTyped
  PROVE  /\ IsFiniteSet(Present) /\ Present \subseteq Nat
         /\ \A c, key : Block(c, key) \in SUBSET Nat /\ IsFiniteSet(Block(c, key))
         /\ CandidateSet \subseteq Present \X Present
         /\ IsFiniteSet(CandidateSet) /\ PairCount \in Nat
<1>1. IsFiniteSet(Present) /\ Present \subseteq Nat
  BY SourceRecordsAssumption, FS_Subset DEF RowsTyped
<1>2. ASSUME NEW c, NEW key
      PROVE  Block(c, key) \in SUBSET Nat /\ IsFiniteSet(Block(c, key))
  <2>1. Block(c, key) \subseteq Present
    BY DEF Block
  <2> QED BY <1>1, <2>1, FS_Subset
<1>3. CandidateSet \subseteq Present \X Present
  <2>1. \A c, key : PairsIn(Block(c, key)) \subseteq Present \X Present
    BY DEF PairsIn, Block
  <2> QED BY <2>1 DEF CandidateSet, RawPairs
<1>4. IsFiniteSet(CandidateSet)
  BY <1>1, <1>3, FS_Product, FS_Subset
<1> QED BY <1>1, <1>2, <1>3, <1>4, FS_CardinalityType DEF PairCount

\* A pair is a candidate if a block within its limit holds it.
LEMMA CandidatesAre ==
  \A p : p \in CandidateSet <=>
           \E c \in Channels : \E key \in BlocksOf(c) \ Overflowing(c) : p \in PairsIn(Block(c, key))
<1> DEFINE in(c, key) == {[channel |-> c.name, key |-> key, pair |-> q] : q \in PairsIn(Block(c, key))}
           of(c) == UNION {in(c, key) : key \in BlocksOf(c) \ Overflowing(c)}
<1>1. RawPairs = UNION {of(c) : c \in Channels}
  BY DEF RawPairs
<1>2. \A c, key, raw : raw \in in(c, key) =>
        raw.pair \in PairsIn(Block(c, key))
  OBVIOUS
<1>3. \A c, key : \A q \in PairsIn(Block(c, key)) : \E raw \in in(c, key) : raw.pair = q
  <2>1. ASSUME NEW c, NEW key, NEW q \in PairsIn(Block(c, key))
        PROVE  \E raw \in in(c, key) : raw.pair = q
    <3>1. [channel |-> c.name, key |-> key, pair |-> q] \in in(c, key)
      OBVIOUS
    <3>2. [channel |-> c.name, key |-> key, pair |-> q].pair = q
      OBVIOUS
    <3> QED BY <3>1, <3>2
  <2> QED BY <2>1
<1> HIDE DEF in
<1>4. \A raw : raw \in RawPairs <=>
        \E c \in Channels : \E key \in BlocksOf(c) \ Overflowing(c) : raw \in in(c, key)
  BY <1>1
<1>5. \A p : p \in CandidateSet <=> \E raw \in RawPairs : raw.pair = p
  BY DEF CandidateSet
<1> QED
  <2>1. ASSUME NEW p, p \in CandidateSet
        PROVE  \E c \in Channels : \E key \in BlocksOf(c) \ Overflowing(c) : p \in PairsIn(Block(c, key))
    <3>1. PICK raw \in RawPairs : raw.pair = p
      BY <1>5, <2>1
    <3> QED BY <1>2, <1>4, <3>1
  <2>2. ASSUME NEW c \in Channels, NEW key \in BlocksOf(c) \ Overflowing(c),
               NEW p \in PairsIn(Block(c, key))
        PROVE  p \in CandidateSet
    <3>1. PICK raw \in in(c, key) : raw.pair = p
      BY <1>3
    <3>2. raw \in RawPairs
      BY <1>4
    <3> QED BY <1>5, <3>1, <3>2
  <2> QED BY <2>1, <2>2

\* Without a block over its limit, the candidates are the pairs some channel
\* discovers.
LEMMA CandidatesAreDiscovered ==
  ASSUME RowsTyped, ~BlockLimitExceeded, NEW p \in SourceRecords \X SourceRecords
  PROVE  p \in CandidateSet <=>
           /\ p[1] < p[2] /\ {p[1], p[2]} \subseteq Present
           /\ \E c \in Channels : Discovers(c, rows[p[1]], rows[p[2]])
<1>1. \A c \in Channels : Overflowing(c) = {}
  BY DEF BlockLimitExceeded
<1>2. ASSUME NEW c \in Channels, {p[1], p[2]} \subseteq Present
      PROVE  (\E key \in BlocksOf(c) : p[1] \in Block(c, key) /\ p[2] \in Block(c, key))
               <=> Discovers(c, rows[p[1]], rows[p[2]])
  <2>1. rows[p[1]] \in Rows /\ rows[p[2]] \in Rows
    BY <1>2 DEF RowsTyped
  <2>2. BlockKeys(c, rows[p[1]]) \cap BlockKeys(c, rows[p[2]]) # {}
          <=> Discovers(c, rows[p[1]], rows[p[2]])
    BY <2>1, KeysMeet
  <2>3. \A key : /\ p[1] \in Block(c, key) <=> key \in BlockKeys(c, rows[p[1]])
                 /\ p[2] \in Block(c, key) <=> key \in BlockKeys(c, rows[p[2]])
    BY <1>2 DEF Block
  <2>4. \A key : key \in BlockKeys(c, rows[p[1]]) => key \in BlocksOf(c)
    BY <1>2 DEF BlocksOf
  <2> QED BY <2>2, <2>3, <2>4
<1>3. \A c, key : p \in PairsIn(Block(c, key)) <=>
                    p[1] \in Block(c, key) /\ p[2] \in Block(c, key) /\ p[1] < p[2]
  <2>1. p = <<p[1], p[2]>>
    OBVIOUS
  <2> QED BY <2>1 DEF PairsIn
<1>4. \A c, key : Block(c, key) \subseteq Present
  BY DEF Block
<1> QED BY <1>1, <1>2, <1>3, <1>4, CandidatesAre

\* The limits a refresh enforces are those of the reference: a channel over
\* max_candidate_pairs by the sizes of its blocks is over it by its pairs.
LEMMA LimitsAgree ==
  ASSUME RowsTyped
  PROVE  Generated <=> ~BlockLimitExceeded /\ PairCount <= MaxPairs
<1> DEFINE found == UNION {UNION {PairsIn(Block(c, key)) : key \in BlocksOf(c)} : c \in Channels}
           size(c, key) == Cardinality(Block(c, key))
<1>1. Generated <=>
        \A c \in Channels :
          /\ \A key \in BlocksOf(c) :
               size(c, key) <= MaxBlock /\ (size(c, key) * (size(c, key) - 1)) \div 2 <= MaxPairs
          /\ Cardinality(found) <= MaxPairs
  BY DEF Generated
<1>2. \A p : p \in found <=> \E c \in Channels : \E key \in BlocksOf(c) : p \in PairsIn(Block(c, key))
  OBVIOUS
<1>3. /\ IsFiniteSet(CandidateSet) /\ PairCount = Cardinality(CandidateSet) /\ PairCount \in Nat
      /\ \A c, key : size(c, key) \in Nat
  BY Sizes, FS_CardinalityType DEF PairCount
<1>4. ~BlockLimitExceeded <=> \A c \in Channels : \A key \in BlocksOf(c) : size(c, key) <= MaxBlock
  BY <1>3, LimitsAssumption DEF BlockLimitExceeded, Overflowing
<1>5. ~BlockLimitExceeded => found = CandidateSet
  <2> HIDE DEF found
  <2>1. ~BlockLimitExceeded => \A c \in Channels : Overflowing(c) = {}
    BY DEF BlockLimitExceeded
  <2>2. ~BlockLimitExceeded => \A p : p \in found <=> p \in CandidateSet
    BY <1>2, <2>1, CandidatesAre
  <2> QED BY <2>2
<1> HIDE DEF found
<1>6. ASSUME Generated
      PROVE  ~BlockLimitExceeded /\ PairCount <= MaxPairs
  <2>1. ~BlockLimitExceeded
    BY <1>1, <1>4, <1>6
  <2>2. CASE Channels # {}
    BY <1>1, <1>3, <1>5, <1>6, <2>1, <2>2
  <2>3. CASE Channels = {}
    <3>1. CandidateSet = {}
      BY <2>3, CandidatesAre
    <3> QED BY <1>3, <2>1, <3>1, FS_EmptySet, LimitsAssumption
  <2> QED BY <2>2, <2>3
<1>7. ASSUME ~BlockLimitExceeded, PairCount <= MaxPairs
      PROVE  Generated
  <2>1. ASSUME NEW c \in Channels, NEW key \in BlocksOf(c)
        PROVE  (size(c, key) * (size(c, key) - 1)) \div 2 <= MaxPairs
    <3> DEFINE pairs == PairsIn(Block(c, key))
               n == size(c, key)
    <3>1. /\ Cardinality(pairs) \in Nat /\ n \in Nat
          /\ 2 * Cardinality(pairs) = n * (n - 1)
      BY Sizes, PairsInCount
    <3>2. pairs \subseteq CandidateSet
      BY <1>5, <1>7, <1>2, <2>1
    <3>3. Cardinality(pairs) <= Cardinality(CandidateSet)
      BY <1>3, <3>2, FS_Subset
    <3> HIDE DEF pairs, n
    <3>4. (n * (n - 1)) \div 2 = Cardinality(pairs)
      <4>1. ASSUME NEW m \in Nat, NEW k, k = 2 * m
            PROVE  k \div 2 = m
        BY <4>1
      <4> QED BY <3>1, <4>1
    <3>5. (n * (n - 1)) \div 2 <= MaxPairs
      BY <1>3, <1>7, <3>1, <3>3, <3>4, LimitsAssumption
    <3> QED BY <3>5 DEF n
  <2>2. Cardinality(found) <= MaxPairs
    BY <1>3, <1>5, <1>7
  <2> HIDE DEF size
  <2> QED BY <1>1, <1>4, <1>7, <2>1, <2>2
<1> QED BY <1>6, <1>7

\* max_pair_evidence_rows is never reached: the pairs are within their limit.
LEMMA EvidenceWithinLimit ==
  ASSUME RowsTyped, PairCount <= MaxPairs, NEW read \in SUBSET Evidence
  PROVE  ~(Cardinality(read) > MaxPairs * Max({1, Cardinality(Rules)}))
<1> DEFINE line(q) == [pair |-> q[1], rule |-> q[2].name, class |-> Class(q[2], q[1])]
           f == [q \in Pairs \X Rules |-> line(q)]
<1>1. /\ IsFiniteSet(Pairs) /\ Cardinality(Pairs) = PairCount /\ PairCount \in Nat
      /\ IsFiniteSet(Rules) /\ Cardinality(Rules) \in Nat /\ MaxPairs \in Nat
  BY Sizes, RulesAssumption, LimitsAssumption, FS_CardinalityType DEF Pairs, PairCount
<1>2. /\ IsFiniteSet(Pairs \X Rules)
      /\ Cardinality(Pairs \X Rules) = PairCount * Cardinality(Rules)
  BY <1>1, FS_Product
<1>3. \A e : e \in Evidence <=> \E p \in Pairs, rule \in Rules : e = line(<<p, rule>>)
  BY DEF Evidence
<1> HIDE DEF line
<1>4. f \in [Pairs \X Rules -> Evidence]
  <2>1. ASSUME NEW q \in Pairs \X Rules
        PROVE  line(q) \in Evidence
    <3>1. q = <<q[1], q[2]>> /\ q[1] \in Pairs /\ q[2] \in Rules
      OBVIOUS
    <3> QED BY <1>3, <3>1
  <2> QED BY <2>1
<1>5. \A e \in Evidence : \E q \in Pairs \X Rules : f[q] = e
  <2>1. ASSUME NEW e \in Evidence
        PROVE  \E q \in Pairs \X Rules : f[q] = e
    <3>1. PICK p \in Pairs, rule \in Rules : e = line(<<p, rule>>)
      BY <1>3
    <3>2. <<p, rule>> \in Pairs \X Rules /\ f[<<p, rule>>] = e
      BY <3>1
    <3> QED BY <3>2
  <2> QED BY <2>1
<1> HIDE DEF f
<1>6. IsFiniteSet(Evidence) /\ Cardinality(Evidence) <= PairCount * Cardinality(Rules)
  BY <1>2, <1>4, <1>5, ImageBound
<1>7. Cardinality(read) <= Cardinality(Evidence) /\ Cardinality(read) \in Nat /\ Cardinality(Evidence) \in Nat
  BY <1>6, FS_Subset, FS_CardinalityType
<1>8. Max({1, Cardinality(Rules)}) = IF 1 >= Cardinality(Rules) THEN 1 ELSE Cardinality(Rules)
  BY <1>1, MaxOfTwo
<1>9. ASSUME NEW a \in Nat, NEW b \in Nat, NEW m \in Nat, NEW n \in Nat, a <= m, b <= n
      PROVE  a * b <= m * n
  <2>1. a * b <= m * b
    BY <1>9
  <2>2. m * b <= m * n
    BY <1>9
  <2>3. a * b \in Nat /\ m * b \in Nat /\ m * n \in Nat
    OBVIOUS
  <2> QED BY <2>1, <2>2, <2>3
<1> DEFINE most == Max({1, Cardinality(Rules)})
           bound == MaxPairs * most
           total == PairCount * Cardinality(Rules)
<1>10. most \in Nat /\ Cardinality(Rules) <= most
  BY <1>1, <1>8
<1> HIDE DEF most
<1>11. total <= bound /\ total \in Int /\ bound \in Int
  BY <1>1, <1>9, <1>10
<1> HIDE DEF total, bound
<1>12. Cardinality(Evidence) <= total
  BY <1>6 DEF total
<1>13. ~(Cardinality(read) > bound)
  BY <1>7, <1>11, <1>12
<1> QED BY <1>13 DEF bound, most

-----------------------------------------------------------------------------
(* The refresh.                                                            *)

OutcomeIsReading ==
  outcome = NotRun \/ \E scope \in SUBSET SourceRecords : outcome = Reading(scope)

EvaluationInvariant == RowsTyped /\ OutcomeIsReading

ReadOf(scope) == {e \in Evidence : e.pair[1] \in scope \/ e.pair[2] \in scope}

Read(scope) == [verdict |-> "evaluated", scope |-> scope, evidence |-> ReadOf(scope)]

\* The verdicts of a reading; the third limit is not among them.
LEMMA ReadingIs ==
  ASSUME RowsTyped, NEW scope \in SUBSET SourceRecords
  PROVE  \/ BlockLimitExceeded /\ Reading(scope).verdict = "max_block_records"
         \/ PairCount > MaxPairs /\ Reading(scope).verdict = "max_candidate_pairs"
         \/ /\ ~BlockLimitExceeded /\ PairCount <= MaxPairs
            /\ Reading(scope) = Read(scope)
<1>1. PairCount \in Nat /\ MaxPairs \in Nat
  BY Sizes, LimitsAssumption
<1>2. \A resource : Refused(resource).verdict = resource
  BY DEF Refused, NotRun
<1>3. CASE BlockLimitExceeded
  <2>1. Reading(scope) = Refused("max_block_records")
    BY <1>3 DEF Reading
  <2> QED BY <1>2, <1>3, <2>1
<1>4. CASE ~BlockLimitExceeded /\ PairCount > MaxPairs
  <2>1. Reading(scope) = Refused("max_candidate_pairs")
    BY <1>4 DEF Reading
  <2> QED BY <1>2, <1>4, <2>1
<1>5. CASE ~BlockLimitExceeded /\ ~(PairCount > MaxPairs)
  <2>1. PairCount <= MaxPairs
    BY <1>1, <1>5
  <2>2. ReadOf(scope) \in SUBSET Evidence
    BY DEF ReadOf
  <2>3. ~(Cardinality(ReadOf(scope)) > MaxPairs * Max({1, Cardinality(Rules)}))
    BY <2>1, <2>2, EvidenceWithinLimit
  <2>4. Reading(scope) = Read(scope)
    BY <1>5, <2>3 DEF Reading, Read, ReadOf
  <2> QED BY <1>5, <2>1, <2>4
<1> QED BY <1>3, <1>4, <1>5

\* What is read of the pairs is the rows of the evidence with an endpoint in
\* the scope, one for every rule.
LEMMA ReadRows ==
  ASSUME PairCount <= MaxPairs, RowsTyped, NEW scope
  PROVE  \A e : e \in ReadOf(scope) <=>
           \E p \in CandidateSet, rule \in Rules :
             /\ p[1] \in scope \/ p[2] \in scope
             /\ e = [pair |-> p, rule |-> rule.name, class |-> Class(rule, p)]
<1>1. Pairs = CandidateSet
  BY Sizes, LimitsAssumption DEF Pairs
<1>2. \A e : e \in Evidence <=>
        \E p \in CandidateSet, rule \in Rules :
          e = [pair |-> p, rule |-> rule.name, class |-> Class(rule, p)]
  BY <1>1 DEF Evidence
<1> QED BY <1>2 DEF ReadOf

\* The evidence of an exact rule agrees if all its fields do.
LEMMA ClassAgrees ==
  ASSUME NEW c \in Rules, c.comparison = "exact", NEW p
  PROVE  Class(c, p) = "agree" <=>
           Discovers([c EXCEPT !.candidate = "composite_exact"], rows[p[1]], rows[p[2]])
<1>1. Discovers([c EXCEPT !.candidate = "composite_exact"], rows[p[1]], rows[p[2]]) <=>
        \A i \in DOMAIN c.fields :
          /\ Unusable # rows[p[1]][c.fields[i]]
          /\ rows[p[1]][c.fields[i]] = rows[p[2]][c.fields[i]]
  BY CompositeIs
<1>2. Class(c, p) = "agree" <=>
        /\ ~ \E i \in DOMAIN c.fields :
               Unusable \in {rows[p[1]][c.fields[i]], rows[p[2]][c.fields[i]]}
        /\ \A i \in DOMAIN c.fields : rows[p[1]][c.fields[i]] = rows[p[2]][c.fields[i]]
  BY DEF Class
<1> QED BY <1>1, <1>2

\* A reading is complete, or the reference algorithm is over a limit.
LEMMA ReadingIsComplete ==
  ASSUME EvaluationInvariant
  PROVE  EvaluatesCompletely
<1>1. RowsTyped
  BY DEF EvaluationInvariant
<1>2. Generated <=> ~BlockLimitExceeded /\ PairCount <= MaxPairs
  BY <1>1, LimitsAgree
<1>3. PairCount \in Nat /\ MaxPairs \in Nat /\ CandidateSet \subseteq Present \X Present
  BY <1>1, Sizes, LimitsAssumption
<1>4. CASE outcome = NotRun
  <2>1. outcome.verdict = "none"
    BY <1>4 DEF NotRun
  <2> QED BY <2>1 DEF EvaluatesCompletely
<1>5. ASSUME NEW scope \in SUBSET SourceRecords, outcome = Reading(scope)
      PROVE  EvaluatesCompletely
  <2>1. CASE BlockLimitExceeded /\ outcome.verdict = "max_block_records"
    BY <1>2, <2>1 DEF EvaluatesCompletely
  <2>2. CASE PairCount > MaxPairs /\ outcome.verdict = "max_candidate_pairs"
    BY <1>2, <1>3, <2>2 DEF EvaluatesCompletely
  <2>3. CASE ~BlockLimitExceeded /\ PairCount <= MaxPairs /\ outcome = Read(scope)
    <3>1. /\ outcome.verdict = "evaluated" /\ outcome.scope = scope
          /\ outcome.evidence = ReadOf(scope)
      BY <2>3 DEF Read
    <3>2. \A e : e \in ReadOf(scope) <=>
            \E p \in CandidateSet, rule \in Rules :
              /\ p[1] \in scope \/ p[2] \in scope
              /\ e = [pair |-> p, rule |-> rule.name, class |-> Class(rule, p)]
      BY <1>1, <2>3, ReadRows
    <3>3. ASSUME NEW p \in SourceRecords \X SourceRecords
          PROVE  LET found == /\ p[1] < p[2] /\ {p[1], p[2]} \subseteq Present
                              /\ p[1] \in scope \/ p[2] \in scope
                              /\ \E c \in Channels : Discovers(c, rows[p[1]], rows[p[2]])
                 IN  {e.rule : e \in {f \in ReadOf(scope) : f.pair = p}}
                       = IF found THEN {rule.name : rule \in Rules} ELSE {}
      <4> DEFINE found == /\ p[1] < p[2] /\ {p[1], p[2]} \subseteq Present
                          /\ p[1] \in scope \/ p[2] \in scope
                          /\ \E c \in Channels : Discovers(c, rows[p[1]], rows[p[2]])
                 names == {e.rule : e \in {f \in ReadOf(scope) : f.pair = p}}
      <4>1. found <=> p \in CandidateSet /\ (p[1] \in scope \/ p[2] \in scope)
        BY <1>1, <2>3, CandidatesAreDiscovered
      <4> HIDE DEF found
      <4>2. \A name : name \in names <=> \E e \in ReadOf(scope) : e.pair = p /\ e.rule = name
        OBVIOUS
      <4> HIDE DEF names
      <4>3. ASSUME NEW name \in names
            PROVE  found /\ name \in {rule.name : rule \in Rules}
        <5>1. PICK e \in ReadOf(scope) : e.pair = p /\ e.rule = name
          BY <4>2
        <5>2. PICK q \in CandidateSet, rule \in Rules :
                /\ q[1] \in scope \/ q[2] \in scope
                /\ e = [pair |-> q, rule |-> rule.name, class |-> Class(rule, q)]
          BY <3>2
        <5>3. q = p /\ rule.name = name
          BY <5>1, <5>2
        <5> QED BY <4>1, <5>2, <5>3
      <4>4. ASSUME found, NEW rule \in Rules
            PROVE  rule.name \in names
        <5> DEFINE e == [pair |-> p, rule |-> rule.name, class |-> Class(rule, p)]
        <5>1. e.pair = p /\ e.rule = rule.name
          OBVIOUS
        <5>2. e \in ReadOf(scope)
          BY <3>2, <4>1, <4>4
        <5> HIDE DEF e
        <5> QED BY <4>2, <5>1, <5>2
      <4>5. names = IF found THEN {rule.name : rule \in Rules} ELSE {}
        BY <4>3, <4>4
      <4> QED BY <4>5 DEF names, found
    <3>4. ASSUME NEW c \in Channels, NEW e \in ReadOf(scope), c.comparison = "exact", e.rule = c.name
          PROVE  e.class = "agree" <=>
                   Discovers([c EXCEPT !.candidate = "composite_exact"],
                             rows[e.pair[1]], rows[e.pair[2]])
      <4>1. PICK p \in CandidateSet, rule \in Rules :
              e = [pair |-> p, rule |-> rule.name, class |-> Class(rule, p)]
        BY <3>2
      <4>2. e.pair = p /\ e.rule = rule.name /\ e.class = Class(rule, p)
        BY <4>1
      <4>3. c \in Rules
        BY DEF Channels
      <4>4. rule = c
        BY <3>4, <4>2, <4>3, RulesAssumption
      <4> QED BY <3>4, <4>2, <4>3, <4>4, ClassAgrees
    <3>5. Generated
      BY <1>2, <2>3
    <3> QED BY <3>1, <3>3, <3>4, <3>5 DEF EvaluatesCompletely
  <2> QED BY <1>1, <1>5, <2>1, <2>2, <2>3, ReadingIs
<1> QED BY <1>4, <1>5 DEF EvaluationInvariant, OutcomeIsReading

\* What a reading is depends on the rows only.
LEMMA ReadingOfRows ==
  ASSUME rows' = rows, NEW scope
  PROVE  Reading(scope)' = Reading(scope)
<1>1. \A c, key : Block(c, key)' = Block(c, key)
  BY DEF Block, Present
<1>2. \A c : BlocksOf(c)' = BlocksOf(c)
  BY DEF BlocksOf, Present
<1>3. \A c : Overflowing(c)' = Overflowing(c)
  BY <1>1, <1>2 DEF Overflowing
<1>4. CandidateSet' = CandidateSet
  BY <1>1, <1>2, <1>3 DEF CandidateSet, RawPairs
<1>5. PairCount' = PairCount /\ Pairs' = Pairs
  BY <1>4 DEF PairCount, Pairs
<1>6. \A rule, p : Class(rule, p)' = Class(rule, p)
  BY DEF Class
<1>7. Evidence' = Evidence
  BY <1>5, <1>6 DEF Evidence
<1>8. BlockLimitExceeded' <=> BlockLimitExceeded
  BY <1>3 DEF BlockLimitExceeded
<1> QED BY <1>5, <1>7, <1>8 DEF Reading

LEMMA InitEvaluation == Init => EvaluationInvariant
<1> SUFFICES ASSUME Init PROVE EvaluationInvariant
  OBVIOUS
<1>1. Present = {}
  BY DEF Init, Present
<1> QED BY <1>1 DEF Init, EvaluationInvariant, RowsTyped, OutcomeIsReading

LEMMA StepEvaluation == EvaluationInvariant /\ [Next]_vars => EvaluationInvariant'
<1> SUFFICES ASSUME EvaluationInvariant, [Next]_vars PROVE EvaluationInvariant'
  OBVIOUS
<1>0. RowsTyped /\ OutcomeIsReading
  BY DEF EvaluationInvariant
<1>1. ASSUME NEW scope \in SUBSET SourceRecords, outcome' = Reading(scope), rows' = rows
      PROVE  EvaluationInvariant'
  <2>1. outcome' = Reading(scope)'
    BY <1>1, ReadingOfRows
  <2>2. RowsTyped'
    BY <1>0, <1>1 DEF RowsTyped, Present
  <2> QED BY <2>1, <2>2 DEF EvaluationInvariant, OutcomeIsReading
<1>2. CASE RefreshFull
  BY <1>1, <1>2 DEF RefreshFull
<1>3. ASSUME NEW r \in SourceRecords, NEW fields \in Rows, Write(r, fields)
      PROVE  EvaluationInvariant'
  <2>1. /\ Present' = Present \cup {r}
        /\ \A s \in Present' : rows'[s] = IF s = r THEN fields ELSE rows[s]
    BY <1>3 DEF Write, Present
  <2>2. RowsTyped'
    BY <1>0, <2>1 DEF RowsTyped
  <2>3. outcome' = NotRun'
    BY <1>3 DEF Write, NotRun
  <2> QED BY <2>2, <2>3 DEF EvaluationInvariant, OutcomeIsReading
<1>4. ASSUME NEW r \in SourceRecords, Delete(r)
      PROVE  EvaluationInvariant'
  <2>1. /\ Present' = Present \ {r}
        /\ \A s \in Present' : rows'[s] = rows[s]
    BY <1>4 DEF Delete, Present, Restrict
  <2>2. RowsTyped'
    BY <1>0, <2>1 DEF RowsTyped
  <2>3. outcome' = NotRun'
    BY <1>4 DEF Delete, NotRun
  <2> QED BY <2>2, <2>3 DEF EvaluationInvariant, OutcomeIsReading
<1>5. ASSUME NEW r \in SourceRecords, RefreshAffected({r})
      PROVE  EvaluationInvariant'
  BY <1>1, <1>5 DEF RefreshAffected
<1>6. CASE UNCHANGED vars
  <2>1. rows' = rows /\ outcome' = outcome
    BY <1>6 DEF vars
  <2>2. CASE outcome = NotRun
    <3>1. RowsTyped'
      BY <1>0, <2>1 DEF RowsTyped, Present
    <3>2. outcome' = NotRun'
      BY <2>1, <2>2 DEF NotRun
    <3> QED BY <3>1, <3>2 DEF EvaluationInvariant, OutcomeIsReading
  <2> QED BY <1>0, <1>1, <2>1, <2>2 DEF OutcomeIsReading
<1> QED BY <1>2, <1>3, <1>4, <1>5, <1>6 DEF Next

\* Complete or refused, for all rows, rules and limits: a refresh that
\* evaluates has the evidence of every rule on every pair that some channel
\* discovers from the values, and of no other; one that is refused is over a
\* limit of the reference algorithm (validate_graph_block_limits,
\* load_pair_decisions, generate_candidates).
THEOREM ComparesCompletely == Spec => []EvaluatesCompletely
<1>1. Init => EvaluationInvariant
  BY InitEvaluation
<1>2. EvaluationInvariant /\ [Next]_vars => EvaluationInvariant'
  BY StepEvaluation
<1>3. EvaluationInvariant => EvaluatesCompletely
  BY ReadingIsComplete
<1> QED BY <1>1, <1>2, <1>3, PTL DEF Spec

-----------------------------------------------------------------------------
(* Least elements.                                                         *)

LEMMA MinIs ==
  ASSUME NEW S \in SUBSET Int, IsFiniteSet(S), S # {}
  PROVE  Min(S) \in S /\ \A y \in S : Min(S) <= y
<1> DEFINE T == {P \in SUBSET S : P = {} \/ \E x \in P : \A y \in P : x <= y}
<1>1. {} \in T
  OBVIOUS
<1>2. ASSUME NEW P \in SUBSET S, NEW z \in S \ P, P \in T
      PROVE  P \cup {z} \in T
  <2>1. CASE P = {}
    BY <2>1
  <2>2. CASE P # {}
    <3>1. PICK x \in P : \A y \in P : x <= y
      BY <1>2, <2>2
    <3>2. CASE x <= z
      BY <3>1, <3>2
    <3>3. CASE ~(x <= z)
      <4>1. \A y \in P \cup {z} : z <= y
        BY <3>1, <3>3
      <4> QED BY <4>1
    <3> QED BY <3>2, <3>3
  <2> QED BY <2>1, <2>2
<1>3. S \in T
  <2> HIDE DEF T
  <2> QED BY <1>1, <1>2, InductionOverSets
<1>4. \E x \in S : \A y \in S : x <= y
  BY <1>3
<1> QED BY <1>4 DEF Min

\* Induction up to m whose hypothesis is the set T of the numbers of which
\* something holds.
LEMMA InductionUpTo ==
  ASSUME NEW m \in Nat, NEW T, 0 \in T, \A n \in 0 .. (m - 1) : n \in T => n + 1 \in T
  PROVE  m \in T
<1> DEFINE U == {n \in 0 .. m : n \notin T}
<1>1. CASE U # {}
  <2>1. IsFiniteSet(U) /\ U \in SUBSET Int
    <3>1. IsFiniteSet(0 .. m)
      BY FS_Interval
    <3>2. U \subseteq 0 .. m /\ U \subseteq Int
      OBVIOUS
    <3> QED BY <3>1, <3>2, FS_Subset
  <2>2. PICK n \in U : \A k \in U : n <= k
    <3> HIDE DEF U
    <3> QED BY <1>1, <2>1, MinIs
  <2>3. n # 0 /\ n - 1 \in 0 .. (m - 1)
    OBVIOUS
  <2>4. n - 1 \in T
    <3>1. ~(n <= n - 1) /\ n - 1 \in 0 .. m
      BY <2>3
    <3> QED BY <2>2, <3>1
  <2>5. (n - 1) + 1 = n
    OBVIOUS
  <2> QED BY <2>3, <2>4, <2>5
<1> QED BY <1>1

\* In tuples of n numbers the first difference decides.
LEMMA FirstDifference ==
  ASSUME NEW n \in Nat, NEW a \in [1 .. n -> Int], NEW b \in [1 .. n -> Int], a # b
  PROVE  \E i \in 1 .. n : a[i] # b[i] /\ \A j \in 1 .. (i - 1) : a[j] = b[j]
<1> DEFINE D == {i \in 1 .. n : a[i] # b[i]}
<1>1. D # {}
  OBVIOUS
<1>2. IsFiniteSet(D) /\ D \in SUBSET Int
  <2>1. IsFiniteSet(1 .. n)
    BY FS_Interval
  <2>2. D \subseteq 1 .. n /\ D \subseteq Int
    OBVIOUS
  <2> QED BY <2>1, <2>2, FS_Subset
<1>3. PICK i \in D : \A j \in D : i <= j
  <2> HIDE DEF D
  <2> QED BY <1>1, <1>2, MinIs
<1>4. ASSUME NEW j \in 1 .. (i - 1)
      PROVE  a[j] = b[j]
  <2>1. j \in 1 .. n /\ ~(i <= j)
    OBVIOUS
  <2> QED BY <1>3, <2>1
<1> QED BY <1>3, <1>4

LEMMA PrecedesTotal ==
  ASSUME NEW n \in Nat, NEW a \in [1 .. n -> Int], NEW b \in [1 .. n -> Int], a # b
  PROVE  Precedes(a, b) \/ Precedes(b, a)
<1>1. PICK i \in 1 .. n : a[i] # b[i] /\ \A j \in 1 .. (i - 1) : a[j] = b[j]
  BY FirstDifference
<1>2. a[i] \in Int /\ b[i] \in Int /\ DOMAIN a = 1 .. n /\ DOMAIN b = 1 .. n
  OBVIOUS
<1>3. a[i] < b[i] \/ b[i] < a[i]
  BY <1>1, <1>2
<1> QED BY <1>1, <1>2, <1>3 DEF Precedes

LEMMA PrecedesTrans ==
  ASSUME NEW n \in Nat, NEW a \in [1 .. n -> Int], NEW b \in [1 .. n -> Int],
         NEW c \in [1 .. n -> Int], Precedes(a, b), Precedes(b, c)
  PROVE  Precedes(a, c)
<1>1. PICK i \in 1 .. n : a[i] < b[i] /\ \A j \in 1 .. (i - 1) : a[j] = b[j]
  BY DEF Precedes
<1>2. PICK k \in 1 .. n : b[k] < c[k] /\ \A j \in 1 .. (k - 1) : b[j] = c[j]
  BY DEF Precedes
<1>3. DOMAIN a = 1 .. n
  OBVIOUS
<1>4. CASE i < k
  <2>1. b[i] = c[i] /\ \A j \in 1 .. (i - 1) : b[j] = c[j]
    BY <1>2, <1>4
  <2> QED BY <1>1, <1>3, <2>1 DEF Precedes
<1>5. CASE k < i
  <2>1. a[k] = b[k] /\ \A j \in 1 .. (k - 1) : a[j] = b[j]
    BY <1>1, <1>5
  <2> QED BY <1>2, <1>3, <2>1 DEF Precedes
<1>6. CASE i = k
  <2>1. a[i] < c[i]
    BY <1>1, <1>2, <1>6
  <2> QED BY <1>1, <1>2, <1>3, <1>6, <2>1 DEF Precedes
<1> QED BY <1>4, <1>5, <1>6

LEMMA PrecedesOnce ==
  ASSUME NEW n \in Nat, NEW a \in [1 .. n -> Int], NEW b \in [1 .. n -> Int],
         Precedes(a, b), Precedes(b, a)
  PROVE  FALSE
<1>1. Precedes(a, a)
  BY PrecedesTrans
<1>2. PICK i \in 1 .. n : a[i] < a[i]
  BY <1>1 DEF Precedes
<1> QED BY <1>2

Least(x, S, rank) == x \in S /\ \A y \in S \ {x} : Precedes(rank[x], rank[y])

\* Of a finite set of things with different ranks one is before all others.
LEMMA LeastExists ==
  ASSUME NEW n \in Nat, NEW S, IsFiniteSet(S), S # {}, NEW rank \in [S -> [1 .. n -> Int]],
         \A x, y \in S : rank[x] = rank[y] => x = y
  PROVE  \E x : Least(x, S, rank)
<1> DEFINE T == {P \in SUBSET S : P = {} \/ \E x : Least(x, P, rank)}
<1>1. {} \in T
  OBVIOUS
<1>2. ASSUME NEW P \in SUBSET S, NEW z \in S \ P, P \in T
      PROVE  P \cup {z} \in T
  <2>1. CASE P = {}
    <3>1. Least(z, P \cup {z}, rank)
      BY <2>1 DEF Least
    <3> QED BY <3>1
  <2>2. CASE P # {}
    <3>1. PICK x : Least(x, P, rank)
      BY <1>2, <2>2
    <3>2. x \in P /\ \A y \in P \ {x} : Precedes(rank[x], rank[y])
      BY <3>1 DEF Least
    <3>3. rank[x] # rank[z]
      BY <3>2
    <3>4. CASE Precedes(rank[x], rank[z])
      <4>1. Least(x, P \cup {z}, rank)
        BY <3>2, <3>4 DEF Least
      <4> QED BY <4>1
    <3>5. CASE Precedes(rank[z], rank[x])
      <4>1. \A y \in P \ {x} : Precedes(rank[z], rank[y])
        BY <3>2, <3>5, PrecedesTrans
      <4>2. Least(z, P \cup {z}, rank)
        BY <3>2, <3>5, <4>1 DEF Least
      <4> QED BY <4>2
    <3>6. Precedes(rank[x], rank[z]) \/ Precedes(rank[z], rank[x])
      <4>1. rank[x] \in [1 .. n -> Int] /\ rank[z] \in [1 .. n -> Int]
        BY <3>2
      <4> QED BY <3>3, <4>1, PrecedesTotal
    <3> QED BY <3>4, <3>5, <3>6
  <2> QED BY <2>1, <2>2
<1>3. S \in T
  <2> HIDE DEF T
  <2> QED BY <1>1, <1>2, InductionOverSets
<1> QED BY <1>3

LEMMA LeastOnce ==
  ASSUME NEW n \in Nat, NEW S, NEW rank \in [S -> [1 .. n -> Int]],
         NEW x, NEW y, Least(x, S, rank), Least(y, S, rank)
  PROVE  x = y
<1> SUFFICES ASSUME x # y PROVE FALSE
  OBVIOUS
<1>1. /\ rank[x] \in [1 .. n -> Int] /\ rank[y] \in [1 .. n -> Int]
      /\ Precedes(rank[x], rank[y]) /\ Precedes(rank[y], rank[x])
  BY DEF Least
<1> QED BY <1>1, PrecedesOnce

Numeric(n, R, criteria) ==
  Len(criteria) = n /\ \A i \in 1 .. n : criteria[i] \in [R -> Int]

Decided(w, n, R, criteria) ==
  \A s \in R \ {w} : \E i \in 1 .. n :
    /\ criteria[i][w] < criteria[i][s]
    /\ \A j \in 1 .. (i - 1) : criteria[j][w] = criteria[j][s]

\* What is first under every criterion that decides is what is left when the
\* criteria are applied one after the other.
LEMMA StagedIs ==
  ASSUME NEW R, NEW n \in Nat, NEW criteria, NEW w \in R,
         Numeric(n, R, criteria), Decided(w, n, R, criteria)
  PROVE  Staged(R, criteria) = {w}
<1> USE DEF Numeric, Decided
<1> DEFINE Narrow(K, i) ==
             LET least == Min({criteria[i][r] : r \in K})
             IN  {r \in K : criteria[i][r] = least}
           Alike(i) == {s \in R : \A j \in 1 .. i : criteria[j][s] = criteria[j][w]}
           f == [i \in 0 .. n |-> Alike(i)]
           Keep[i \in 0 .. n] == IF i = 0 THEN R ELSE Narrow(Keep[i - 1], i)
<1>1. Staged(R, criteria) = Keep[n]
  BY DEF Staged
<1>2. Alike(0) = R
  OBVIOUS
<1>3. ASSUME NEW i \in 1 .. n
      PROVE  Alike(i) = Narrow(Alike(i - 1), i)
  <2> DEFINE numbers == {criteria[i][r] : r \in Alike(i - 1)}
             least == criteria[i][w]
  <2>1. least \in numbers /\ numbers \subseteq Int
    OBVIOUS
  <2>2. ASSUME NEW s \in Alike(i - 1), s # w
        PROVE  least <= criteria[i][s]
    <3>1. s \in R \ {w}
      BY <2>2
    <3>2. PICK k \in 1 .. n : /\ criteria[k][w] < criteria[k][s]
                              /\ \A j \in 1 .. (k - 1) : criteria[j][w] = criteria[j][s]
      BY <3>1
    <3>3. criteria[i][w] \in Int /\ criteria[i][s] \in Int
      BY <3>1
    <3>4. CASE k < i
      <4>1. k \in 1 .. (i - 1)
        BY <3>4
      <4>2. criteria[k][s] = criteria[k][w]
        BY <2>2, <4>1
      <4>3. criteria[k] \in [R -> Int]
        BY <3>2
      <4>4. criteria[k][w] \in Int
        BY <4>3
      <4> QED BY <3>2, <4>2, <4>4
    <3>5. CASE k = i
      BY <3>2, <3>3, <3>5
    <3>6. CASE i < k
      <4>1. i \in 1 .. (k - 1)
        BY <3>6
      <4> QED BY <3>2, <3>3, <4>1
    <3> QED BY <3>4, <3>5, <3>6
  <2>3. \A y \in numbers : least <= y
    <3>1. \A s \in Alike(i - 1) : least <= criteria[i][s]
      <4>1. least <= criteria[i][w]
        BY <2>1
      <4> HIDE DEF Alike, least
      <4> QED BY <2>2, <4>1
    <3> QED BY <3>1
  <2>4. Min(numbers) = least
    <3> HIDE DEF numbers, least
    <3>1. \A x \in numbers : (\A y \in numbers : x <= y) => x = least
      BY <2>1, <2>3
    <3> QED BY <2>1, <2>3, <3>1 DEF Min
  <2>5. Narrow(Alike(i - 1), i) = {r \in Alike(i - 1) : criteria[i][r] = criteria[i][w]}
    BY <2>4
  <2>6. 1 .. i = (1 .. (i - 1)) \cup {i}
    OBVIOUS
  <2>7. Alike(i) = {r \in Alike(i - 1) : criteria[i][r] = criteria[i][w]}
    BY <2>6
  <2> QED BY <2>5, <2>7
<1> HIDE DEF Narrow, Alike
<1>4. f = [i \in 0 .. n |-> IF i = 0 THEN R ELSE Narrow(f[i - 1], i)]
  <2>1. ASSUME NEW i \in 0 .. n
        PROVE  f[i] = IF i = 0 THEN R ELSE Narrow(f[i - 1], i)
    <3>1. CASE i = 0
      BY <1>2, <3>1
    <3>2. CASE i # 0
      <4>1. i \in 1 .. n /\ i - 1 \in 0 .. n
        BY <3>2
      <4> QED BY <1>3, <3>2, <4>1
    <3> QED BY <3>1, <3>2
  <2> QED BY <2>1
<1> HIDE DEF f
<1>5. Keep = [i \in 0 .. n |-> IF i = 0 THEN R ELSE Narrow(Keep[i - 1], i)]
  BY <1>4
<1> HIDE DEF Keep
<1>6. n \in {i \in 0 .. n : Keep[i] = Alike(i)}
  <2> DEFINE T == {i \in 0 .. n : Keep[i] = Alike(i)}
  <2>1. 0 \in T
    BY <1>2, <1>5
  <2>2. ASSUME NEW i \in 0 .. (n - 1), i \in T
        PROVE  i + 1 \in T
    <3>1. i + 1 \in 1 .. n /\ i + 1 \in 0 .. n /\ i + 1 # 0 /\ (i + 1) - 1 = i
      OBVIOUS
    <3>2. Keep[i + 1] = Narrow(Keep[i], i + 1)
      BY <1>5, <3>1
    <3>3. Alike(i + 1) = Narrow(Alike(i), i + 1)
      BY <1>3, <3>1
    <3> QED BY <2>2, <3>1, <3>2, <3>3
  <2> HIDE DEF T
  <2>3. n \in T
    BY <2>1, <2>2, InductionUpTo
  <2> QED BY <2>3 DEF T
<1>7. Alike(n) = {w}
  <2>1. w \in Alike(n)
    BY DEF Alike
  <2>2. ASSUME NEW s \in Alike(n), s # w
        PROVE  FALSE
    <3>1. s \in R \ {w} /\ \A j \in 1 .. n : criteria[j][s] = criteria[j][w]
      BY <2>2 DEF Alike
    <3>2. PICK k \in 1 .. n : criteria[k][w] < criteria[k][s]
      BY <3>1
    <3>3. criteria[k][w] \in Int
      OBVIOUS
    <3> QED BY <3>1, <3>2, <3>3
  <2> QED BY <2>1, <2>2
<1> QED BY <1>1, <1>6, <1>7

-----------------------------------------------------------------------------
(* The winner among the records of an identity.                            *)

LEMMA Precedes2 ==
  ASSUME NEW a, NEW b, DOMAIN a = 1 .. 2
  PROVE  Precedes(a, b) <=> a[1] < b[1] \/ (a[1] = b[1] /\ a[2] < b[2])
BY DEF Precedes

LEMMA Precedes4 ==
  ASSUME NEW a, NEW b, DOMAIN a = 1 .. 4
  PROVE  Precedes(a, b) <=>
           \/ a[1] < b[1]
           \/ a[1] = b[1] /\ a[2] < b[2]
           \/ a[1] = b[1] /\ a[2] = b[2] /\ a[3] < b[3]
           \/ a[1] = b[1] /\ a[2] = b[2] /\ a[3] = b[3] /\ a[4] < b[4]
BY DEF Precedes

FirstRecord(w, V) == w \in V /\ \A s \in V \ {w} : Precedes(Rank(w), Rank(s))

FirstValue(v, V) ==
  v \in Values(V) /\ \A u \in Values(V) \ {v} : Precedes(GroupRank(V, v), GroupRank(V, u))

FirstSpelled(w, G) == w \in G /\ \A s \in G \ {w} : Precedes(SourceOrder(w), SourceOrder(s))

LEMMA FieldIs ==
  ASSUME field \in Fields
  PROVE  /\ field.policy \in {"prefer_source", "latest", "first_non_null", "most_common"}
         /\ \A r \in Records :
              /\ row[r].source \in Nat /\ row[r].bytes \in Nat /\ r \in Nat
              /\ row[r].changed \in Nat /\ RowChangedAt(r) \in Nat
              /\ RowChangedAt(r) = 0 <=> row[r].changed = 0
<1>1. ASSUME NEW t \in Nat, t = 0 \/ t >= Second
      PROVE  Seconds(t) \in Nat /\ (Seconds(t) = 0 <=> t = 0)
  <2>1. Second \in Nat /\ Second >= 1
    BY SecondAssumption
  <2>2. CASE t = 0
    BY <2>2 DEF Seconds
  <2>3. CASE t # 0
    <3> DEFINE h == Second \div 2
               m == t + h
               q == m \div Second
    <3>1. h \in Nat
      BY <2>1
    <3> HIDE DEF h
    <3>2. m \in Nat /\ m >= Second
      BY <1>1, <2>1, <2>3, <3>1
    <3> HIDE DEF m
    <3>3. q \in Nat /\ q >= 1
      BY <2>1, <3>2
    <3>4. Seconds(t) = q
      BY <2>3 DEF Seconds, m, h
    <3> QED BY <2>3, <3>3, <3>4
  <2> QED BY <2>2, <2>3
<1>2. \A r \in Records :
        /\ row[r].source \in Nat /\ row[r].bytes \in Nat /\ r \in Nat
        /\ row[r].changed \in Nat /\ (row[r].changed = 0 \/ row[r].changed >= Second)
  BY FieldsAssumption, RecordsAssumption DEF row
<1> QED BY <1>1, <1>2, FieldsAssumption DEF RowChangedAt

LEMMA ReadIs ==
  \A r \in Records : WholeSeconds[r] = RowChangedAt(r) /\ JsonValues[r] = RawValue(r)
BY DEF WholeSeconds, JsonValues, RowChangedAt, RawValue

\* The ranks are tuples of numbers of one length, different for different
\* records, for the ends with the record.
LEMMA RecordRanks ==
  ASSUME field \in Fields, field.policy # "most_common"
  PROVE  \E n \in {2, 3} :
           \A r \in Records : Rank(r) \in [1 .. n -> Int] /\ Rank(r)[n] = r
<1>1. \A r \in Records : /\ row[r].source \in Int /\ -RowChangedAt(r) \in Int /\ r \in Int
  BY FieldIs
<1>2. CASE field.policy = "prefer_source"
  <2>1. \A r \in Records : Rank(r) = <<row[r].source, -RowChangedAt(r), r>>
    BY <1>2 DEF Rank
  <2> QED BY <1>1, <2>1
<1>3. CASE field.policy = "latest"
  <2>1. \A r \in Records : Rank(r) = <<-RowChangedAt(r), row[r].source, r>>
    BY <1>3 DEF Rank
  <2> QED BY <1>1, <2>1
<1>4. CASE field.policy = "first_non_null"
  <2>1. \A r \in Records : Rank(r) = <<row[r].source, r>>
    BY <1>4 DEF Rank, SourceOrder
  <2> QED BY <1>1, <2>1
<1> QED BY <1>2, <1>3, <1>4, FieldIs

LEMMA SourceRanks ==
  ASSUME field \in Fields
  PROVE  \A r \in Records : SourceOrder(r) \in [1 .. 2 -> Int] /\ SourceOrder(r)[2] = r
<1>1. \A r \in Records : row[r].source \in Int /\ r \in Int
  BY FieldIs
<1> QED BY <1>1 DEF SourceOrder

LEMMA GroupRanks ==
  ASSUME field \in Fields, NEW V \in SUBSET Records
  PROVE  /\ \A u \in Values(V) : GroupRank(V, u) \in [1 .. 4 -> Int] /\ GroupRank(V, u)[4] = u
         /\ IsFiniteSet(V) /\ IsFiniteSet(Values(V))
<1>1. IsFiniteSet(V)
  BY RecordsAssumption, FS_Subset
<1>2. \A u : Spelling(V, u) \subseteq V /\ Authoritative(Spelling(V, u)) \subseteq V
  BY DEF Spelling, Authoritative
<1>3. \A u : /\ Cardinality(Spelling(V, u)) \in Nat
             /\ Cardinality(Authoritative(Spelling(V, u))) \in Nat
             /\ IsFiniteSet(Spelling(V, u))
  BY <1>1, <1>2, FS_Subset, FS_CardinalityType
<1>4. ASSUME NEW u \in Values(V)
      PROVE  Min({row[r].source : r \in Spelling(V, u)}) \in Int /\ u \in Int
  <2> DEFINE S == {row[r].source : r \in Spelling(V, u)}
             f == [r \in Spelling(V, u) |-> row[r].source]
  <2>1. S \subseteq Int /\ u \in Int /\ S # {}
    BY FieldIs DEF Spelling, Values
  <2>2. IsFiniteSet(S)
    <3>1. f \in [Spelling(V, u) -> S] /\ \A t \in S : \E s \in Spelling(V, u) : f[s] = t
      OBVIOUS
    <3> HIDE DEF f, S
    <3> QED BY <1>3, <3>1, ImageBound
  <2>3. Min(S) \in S
    <3> HIDE DEF S
    <3> QED BY <2>1, <2>2, MinIs
  <2> HIDE DEF S
  <2>4. Min(S) \in Int
    BY <2>1, <2>3
  <2> QED BY <2>1, <2>4 DEF S
<1>5. ASSUME NEW u \in Values(V)
      PROVE  GroupRank(V, u) \in [1 .. 4 -> Int] /\ GroupRank(V, u)[4] = u
  <2>1. /\ -Cardinality(Spelling(V, u)) \in Int
        /\ -Cardinality(Authoritative(Spelling(V, u))) \in Int
    BY <1>3
  <2>2. GroupRank(V, u) =
          <<-Cardinality(Spelling(V, u)), -Cardinality(Authoritative(Spelling(V, u))),
            Min({row[r].source : r \in Spelling(V, u)}), u>>
    BY DEF GroupRank
  <2> QED BY <1>4, <2>1, <2>2
<1>6. IsFiniteSet(Values(V))
  <2> DEFINE f == [r \in V |-> row[r].bytes]
  <2>1. f \in [V -> Values(V)] /\ \A t \in Values(V) : \E s \in V : f[s] = t
    BY DEF Values
  <2> HIDE DEF f
  <2> QED BY <1>1, <2>1, ImageBound
<1> QED BY <1>1, <1>5, <1>6

\* There is a winner, and only one.
LEMMA FirstRecordIs ==
  ASSUME field \in Fields, field.policy # "most_common", NEW V \in SUBSET Records, V # {}
  PROVE  FirstRecord(Winner(V), V) /\ \A x : FirstRecord(x, V) => x = Winner(V)
<1>1. PICK n \in {2, 3} : \A r \in Records : Rank(r) \in [1 .. n -> Int] /\ Rank(r)[n] = r
  BY RecordRanks
<1> DEFINE rank == [r \in V |-> Rank(r)]
<1>2. n \in Nat /\ IsFiniteSet(V)
  <2>1. IsFiniteSet(V)
    BY RecordsAssumption, FS_Subset
  <2>2. n \in Nat
    OBVIOUS
  <2> QED BY <2>1, <2>2
<1>3. rank \in [V -> [1 .. n -> Int]] /\ \A x, y \in V : rank[x] = rank[y] => x = y
  BY <1>1
<1>4. \A x : Least(x, V, rank) <=> FirstRecord(x, V)
  BY DEF Least, FirstRecord
<1> HIDE DEF rank
<1>5. PICK x : FirstRecord(x, V)
  BY <1>2, <1>3, <1>4, LeastExists
<1>6. Winner(V) = CHOOSE z \in V : \A y \in V \ {z} : Precedes(Rank(z), Rank(y))
  BY DEF Winner, First
<1>7. FirstRecord(Winner(V), V)
  BY <1>5, <1>6 DEF FirstRecord
<1>8. \A z : FirstRecord(z, V) => z = Winner(V)
  BY <1>2, <1>3, <1>4, <1>7, LeastOnce
<1> QED BY <1>7, <1>8

LEMMA FirstSpelledIs ==
  ASSUME field \in Fields, NEW G \in SUBSET Records, G # {}
  PROVE  FirstSpelled(First(G, SourceOrder), G)
         /\ \A x : FirstSpelled(x, G) => x = First(G, SourceOrder)
<1> DEFINE rank == [r \in G |-> SourceOrder(r)]
<1>2. 2 \in Nat /\ IsFiniteSet(G)
  BY RecordsAssumption, FS_Subset
<1>3. rank \in [G -> [1 .. 2 -> Int]] /\ \A x, y \in G : rank[x] = rank[y] => x = y
  BY SourceRanks
<1>4. \A x : Least(x, G, rank) <=> FirstSpelled(x, G)
  BY DEF Least, FirstSpelled
<1> HIDE DEF rank
<1>5. PICK x : FirstSpelled(x, G)
  BY <1>2, <1>3, <1>4, LeastExists
<1>6. First(G, SourceOrder) = CHOOSE z \in G : \A y \in G \ {z} : Precedes(SourceOrder(z), SourceOrder(y))
  BY DEF First
<1>7. FirstSpelled(First(G, SourceOrder), G)
  BY <1>5, <1>6 DEF FirstSpelled
<1>8. \A z : FirstSpelled(z, G) => z = First(G, SourceOrder)
  BY <1>2, <1>3, <1>4, <1>7, LeastOnce
<1> QED BY <1>7, <1>8

LEMMA FirstValueIs ==
  ASSUME field \in Fields, NEW V \in SUBSET Records, V # {}
  PROVE  /\ \E v : FirstValue(v, V)
         /\ \A v, u : FirstValue(v, V) /\ FirstValue(u, V) => u = v
<1> DEFINE rank == [u \in Values(V) |-> GroupRank(V, u)]
<1>1. rank \in [Values(V) -> [1 .. 4 -> Int]] /\ \A x, y \in Values(V) : rank[x] = rank[y] => x = y
  BY GroupRanks
<1>2. \A x : Least(x, Values(V), rank) <=> FirstValue(x, V)
  BY DEF Least, FirstValue
<1>3. IsFiniteSet(Values(V)) /\ Values(V) # {} /\ 4 \in Nat
  BY GroupRanks DEF Values
<1> HIDE DEF rank
<1> QED BY <1>1, <1>2, <1>3, LeastExists, LeastOnce

LEMMA CommonWinnerIs ==
  ASSUME field \in Fields, field.policy = "most_common", NEW V \in SUBSET Records, V # {},
         NEW v, FirstValue(v, V)
  PROVE  /\ FirstSpelled(Winner(V), Spelling(V, v))
         /\ \A x : FirstSpelled(x, Spelling(V, v)) => x = Winner(V)
         /\ Winner(V) \in V /\ row[Winner(V)].bytes = v
<1> DEFINE Best(u) == GroupRank(V, u)
<1>1. First(Values(V), Best) =
        CHOOSE z \in Values(V) : \A y \in Values(V) \ {z} : Precedes(GroupRank(V, z), GroupRank(V, y))
  BY DEF First
<1>2. Winner(V) = First(Spelling(V, First(Values(V), Best)), SourceOrder)
  BY DEF Winner
<1> HIDE DEF Best
<1>3. FirstValue(First(Values(V), Best), V)
  BY <1>1 DEF FirstValue
<1>4. First(Values(V), Best) = v
  BY <1>3, FirstValueIs
<1>5. Winner(V) = First(Spelling(V, v), SourceOrder)
  BY <1>2, <1>4
<1>6. Spelling(V, v) \in SUBSET Records /\ Spelling(V, v) # {}
  BY DEF Spelling, FirstValue, Values
<1>7. /\ FirstSpelled(Winner(V), Spelling(V, v))
      /\ \A x : FirstSpelled(x, Spelling(V, v)) => x = Winner(V)
  BY <1>5, <1>6, FirstSpelledIs
<1> QED BY <1>7 DEF FirstSpelled, Spelling

-----------------------------------------------------------------------------
(* What a policy selects, from fewer records and from more.                *)

LEMMA ValidIs ==
  ASSUME NEW R
  PROVE  /\ Valid(R) \subseteq R /\ \A r \in Valid(R) : row[r].state = "value"
         /\ \A Q : Valid(R \cup Q) = Valid(R) \cup Valid(Q)
         /\ \A r : Valid(R \ {r}) = Valid(R) \ {r}
BY DEF Valid, Usable

LEMMA BuiltInIs ==
  ASSUME NEW R
  PROVE  /\ Valid(R) = {} => BuiltIn(R).value = None
         /\ Valid(R) # {} =>
              /\ BuiltIn(R).value = RawValue(Winner(Valid(R)))
              /\ BuiltIn(R).winner = Winner(Valid(R)) /\ BuiltIn(R).status = "selected"
              /\ BuiltIn(R).contributors = Spelling(Valid(R), row[Winner(Valid(R))].bytes)
<1>1. CASE Valid(R) = {}
  <2>1. \E issues : BuiltIn(R) = [NoValue EXCEPT !.issues = issues]
    BY <1>1 DEF BuiltIn
  <2> QED BY <1>1, <2>1 DEF NoValue
<1>2. CASE Valid(R) # {}
  <2>1. \E issues : BuiltIn(R) =
          [value |-> RawValue(Winner(Valid(R))), status |-> "selected",
           winner |-> Winner(Valid(R)),
           contributors |-> Spelling(Valid(R), row[Winner(Valid(R))].bytes), issues |-> issues]
    BY <1>2 DEF BuiltIn
  <2> QED BY <1>2, <2>1
<1> QED BY <1>1, <1>2

LEMMA WinnerIsValid ==
  ASSUME field \in Fields, NEW V \in SUBSET Records, V # {}
  PROVE  Winner(V) \in V
<1>1. CASE field.policy = "most_common"
  BY <1>1, FirstValueIs, CommonWinnerIs
<1>2. CASE field.policy # "most_common"
  BY <1>2, FirstRecordIs DEF FirstRecord
<1> QED BY <1>1, <1>2

\* Without a record of another value, what was first still is.
LEMMA FirstValueWithout ==
  ASSUME field \in Fields, NEW V \in SUBSET Records, NEW v, FirstValue(v, V),
         NEW r \in V, row[r].bytes # v
  PROVE  FirstValue(v, V \ {r}) /\ Spelling(V \ {r}, v) = Spelling(V, v)
<1> DEFINE W == V \ {r}
<1>1. Spelling(W, v) = Spelling(V, v)
  BY DEF Spelling
<1>2. v \in Values(W) /\ v \in Values(V)
  BY DEF FirstValue, Values
<1>3. GroupRank(W, v) = GroupRank(V, v)
  BY <1>1 DEF GroupRank
<1>4. ASSUME NEW u \in Values(W) \ {v}
      PROVE  Precedes(GroupRank(W, v), GroupRank(W, u))
  <2>1. u \in Values(V) \ {v} /\ Precedes(GroupRank(V, v), GroupRank(V, u))
    BY <1>4 DEF FirstValue, Values
  <2>2. CASE u # row[r].bytes
    <3>1. Spelling(W, u) = Spelling(V, u)
      BY <2>2 DEF Spelling
    <3>2. GroupRank(W, u) = GroupRank(V, u)
      BY <3>1 DEF GroupRank
    <3> QED BY <1>3, <2>1, <3>2
  <2>3. CASE u = row[r].bytes
    <3> DEFINE a == GroupRank(V, v)
               b == GroupRank(V, u)
               c == GroupRank(W, u)
               S == Spelling(V, u)
    <3>1. Spelling(W, u) = S \ {r} /\ r \in S /\ S \subseteq V
      BY <2>3 DEF Spelling
    <3>2. IsFiniteSet(S)
      BY <3>1, GroupRanks, FS_Subset
    <3>3. Cardinality(S \ {r}) = Cardinality(S) - 1 /\ Cardinality(S) \in Nat
      BY <3>1, <3>2, FS_RemoveElement, FS_CardinalityType
    <3>4. b[1] = -Cardinality(S) /\ c[1] = -Cardinality(S \ {r})
      <4>1. \A X : GroupRank(X, u)[1] = -Cardinality(Spelling(X, u))
        BY DEF GroupRank
      <4> QED BY <3>1, <4>1
    <3>5. /\ a \in [1 .. 4 -> Int]
          /\ DOMAIN a = 1 .. 4 /\ a[1] \in Int
      <4>1. a \in [1 .. 4 -> Int]
        BY <1>2, GroupRanks
      <4> HIDE DEF a
      <4> QED BY <4>1
    <3> HIDE DEF a, b, c, S
    <3>6. a[1] < b[1] \/ a[1] = b[1]
      BY <2>1, <3>5, Precedes4 DEF a, b
    <3>7. a[1] < c[1]
      BY <3>3, <3>4, <3>5, <3>6
    <3>8. Precedes(a, c)
      BY <3>5, <3>7, Precedes4
    <3> QED BY <1>3, <3>8 DEF a, c
  <2> QED BY <2>2, <2>3
<1> QED BY <1>1, <1>2, <1>4 DEF FirstValue

\* A record leaves that did not contribute to the value: the value stays.
LEMMA BuiltInWithout ==
  ASSUME field \in Fields, NEW R \in SUBSET Records, NEW r,
         r \notin BuiltIn(R).contributors
  PROVE  BuiltIn(R \ {r}).value = BuiltIn(R).value
<1> DEFINE V == Valid(R)
           W == Valid(R \ {r})
<1>1. V \in SUBSET Records /\ W = V \ {r}
  BY ValidIs
<1>2. CASE V = {}
  BY <1>1, <1>2, BuiltInIs
<1>3. CASE V # {} /\ r \in V
  <2> DEFINE w == Winner(V)
  <2>1. w \in V
    BY <1>1, <1>3, WinnerIsValid
  <2>2. row[r].bytes # row[w].bytes
    BY <1>3, BuiltInIs DEF Spelling
  <2>3. w \in W /\ W # {} /\ W \in SUBSET Records
    BY <1>1, <2>1, <2>2
  <2>4. Winner(W) = w
    <3>1. CASE field.policy = "most_common"
      <4>1. PICK v : FirstValue(v, V)
        BY <1>1, <1>3, FirstValueIs
      <4>2. FirstSpelled(w, Spelling(V, v)) /\ row[w].bytes = v
        BY <1>1, <1>3, <3>1, <4>1, CommonWinnerIs
      <4>3. FirstValue(v, W) /\ Spelling(W, v) = Spelling(V, v)
        <5> HIDE DEF V, W, w
        <5> QED BY <1>1, <1>3, <2>2, <4>1, <4>2, FirstValueWithout
      <4>4. FirstSpelled(w, Spelling(W, v))
        BY <4>2, <4>3
      <4> HIDE DEF V, W, w
      <4> QED BY <2>3, <3>1, <4>3, <4>4, CommonWinnerIs
    <3>2. CASE field.policy # "most_common"
      <4>1. FirstRecord(w, V)
        BY <1>1, <1>3, <3>2, FirstRecordIs
      <4> HIDE DEF V, W, w
      <4>2. FirstRecord(w, W)
        BY <1>1, <2>3, <4>1 DEF FirstRecord
      <4> QED BY <2>3, <3>2, <4>2, FirstRecordIs
    <3> QED BY <3>1, <3>2
  <2> QED BY <1>3, <2>3, <2>4, BuiltInIs
<1>4. CASE V # {} /\ r \notin V
  <2>1. W = V
    BY <1>1, <1>4
  <2> QED BY <1>4, <2>1, BuiltInIs
<1> QED BY <1>2, <1>3, <1>4

LEMMA MinOfUnion ==
  ASSUME NEW S \in SUBSET Int, IsFiniteSet(S), S # {},
         NEW T \in SUBSET Int, IsFiniteSet(T), T # {}
  PROVE  /\ Min(S) \in Int /\ Min(T) \in Int
         /\ Min(S \cup T) = IF Min(S) <= Min(T) THEN Min(S) ELSE Min(T)
<1>1. /\ Min(S) \in S /\ \A y \in S : Min(S) <= y
      /\ Min(T) \in T /\ \A y \in T : Min(T) <= y
  BY MinIs
<1>2. IsFiniteSet(S \cup T)
  BY FS_Union
<1>3. Min(S \cup T) \in S \cup T /\ \A y \in S \cup T : Min(S \cup T) <= y
  <2>1. S \cup T \in SUBSET Int /\ S \cup T # {}
    OBVIOUS
  <2> DEFINE U == S \cup T
  <2> HIDE DEF U
  <2>2. Min(U) \in U /\ \A y \in U : Min(U) <= y
    BY <1>2, <2>1, MinIs DEF U
  <2> QED BY <2>2 DEF U
<1>4. Min(S) \in Int /\ Min(T) \in Int /\ Min(S \cup T) \in Int
  BY <1>1, <1>3
<1>5. Min(S \cup T) <= Min(S) /\ Min(S \cup T) <= Min(T)
  BY <1>1, <1>3
<1>6. Min(S \cup T) >= Min(S) \/ Min(S \cup T) >= Min(T)
  BY <1>1, <1>3, <1>4
<1> QED BY <1>1, <1>3, <1>4, <1>5, <1>6

Sources(X, u) == {row[r].source : r \in Spelling(X, u)}

\* The parts of a group's rank, and the two counts of disjoint parts.
LEMMA GroupParts ==
  ASSUME field \in Fields, NEW V \in SUBSET Records, NEW u
  PROVE  /\ GroupRank(V, u)[1] = -Cardinality(Spelling(V, u))
         /\ GroupRank(V, u)[2] = -Cardinality(Authoritative(Spelling(V, u)))
         /\ GroupRank(V, u)[3] = Min(Sources(V, u)) /\ GroupRank(V, u)[4] = u
         /\ DOMAIN GroupRank(V, u) = 1 .. 4
         /\ Cardinality(Spelling(V, u)) \in Nat
         /\ Cardinality(Authoritative(Spelling(V, u))) \in Nat
         /\ Sources(V, u) \in SUBSET Int /\ IsFiniteSet(Sources(V, u))
         /\ u \in Values(V) <=> Sources(V, u) # {}
         /\ u \in Values(V) <=> Cardinality(Spelling(V, u)) # 0
<1>1. IsFiniteSet(Spelling(V, u)) /\ IsFiniteSet(Authoritative(Spelling(V, u)))
  <2>1. Spelling(V, u) \subseteq V /\ Authoritative(Spelling(V, u)) \subseteq V
    BY DEF Spelling, Authoritative
  <2> QED BY <2>1, GroupRanks, FS_Subset
<1>2. /\ Cardinality(Spelling(V, u)) \in Nat
      /\ Cardinality(Authoritative(Spelling(V, u))) \in Nat
      /\ Cardinality(Spelling(V, u)) = 0 <=> Spelling(V, u) = {}
  BY <1>1, FS_CardinalityType, FS_EmptySet
<1>3. Sources(V, u) \in SUBSET Int
  BY FieldIs DEF Sources, Spelling
<1>4. IsFiniteSet(Sources(V, u))
  <2> DEFINE f == [r \in Spelling(V, u) |-> row[r].source]
  <2>1. /\ f \in [Spelling(V, u) -> Sources(V, u)]
        /\ \A t \in Sources(V, u) : \E s \in Spelling(V, u) : f[s] = t
    BY DEF Sources
  <2> HIDE DEF f
  <2> QED BY <1>1, <2>1, ImageBound
<1>5. /\ u \in Values(V) <=> Spelling(V, u) # {}
      /\ Sources(V, u) # {} <=> Spelling(V, u) # {}
  BY DEF Values, Spelling, Sources
<1>6. GroupRank(V, u) =
        <<-Cardinality(Spelling(V, u)), -Cardinality(Authoritative(Spelling(V, u))),
          Min(Sources(V, u)), u>>
  BY DEF GroupRank, Sources
<1>7. /\ GroupRank(V, u)[1] = -Cardinality(Spelling(V, u))
      /\ GroupRank(V, u)[2] = -Cardinality(Authoritative(Spelling(V, u)))
      /\ GroupRank(V, u)[3] = Min(Sources(V, u)) /\ GroupRank(V, u)[4] = u
      /\ DOMAIN GroupRank(V, u) = 1 .. 4
  BY <1>6
<1> QED BY <1>2, <1>3, <1>4, <1>5, <1>7

LEMMA GroupsTogether ==
  ASSUME field \in Fields, NEW V \in SUBSET Records, NEW W \in SUBSET Records,
         V \cap W = {}, NEW u
  PROVE  /\ Cardinality(Spelling(V \cup W, u))
              = Cardinality(Spelling(V, u)) + Cardinality(Spelling(W, u))
         /\ Cardinality(Authoritative(Spelling(V \cup W, u)))
              = Cardinality(Authoritative(Spelling(V, u)))
                + Cardinality(Authoritative(Spelling(W, u)))
<1>1. ASSUME NEW S \in SUBSET V, NEW T \in SUBSET W
      PROVE  Cardinality(S \cup T) = Cardinality(S) + Cardinality(T)
  <2>1. IsFiniteSet(S) /\ IsFiniteSet(T)
    BY GroupRanks, FS_Subset
  <2>2. S \cap T = {}
    OBVIOUS
  <2>3. Cardinality(S \cap T) = 0
    BY <2>2, FS_EmptySet
  <2>4. Cardinality(S \cup T) = Cardinality(S) + Cardinality(T) - Cardinality(S \cap T)
    BY <2>1, FS_Union
  <2>5. Cardinality(S) \in Nat /\ Cardinality(T) \in Nat
    BY <2>1, FS_CardinalityType
  <2> QED BY <2>3, <2>4, <2>5
<1>2. /\ Spelling(V \cup W, u) = Spelling(V, u) \cup Spelling(W, u)
      /\ Spelling(V, u) \in SUBSET V /\ Spelling(W, u) \in SUBSET W
  BY DEF Spelling
<1>3. /\ Authoritative(Spelling(V \cup W, u))
           = Authoritative(Spelling(V, u)) \cup Authoritative(Spelling(W, u))
      /\ Authoritative(Spelling(V, u)) \in SUBSET V
      /\ Authoritative(Spelling(W, u)) \in SUBSET W
  BY <1>2 DEF Authoritative
<1> QED BY <1>1, <1>2, <1>3

\* A value that only one of the parts has is behind one that is first in both.
LEMMA BehindTogether ==
  ASSUME field \in Fields, NEW V \in SUBSET Records, NEW W \in SUBSET Records,
         V \cap W = {}, NEW b, FirstValue(b, V), FirstValue(b, W),
         NEW u \in Values(V) \ Values(W)
  PROVE  GroupRank(V \cup W, b)[1] < GroupRank(V \cup W, u)[1]
<1> DEFINE n(X, v) == Cardinality(Spelling(X, v))
<1>1. /\ n(V, b) \in Nat /\ n(V, u) \in Nat /\ n(W, b) \in Nat /\ n(W, u) = 0
      /\ n(W, b) # 0
  BY GroupParts DEF FirstValue
<1>2. u # b /\ Precedes(GroupRank(V, b), GroupRank(V, u))
  BY DEF FirstValue
<1>3. -n(V, b) < -n(V, u) \/ -n(V, b) = -n(V, u)
  <2>1. DOMAIN GroupRank(V, b) = 1 .. 4
    BY GroupParts
  <2>2. /\ GroupRank(V, b)[1] = -n(V, b) /\ GroupRank(V, u)[1] = -n(V, u)
    BY GroupParts
  <2> QED BY <1>2, <2>1, <2>2, Precedes4
<1> DEFINE U == V \cup W
<1>4. /\ n(U, b) = n(V, b) + n(W, b)
      /\ n(U, u) = n(V, u) + n(W, u)
  BY GroupsTogether
<1>5. U \in SUBSET Records
  OBVIOUS
<1>6. GroupRank(U, b)[1] = -n(U, b) /\ GroupRank(U, u)[1] = -n(U, u)
  <2> HIDE DEF U
  <2> QED BY <1>5, GroupParts
<1> HIDE DEF n, U
<1>7. GroupRank(U, b)[1] < GroupRank(U, u)[1]
  BY <1>1, <1>3, <1>4, <1>6
<1> QED BY <1>7 DEF U

\* A value that is first in two parts is first in both together.
LEMMA FirstValueTogether ==
  ASSUME field \in Fields, NEW V \in SUBSET Records, NEW W \in SUBSET Records,
         V \cap W = {}, NEW b, FirstValue(b, V), FirstValue(b, W)
  PROVE  FirstValue(b, V \cup W)
<1> DEFINE U == V \cup W
           a == GroupRank(U, b)
<1>1. U \in SUBSET Records /\ DOMAIN a = 1 .. 4
  <2>1. U \in SUBSET Records
    OBVIOUS
  <2> HIDE DEF U
  <2> QED BY <2>1, GroupParts
<1>2. b \in Values(U) /\ Values(U) = Values(V) \cup Values(W) /\ b \in Values(V) /\ b \in Values(W)
  BY DEF FirstValue, Values
<1>3. ASSUME NEW u \in Values(U) \ {b}
      PROVE  Precedes(a, GroupRank(U, u))
  <2> DEFINE c == GroupRank(U, u)
  <2>1. CASE u \in Values(V) \ Values(W)
    <3>1. a[1] < c[1]
      BY <2>1, BehindTogether
    <3> HIDE DEF a, c
    <3> QED BY <1>1, <3>1, Precedes4 DEF c
  <2>2. CASE u \in Values(W) \ Values(V)
    <3>1. V \cup W = W \cup V /\ W \cap V = {}
      OBVIOUS
    <3>2. GroupRank(W \cup V, b)[1] < GroupRank(W \cup V, u)[1]
      BY <2>2, <3>1, BehindTogether
    <3>3. a[1] < c[1]
      BY <3>1, <3>2
    <3> HIDE DEF a, c
    <3> QED BY <1>1, <3>3, Precedes4 DEF c
  <2>3. CASE u \in Values(V) /\ u \in Values(W)
    <3> DEFINE n(X, v) == Cardinality(Spelling(X, v))
               m(X, v) == Cardinality(Authoritative(Spelling(X, v)))
               s(X, v) == Min(Sources(X, v))
               Better(X) ==
                 \/ -n(X, b) < -n(X, u)
                 \/ -n(X, b) = -n(X, u) /\ -m(X, b) < -m(X, u)
                 \/ -n(X, b) = -n(X, u) /\ -m(X, b) = -m(X, u) /\ s(X, b) < s(X, u)
                 \/ -n(X, b) = -n(X, u) /\ -m(X, b) = -m(X, u) /\ s(X, b) = s(X, u) /\ b < u
    <3>1. /\ Precedes(GroupRank(V, b), GroupRank(V, u))
          /\ Precedes(GroupRank(W, b), GroupRank(W, u))
      BY <1>3, <2>3 DEF FirstValue
    <3>2. ASSUME NEW X \in SUBSET Records
          PROVE  Precedes(GroupRank(X, b), GroupRank(X, u)) <=> Better(X)
      <4>1. /\ GroupRank(X, b)[1] = -n(X, b) /\ GroupRank(X, u)[1] = -n(X, u)
            /\ GroupRank(X, b)[2] = -m(X, b) /\ GroupRank(X, u)[2] = -m(X, u)
            /\ GroupRank(X, b)[3] = s(X, b) /\ GroupRank(X, u)[3] = s(X, u)
            /\ GroupRank(X, b)[4] = b /\ GroupRank(X, u)[4] = u
            /\ DOMAIN GroupRank(X, b) = 1 .. 4
        BY GroupParts
      <4> HIDE DEF n, m, s
      <4> QED BY <4>1, Precedes4
    <3>3. ASSUME NEW v
          PROVE  /\ n(V, v) \in Nat /\ n(W, v) \in Nat /\ n(U, v) = n(V, v) + n(W, v)
                 /\ m(V, v) \in Nat /\ m(W, v) \in Nat /\ m(U, v) = m(V, v) + m(W, v)
      <4>1. n(V, v) \in Nat /\ n(W, v) \in Nat /\ m(V, v) \in Nat /\ m(W, v) \in Nat
        BY GroupParts
      <4>2. n(U, v) = n(V, v) + n(W, v) /\ m(U, v) = m(V, v) + m(W, v)
        BY GroupsTogether
      <4> QED BY <4>1, <4>2
    <3>4. ASSUME NEW v \in {b, u}
          PROVE  /\ s(V, v) \in Int /\ s(W, v) \in Int
                 /\ s(U, v) = IF s(V, v) <= s(W, v) THEN s(V, v) ELSE s(W, v)
      <4>1. v \in Values(V) /\ v \in Values(W)
        BY <1>2, <2>3
      <4>2. /\ Sources(V, v) \in SUBSET Int /\ IsFiniteSet(Sources(V, v)) /\ Sources(V, v) # {}
            /\ Sources(W, v) \in SUBSET Int /\ IsFiniteSet(Sources(W, v)) /\ Sources(W, v) # {}
        BY <4>1, GroupParts
      <4>3. Sources(U, v) = Sources(V, v) \cup Sources(W, v)
        BY DEF Sources, Spelling
      <4> QED BY <4>2, <4>3, MinOfUnion
    <3>5. Better(V) /\ Better(W)
      BY <3>1, <3>2
    <3>6. /\ n(V, b) \in Nat /\ n(W, b) \in Nat /\ n(U, b) = n(V, b) + n(W, b)
          /\ m(V, b) \in Nat /\ m(W, b) \in Nat /\ m(U, b) = m(V, b) + m(W, b)
          /\ n(V, u) \in Nat /\ n(W, u) \in Nat /\ n(U, u) = n(V, u) + n(W, u)
          /\ m(V, u) \in Nat /\ m(W, u) \in Nat /\ m(U, u) = m(V, u) + m(W, u)
      BY <3>3
    <3>7. /\ s(V, b) \in Int /\ s(W, b) \in Int
          /\ s(U, b) = IF s(V, b) <= s(W, b) THEN s(V, b) ELSE s(W, b)
          /\ s(V, u) \in Int /\ s(W, u) \in Int
          /\ s(U, u) = IF s(V, u) <= s(W, u) THEN s(V, u) ELSE s(W, u)
      BY <3>4
    <3> HIDE DEF n, m, s, U, a
    <3>8. Better(U)
      BY <3>5, <3>6, <3>7
    <3> HIDE DEF Better
    <3> QED BY <1>1, <3>2, <3>8 DEF a
  <2> QED BY <1>2, <2>1, <2>2, <2>3
<1> QED BY <1>2, <1>3 DEF FirstValue

\* Two entities with the same value merge: the value stays.
LEMMA BuiltInTogether ==
  ASSUME field \in Fields, NEW P \in SUBSET Records, NEW Q \in SUBSET Records,
         P \cap Q = {}, BuiltIn(P).value = BuiltIn(Q).value,
         Valid(P) # {} /\ Valid(Q) # {} =>
           row[BuiltIn(P).winner].bytes = row[BuiltIn(Q).winner].bytes
  PROVE  BuiltIn(P \cup Q).value = BuiltIn(P).value
<1> DEFINE V == Valid(P)
           W == Valid(Q)
           U == Valid(P \cup Q)
<1>1. /\ V \in SUBSET Records /\ W \in SUBSET Records /\ V \cap W = {}
      /\ U = V \cup W /\ U \in SUBSET Records
  BY ValidIs
<1>2. CASE V = {}
  <2>1. U = W
    BY <1>1, <1>2
  <2>2. BuiltIn(P \cup Q).value = BuiltIn(Q).value
    BY <2>1, BuiltInIs
  <2> QED BY <2>2
<1>3. CASE W = {}
  <2>1. U = V
    BY <1>1, <1>3
  <2> QED BY <2>1, BuiltInIs
<1>4. CASE V # {} /\ W # {}
  <2> DEFINE x == Winner(V)
             y == Winner(W)
             z == Winner(U)
  <2>1. U # {} /\ x \in V /\ y \in W /\ z \in U
    <3>1. U # {}
      BY <1>1, <1>4
    <3> HIDE DEF U, V, W
    <3> QED BY <1>1, <1>4, <3>1, WinnerIsValid
  <2>2. /\ BuiltIn(P).value = RawValue(x) /\ BuiltIn(Q).value = RawValue(y)
        /\ BuiltIn(P \cup Q).value = RawValue(z)
        /\ BuiltIn(P).winner = x /\ BuiltIn(Q).winner = y
    BY <1>4, <2>1, BuiltInIs
  <2>3. RawValue(x) = RawValue(y)
    BY <2>2
  <2>5. row[x].bytes = row[y].bytes
    BY <1>4, <2>2
  <2>6. z = x \/ z = y
    <3>1. CASE field.policy = "most_common"
      <4>1. PICK b : FirstValue(b, V)
        BY <1>1, <1>4, FirstValueIs
      <4>2. PICK c : FirstValue(c, W)
        BY <1>1, <1>4, FirstValueIs
      <4> HIDE DEF U, V, W
      <4>3. /\ row[x].bytes = b /\ FirstSpelled(x, Spelling(V, b))
            /\ \A t : FirstSpelled(t, Spelling(V, b)) => t = x
        BY <1>1, <1>4, <3>1, <4>1, CommonWinnerIs
      <4>4. /\ row[y].bytes = c /\ FirstSpelled(y, Spelling(W, c))
            /\ \A t : FirstSpelled(t, Spelling(W, c)) => t = y
        BY <1>1, <1>4, <3>1, <4>2, CommonWinnerIs
      <4>5. b = c
        BY <2>5, <4>3, <4>4
      <4>6. FirstValue(b, U)
        BY <1>1, <4>1, <4>2, <4>5, FirstValueTogether
      <4>7. FirstSpelled(z, Spelling(U, b))
        BY <1>1, <2>1, <3>1, <4>6, CommonWinnerIs
      <4>8. Spelling(U, b) = Spelling(V, b) \cup Spelling(W, b)
        BY <1>1 DEF Spelling
      <4>9. FirstSpelled(z, Spelling(V, b)) \/ FirstSpelled(z, Spelling(W, b))
        BY <4>7, <4>8 DEF FirstSpelled
      <4> QED BY <4>3, <4>4, <4>5, <4>9
    <3>2. CASE field.policy # "most_common"
      <4> HIDE DEF U, V, W
      <4>1. FirstRecord(z, U)
        BY <1>1, <2>1, <3>2, FirstRecordIs
      <4>2. FirstRecord(z, V) \/ FirstRecord(z, W)
        BY <1>1, <4>1 DEF FirstRecord
      <4> QED BY <1>1, <1>4, <3>2, <4>2, FirstRecordIs
    <3> QED BY <3>1, <3>2
  <2> QED BY <2>2, <2>3, <2>6
<1> QED BY <1>2, <1>3, <1>4

-----------------------------------------------------------------------------
(* With the directives of the stewards.                                    *)

DirectivesTyped == IsFiniteSet(directives) /\ \A d \in directives : d.at \in Nat

Active(M) == {d \in directives : d.anchor \in Considered(M)}

Given(M) == {d.raw : d \in Active(M)}

LEMMA OldestIs ==
  ASSUME DirectivesTyped, NEW A \in SUBSET directives, A # {}
  PROVE  (CHOOSE d \in A : \A e \in A : d.at <= e.at) \in A
<1> DEFINE times == {d.at : d \in A}
           f == [d \in A |-> d.at]
<1>1. IsFiniteSet(A)
  BY FS_Subset DEF DirectivesTyped
<1>2. IsFiniteSet(times)
  <2>1. f \in [A -> times] /\ \A t \in times : \E d \in A : f[d] = t
    OBVIOUS
  <2> HIDE DEF f, times
  <2> QED BY <1>1, <2>1, ImageBound
<1>3. times \in SUBSET Int /\ times # {}
  BY DEF DirectivesTyped
<1>4. Min(times) \in times /\ \A t \in times : Min(times) <= t
  <2> HIDE DEF times
  <2> QED BY <1>2, <1>3, MinIs
<1>5. \E d \in A : \A e \in A : d.at <= e.at
  <2>1. PICK d \in A : d.at = Min(times)
    BY <1>4
  <2>2. \A e \in A : e.at \in times
    OBVIOUS
  <2> HIDE DEF times
  <2> QED BY <1>4, <2>1, <2>2
<1> QED BY <1>5

\* Directives that agree give the value, directives that differ empty it, and
\* without any it is the policy's.
LEMMA SelectIs ==
  ASSUME DirectivesTyped, NEW M
  PROVE  /\ Active(M) = {} =>
              /\ Select(M).value = BuiltIn(Considered(M)).value
              /\ Select(M).winner = BuiltIn(Considered(M)).winner
              /\ Select(M).contributors = BuiltIn(Considered(M)).contributors
              /\ Select(M).status = BuiltIn(Considered(M)).status
         /\ \A v : Given(M) = {v} => Select(M).value = v
         /\ (\E v, w \in Given(M) : v # w) => Select(M).value = None
         /\ Active(M) # {} => Select(M).contributors = {d.anchor : d \in Active(M)}
<1> DEFINE A == Active(M)
           base == BuiltIn(Considered(M))
           oldest == CHOOSE d \in A : \A e \in A : d.at <= e.at
<1>1. CASE A = {}
  <2>1. PICK issues : Select(M) = [base EXCEPT !.issues = issues]
    BY <1>1 DEF Select, Active
  <2>2. \E v, s, w, c, i : base = [value |-> v, status |-> s, winner |-> w, contributors |-> c, issues |-> i]
    <3>1. CASE Valid(Considered(M)) = {}
      <4>1. \E i : base = [NoValue EXCEPT !.issues = i]
        BY <3>1 DEF BuiltIn
      <4> QED BY <4>1 DEF NoValue
    <3>2. CASE Valid(Considered(M)) # {}
      BY <3>2 DEF BuiltIn
    <3> QED BY <3>1, <3>2
  <2> HIDE DEF base
  <2>3. /\ Select(M).value = base.value /\ Select(M).winner = base.winner
        /\ Select(M).contributors = base.contributors /\ Select(M).status = base.status
    BY <2>1, <2>2
  <2> QED BY <1>1, <2>3 DEF Given, base
<1>2. CASE A # {} /\ \E d, e \in A : d.raw # e.raw
  <2>1. \E issues : Select(M) =
          [value |-> None, status |-> "override_conflict", winner |-> 0,
           contributors |-> {d.anchor : d \in A}, issues |-> issues]
    BY <1>2 DEF Select, Active
  <2>2. Select(M).value = None /\ Select(M).contributors = {d.anchor : d \in A}
    BY <2>1
  <2>3. \A v : Given(M) # {v}
    BY <1>2 DEF Given
  <2> QED BY <1>2, <2>2, <2>3
<1>3. CASE A # {} /\ ~ \E d, e \in A : d.raw # e.raw
  <2>1. \E issues : Select(M) =
          [value |-> oldest.raw, status |-> "override", winner |-> oldest.anchor,
           contributors |-> {d.anchor : d \in A}, issues |-> issues]
    BY <1>3 DEF Select, Active
  <2>2. Select(M).value = oldest.raw /\ Select(M).contributors = {d.anchor : d \in A}
    BY <2>1
  <2>3. oldest \in A
    <3>1. A \in SUBSET directives
      BY DEF Active
    <3> HIDE DEF A
    <3> QED BY <1>3, <3>1, OldestIs
  <2>4. oldest.raw \in Given(M) /\ ~ \E v, w \in Given(M) : v # w
    BY <1>3, <2>3 DEF Given
  <2> QED BY <1>3, <2>2, <2>4
<1> QED BY <1>1, <1>2, <1>3

\* The value depends on the directives of the members alone, if they have any.
LEMMA GivenDecides ==
  ASSUME DirectivesTyped, NEW M, NEW N, Given(M) = Given(N), Given(M) # {}
  PROVE  Select(M).value = Select(N).value
<1>1. CASE \E v, w \in Given(M) : v # w
  BY <1>1, SelectIs
<1>2. CASE ~ \E v, w \in Given(M) : v # w
  <2>1. PICK v : Given(M) = {v}
    <3>1. PICK v \in Given(M) : TRUE
      OBVIOUS
    <3>2. Given(M) = {v}
      BY <1>2, <3>1
    <3> QED BY <3>2
  <2> QED BY <2>1, SelectIs
<1> QED BY <1>1, <1>2

GoldenInv == field \in Fields /\ DirectivesTyped /\ written \in Nat

LEMMA SelectWithout ==
  ASSUME GoldenInv, NEW M \in SUBSET Records, NEW r, r \notin Select(M).contributors
  PROVE  Select(M \ {r}).value = Select(M).value
<1>1. /\ Considered(M \ {r}) = Considered(M) \ {r}
      /\ Considered(M) \in SUBSET Records
  BY DEF Considered
<1>2. DirectivesTyped /\ field \in Fields
  BY DEF GoldenInv
<1>3. CASE Active(M) = {}
  <2>1. Active(M \ {r}) = {}
    BY <1>1, <1>3 DEF Active
  <2>2. r \notin BuiltIn(Considered(M)).contributors
    BY <1>2, <1>3, SelectIs
  <2>3. BuiltIn(Considered(M) \ {r}).value = BuiltIn(Considered(M)).value
    BY <1>1, <1>2, <2>2, BuiltInWithout
  <2> QED BY <1>1, <1>2, <1>3, <2>1, <2>3, SelectIs
<1>4. CASE Active(M) # {}
  <2>1. \A d \in Active(M) : d.anchor # r
    BY <1>2, <1>4, SelectIs
  <2>2. Active(M \ {r}) = Active(M)
    BY <1>1, <2>1 DEF Active
  <2>3. Given(M \ {r}) = Given(M) /\ Given(M) # {}
    BY <1>4, <2>2 DEF Given
  <2> QED BY <1>2, <2>3, GivenDecides
<1> QED BY <1>3, <1>4

LEMMA SelectTogether ==
  ASSUME GoldenInv, NEW M \in SUBSET Records, NEW N \in SUBSET Records, M \cap N = {},
         Select(M).value = Select(N).value,
         Select(M).status = "selected" /\ Select(N).status = "selected"
           => row[Select(M).winner].bytes = row[Select(N).winner].bytes
  PROVE  Select(M \cup N).value = Select(M).value
<1>1. /\ Considered(M \cup N) = Considered(M) \cup Considered(N)
      /\ Considered(M) \in SUBSET Records /\ Considered(N) \in SUBSET Records
      /\ Considered(M) \cap Considered(N) = {}
  BY DEF Considered
<1>2. DirectivesTyped /\ field \in Fields
  BY DEF GoldenInv
<1>3. Active(M \cup N) = Active(M) \cup Active(N)
  BY <1>1 DEF Active
<1>4. /\ Given(M \cup N) = Given(M) \cup Given(N)
      /\ \A L : Given(L) = {} <=> Active(L) = {}
  BY <1>3 DEF Given
<1>5. CASE Given(M) = {} /\ Given(N) = {}
  <2>1. /\ Select(M).value = BuiltIn(Considered(M)).value
        /\ Select(N).value = BuiltIn(Considered(N)).value
        /\ Select(M \cup N).value = BuiltIn(Considered(M \cup N)).value
        /\ Select(M).status = BuiltIn(Considered(M)).status
        /\ Select(N).status = BuiltIn(Considered(N)).status
        /\ Select(M).winner = BuiltIn(Considered(M)).winner
        /\ Select(N).winner = BuiltIn(Considered(N)).winner
    <3>1. Active(M) = {} /\ Active(N) = {} /\ Active(M \cup N) = {}
      BY <1>3, <1>4, <1>5
    <3> QED BY <1>2, <3>1, SelectIs
  <2>2. BuiltIn(Considered(M)).value = BuiltIn(Considered(N)).value
    BY <2>1
  <2>3. Valid(Considered(M)) # {} /\ Valid(Considered(N)) # {} =>
          row[BuiltIn(Considered(M)).winner].bytes = row[BuiltIn(Considered(N)).winner].bytes
    <3>1. SUFFICES ASSUME Valid(Considered(M)) # {}, Valid(Considered(N)) # {}
                   PROVE  row[Select(M).winner].bytes = row[Select(N).winner].bytes
      BY <2>1
    <3>2. Select(M).status = "selected" /\ Select(N).status = "selected"
      BY <2>1, <3>1, BuiltInIs
    <3> QED BY <3>2
  <2>4. BuiltIn(Considered(M) \cup Considered(N)).value = BuiltIn(Considered(M)).value
    BY <1>1, <1>2, <2>2, <2>3, BuiltInTogether
  <2> QED BY <1>1, <2>1, <2>4
<1>6. CASE Given(M) = {} /\ Given(N) # {}
  <2>1. Given(M \cup N) = Given(N)
    BY <1>4, <1>6
  <2> QED BY <1>2, <1>6, <2>1, GivenDecides
<1>7. CASE Given(N) = {} /\ Given(M) # {}
  <2>1. Given(M \cup N) = Given(M)
    BY <1>4, <1>7
  <2> QED BY <1>2, <1>7, <2>1, GivenDecides
<1>8. CASE Given(M) # {} /\ Given(N) # {}
  <2>1. CASE \E v, w \in Given(M) : v # w
    <3>1. \E v, w \in Given(M \cup N) : v # w
      BY <1>4, <2>1
    <3> QED BY <1>2, <2>1, <3>1, SelectIs
  <2>2. CASE \E v, w \in Given(N) : v # w
    <3>1. \E v, w \in Given(M \cup N) : v # w
      BY <1>4, <2>2
    <3> QED BY <1>2, <2>2, <3>1, SelectIs
  <2>3. CASE ~(\E v, w \in Given(M) : v # w) /\ ~(\E v, w \in Given(N) : v # w)
    <3>1. PICK v : Given(M) = {v}
      <4>1. PICK v \in Given(M) : TRUE
        BY <1>8
      <4>2. Given(M) = {v}
        BY <2>3, <4>1
      <4> QED BY <4>2
    <3>2. PICK w : Given(N) = {w}
      <4>1. PICK w \in Given(N) : TRUE
        BY <1>8
      <4>2. Given(N) = {w}
        BY <2>3, <4>1
      <4> QED BY <4>2
    <3>3. v = w
      BY <1>2, <3>1, <3>2, SelectIs
    <3>4. Given(M \cup N) = {v}
      BY <1>4, <3>1, <3>2, <3>3
    <3> QED BY <1>2, <3>1, <3>4, SelectIs
  <2> QED BY <2>1, <2>2, <2>3
<1> QED BY <1>5, <1>6, <1>7, <1>8

LEMMA AgreementFollows ==
  ASSUME GoldenInv
  PROVE  AgreementSurvives
<1> DEFINE alive == {r \in Records : home[r] # None}
           cases == {[of |-> M, is |-> Select(M)] : M \in SUBSET alive}
           Keeps(M, v) == \E c \in cases : c.of = M /\ c.is.value = v
           Agree(c, d) ==
             /\ c.is.value = d.is.value
             /\ c.is.status = "selected" /\ d.is.status = "selected"
                  => row[c.is.winner].bytes = row[d.is.winner].bytes
<1>1. \A M, v : M \in SUBSET alive /\ Select(M).value = v => Keeps(M, v)
  <2>1. ASSUME NEW M \in SUBSET alive
        PROVE  Keeps(M, Select(M).value)
    <3> DEFINE c == [of |-> M, is |-> Select(M)]
    <3>1. c \in cases /\ c.of = M /\ c.is = Select(M)
      OBVIOUS
    <3> HIDE DEF c, cases
    <3> QED BY <3>1
  <2> QED BY <2>1
<1>2. \A c \in cases : c.of \in SUBSET alive /\ c.is = Select(c.of)
  OBVIOUS
<1>3. alive \subseteq Records
  OBVIOUS
<1> HIDE DEF cases, Keeps, alive
<1>4. ASSUME NEW c \in cases, NEW r \in c.of \ c.is.contributors
      PROVE  Keeps(c.of \ {r}, c.is.value)
  <2>1. c.of \in SUBSET Records /\ c.of \ {r} \in SUBSET alive
    BY <1>2, <1>3
  <2>2. Select(c.of \ {r}).value = Select(c.of).value
    BY <1>2, <2>1, SelectWithout
  <2> QED BY <1>1, <1>2, <2>1, <2>2
<1>5. ASSUME NEW c \in cases, NEW d \in cases, c.of \cap d.of = {}, Agree(c, d)
      PROVE  Keeps(c.of \cup d.of, c.is.value)
  <2>1. /\ c.of \in SUBSET Records /\ d.of \in SUBSET Records
        /\ c.of \cup d.of \in SUBSET alive
    BY <1>2, <1>3
  <2>2. /\ Select(c.of).value = Select(d.of).value
        /\ Select(c.of).status = "selected" /\ Select(d.of).status = "selected"
             => row[Select(c.of).winner].bytes = row[Select(d.of).winner].bytes
    BY <1>2, <1>5
  <2>3. Select(c.of \cup d.of).value = Select(c.of).value
    BY <1>5, <2>1, <2>2, SelectTogether
  <2> QED BY <1>1, <1>2, <2>1, <2>3
<1> QED BY <1>4, <1>5 DEF AgreementSurvives, cases, Keeps, alive

-----------------------------------------------------------------------------
(* The table of criteria.                                                  *)

RecordCriteria(n, V, criteria) ==
  /\ Len(criteria) = n
  /\ \A i \in 1 .. n :
       criteria[i] \in [V -> Int] /\ \A r \in V : criteria[i][r] = Rank(r)[i]
  /\ \A r \in V : DOMAIN Rank(r) = 1 .. n

LEMMA RecordCriteriaAre ==
  ASSUME field \in Fields, field.policy # "most_common", NEW V \in SUBSET Records
  PROVE  \E n \in {2, 3} : RecordCriteria(n, V, Criteria(V, WholeSeconds))
<1> DEFINE source == [r \in V |-> row[r].source]
           newest == [r \in V |-> -WholeSeconds[r]]
           key    == [r \in V |-> r]
<1>1. /\ source \in [V -> Int] /\ newest \in [V -> Int] /\ key \in [V -> Int]
      /\ \A r \in V : source[r] = row[r].source /\ newest[r] = -RowChangedAt(r) /\ key[r] = r
  BY FieldIs, ReadIs
<1>2. CASE field.policy = "prefer_source"
  <2>1. Criteria(V, WholeSeconds) = <<source, newest, key>>
    BY <1>2 DEF Criteria
  <2>2. \A r \in V : Rank(r) = <<row[r].source, -RowChangedAt(r), r>>
    BY <1>2 DEF Rank
  <2> HIDE DEF source, newest, key
  <2>3. RecordCriteria(3, V, Criteria(V, WholeSeconds))
    BY <1>1, <2>1, <2>2 DEF RecordCriteria
  <2> QED BY <2>3
<1>3. CASE field.policy = "latest"
  <2>1. Criteria(V, WholeSeconds) = <<newest, source, key>>
    BY <1>3 DEF Criteria
  <2>2. \A r \in V : Rank(r) = <<-RowChangedAt(r), row[r].source, r>>
    BY <1>3 DEF Rank
  <2> HIDE DEF source, newest, key
  <2>3. RecordCriteria(3, V, Criteria(V, WholeSeconds))
    BY <1>1, <2>1, <2>2 DEF RecordCriteria
  <2> QED BY <2>3
<1>4. CASE field.policy = "first_non_null"
  <2>1. Criteria(V, WholeSeconds) = <<source, key>>
    BY <1>4 DEF Criteria
  <2>2. \A r \in V : Rank(r) = <<row[r].source, r>>
    BY <1>4 DEF Rank, SourceOrder
  <2> HIDE DEF source, newest, key
  <2>3. RecordCriteria(2, V, Criteria(V, WholeSeconds))
    BY <1>1, <2>1, <2>2 DEF RecordCriteria
  <2> QED BY <2>3
<1> QED BY <1>2, <1>3, <1>4, FieldIs

CommonCriteria(V, criteria) ==
  /\ Len(criteria) = 6
  /\ \A i \in 1 .. 6 : criteria[i] \in [V -> Int]
  /\ \A r \in V :
       /\ \A i \in 1 .. 4 : criteria[i][r] = GroupRank(V, row[r].bytes)[i]
       /\ criteria[5][r] = SourceOrder(r)[1] /\ criteria[6][r] = SourceOrder(r)[2]

LEMMA CommonCriteriaAre ==
  ASSUME field \in Fields, field.policy = "most_common", NEW V \in SUBSET Records
  PROVE  CommonCriteria(V, Criteria(V, WholeSeconds))
<1> DEFINE alike == [r \in V |-> {s \in V : row[s].bytes = row[r].bytes}]
           c1 == [r \in V |-> -Cardinality(alike[r])]
           c2 == [r \in V |-> -Cardinality({s \in alike[r] : row[s].source \in field.authority})]
           c3 == [r \in V |-> Min({row[s].source : s \in alike[r]})]
           c4 == [r \in V |-> row[r].bytes]
           c5 == [r \in V |-> row[r].source]
           c6 == [r \in V |-> r]
<1>1. Criteria(V, WholeSeconds) = <<c1, c2, c3, c4, c5, c6>>
  BY DEF Criteria
<1>2. ASSUME NEW r \in V
      PROVE  /\ c1[r] = GroupRank(V, row[r].bytes)[1] /\ c2[r] = GroupRank(V, row[r].bytes)[2]
             /\ c3[r] = GroupRank(V, row[r].bytes)[3] /\ c4[r] = GroupRank(V, row[r].bytes)[4]
             /\ c5[r] = SourceOrder(r)[1] /\ c6[r] = SourceOrder(r)[2]
  <2> DEFINE b == row[r].bytes
  <2>1. alike[r] = Spelling(V, b)
    BY DEF Spelling
  <2>2. {s \in alike[r] : row[s].source \in field.authority} = Authoritative(Spelling(V, b))
    BY <2>1 DEF Authoritative
  <2>3. {row[s].source : s \in alike[r]} = Sources(V, b)
    BY <2>1 DEF Sources
  <2>4. /\ GroupRank(V, b)[1] = -Cardinality(Spelling(V, b))
        /\ GroupRank(V, b)[2] = -Cardinality(Authoritative(Spelling(V, b)))
        /\ GroupRank(V, b)[3] = Min(Sources(V, b)) /\ GroupRank(V, b)[4] = b
    BY GroupParts
  <2>5. /\ c1[r] = -Cardinality(Spelling(V, b))
        /\ c2[r] = -Cardinality(Authoritative(Spelling(V, b)))
        /\ c3[r] = Min(Sources(V, b)) /\ c4[r] = b
        /\ c5[r] = row[r].source /\ c6[r] = r
    BY <2>1, <2>2, <2>3
  <2>6. SourceOrder(r)[1] = row[r].source /\ SourceOrder(r)[2] = r
    BY DEF SourceOrder
  <2> QED BY <2>4, <2>5, <2>6
<1>3. ASSUME NEW r \in V
      PROVE  /\ c1[r] \in Int /\ c2[r] \in Int /\ c3[r] \in Int /\ c4[r] \in Int
             /\ c5[r] \in Int /\ c6[r] \in Int
  <2>1. row[r].bytes \in Values(V)
    BY DEF Values
  <2>2. GroupRank(V, row[r].bytes) \in [1 .. 4 -> Int] /\ SourceOrder(r) \in [1 .. 2 -> Int]
    BY <2>1, GroupRanks, SourceRanks
  <2> DEFINE a == GroupRank(V, row[r].bytes)
             o == SourceOrder(r)
  <2> HIDE DEF a, o, c1, c2, c3, c4, c5, c6
  <2>3. /\ a[1] \in Int /\ a[2] \in Int /\ a[3] \in Int /\ a[4] \in Int
        /\ o[1] \in Int /\ o[2] \in Int
    BY <2>2 DEF a, o
  <2> QED BY <1>2, <2>3 DEF a, o
<1>4. /\ c1 \in [V -> Int] /\ c2 \in [V -> Int] /\ c3 \in [V -> Int] /\ c4 \in [V -> Int]
      /\ c5 \in [V -> Int] /\ c6 \in [V -> Int]
  <2>1. ASSUME NEW g, g = [r \in V |-> g[r]], \A r \in V : g[r] \in Int
        PROVE  g \in [V -> Int]
    BY <2>1
  <2>2. /\ c1 = [r \in V |-> c1[r]] /\ c2 = [r \in V |-> c2[r]] /\ c3 = [r \in V |-> c3[r]]
        /\ c4 = [r \in V |-> c4[r]] /\ c5 = [r \in V |-> c5[r]] /\ c6 = [r \in V |-> c6[r]]
    OBVIOUS
  <2> HIDE DEF c1, c2, c3, c4, c5, c6
  <2> QED BY <1>3, <2>1, <2>2
<1> HIDE DEF c1, c2, c3, c4, c5, c6
<1> DEFINE criteria == <<c1, c2, c3, c4, c5, c6>>
<1>5. /\ Len(criteria) = 6 /\ criteria[1] = c1 /\ criteria[2] = c2 /\ criteria[3] = c3
      /\ criteria[4] = c4 /\ criteria[5] = c5 /\ criteria[6] = c6
  OBVIOUS
<1> HIDE DEF criteria
<1>6. \A i \in 1 .. 6 : criteria[i] \in [V -> Int]
  <2>1. \A i \in 1 .. 6 : i = 1 \/ i = 2 \/ i = 3 \/ i = 4 \/ i = 5 \/ i = 6
    OBVIOUS
  <2> QED BY <1>4, <1>5, <2>1
<1>7. ASSUME NEW r \in V
      PROVE  /\ \A i \in 1 .. 4 : criteria[i][r] = GroupRank(V, row[r].bytes)[i]
             /\ criteria[5][r] = SourceOrder(r)[1] /\ criteria[6][r] = SourceOrder(r)[2]
  <2>1. \A i \in 1 .. 4 : i = 1 \/ i = 2 \/ i = 3 \/ i = 4
    OBVIOUS
  <2> QED BY <1>2, <1>5, <2>1
<1>8. CommonCriteria(V, criteria)
  BY <1>5, <1>6, <1>7 DEF CommonCriteria
<1> QED BY <1>1, <1>8 DEF criteria

\* Of the records a policy may choose from, its criteria leave the winner.
LEMMA CriteriaLeave ==
  ASSUME field \in Fields, NEW V \in SUBSET Records, V # {}
  PROVE  Staged(V, Criteria(V, WholeSeconds)) = {Winner(V)}
<1> DEFINE criteria == Criteria(V, WholeSeconds)
           w == Winner(V)
<1>1. w \in V
  BY WinnerIsValid
<1>2. CASE field.policy # "most_common"
  <2>1. PICK n \in {2, 3} : RecordCriteria(n, V, criteria)
    BY <1>2, RecordCriteriaAre
  <2>2. FirstRecord(w, V)
    BY <1>2, FirstRecordIs
  <2> HIDE DEF w, criteria
  <2>3. n \in Nat /\ Len(criteria) = n /\ \A i \in 1 .. n : criteria[i] \in [V -> Int]
    BY <2>1 DEF RecordCriteria
  <2>4. ASSUME NEW s \in V \ {w}
        PROVE  \E i \in 1 .. n : /\ criteria[i][w] < criteria[i][s]
                                 /\ \A j \in 1 .. (i - 1) : criteria[j][w] = criteria[j][s]
    <3>1. Precedes(Rank(w), Rank(s)) /\ DOMAIN Rank(w) = 1 .. n
      BY <1>1, <2>1, <2>2 DEF FirstRecord, RecordCriteria
    <3>2. PICK i \in 1 .. n : /\ Rank(w)[i] < Rank(s)[i]
                              /\ \A j \in 1 .. (i - 1) : Rank(w)[j] = Rank(s)[j]
      BY <3>1 DEF Precedes
    <3>3. \A j \in 1 .. n : criteria[j][w] = Rank(w)[j] /\ criteria[j][s] = Rank(s)[j]
      BY <1>1, <2>1 DEF RecordCriteria
    <3>4. \A j \in 1 .. (i - 1) : j \in 1 .. n
      OBVIOUS
    <3> QED BY <3>2, <3>3, <3>4
  <2>5. Staged(V, criteria) = {w}
    <3>1. Numeric(n, V, criteria) /\ Decided(w, n, V, criteria)
      BY <2>3, <2>4 DEF Numeric, Decided
    <3> QED BY <1>1, <2>3, <3>1, StagedIs
  <2> QED BY <2>5 DEF w, criteria
<1>3. CASE field.policy = "most_common"
  <2>1. PICK b : FirstValue(b, V)
    BY FirstValueIs
  <2>2. row[w].bytes = b /\ FirstSpelled(w, Spelling(V, b))
    BY <1>3, <2>1, CommonWinnerIs
  <2>3. CommonCriteria(V, criteria)
    BY <1>3, CommonCriteriaAre
  <2> HIDE DEF w, criteria
  <2>4. Len(criteria) = 6 /\ \A i \in 1 .. 6 : criteria[i] \in [V -> Int]
    BY <2>3 DEF CommonCriteria
  <2>5. ASSUME NEW s \in V \ {w}
        PROVE  \E i \in 1 .. 6 : /\ criteria[i][w] < criteria[i][s]
                                 /\ \A j \in 1 .. (i - 1) : criteria[j][w] = criteria[j][s]
    <3> DEFINE u == row[s].bytes
               x == GroupRank(V, b)
               y == GroupRank(V, u)
    <3>1. \A j \in 1 .. 4 : criteria[j][w] = x[j] /\ criteria[j][s] = y[j]
      BY <1>1, <2>2, <2>3 DEF CommonCriteria
    <3>2. CASE u # b
      <4>1. Precedes(x, y) /\ DOMAIN x = 1 .. 4
        BY <2>1, <3>2, GroupParts DEF FirstValue, Values
      <4> HIDE DEF x, y
      <4>2. PICK i \in 1 .. 4 : x[i] < y[i] /\ \A j \in 1 .. (i - 1) : x[j] = y[j]
        BY <4>1 DEF Precedes
      <4>3. \A j \in 1 .. (i - 1) : j \in 1 .. 4
        OBVIOUS
      <4>4. i \in 1 .. 6
        OBVIOUS
      <4> QED BY <3>1, <4>2, <4>3, <4>4
    <3>3. CASE u = b
      <4>1. s \in Spelling(V, b) \ {w}
        BY <3>3 DEF Spelling
      <4>2. Precedes(SourceOrder(w), SourceOrder(s))
        BY <2>2, <4>1 DEF FirstSpelled
      <4>3. /\ criteria[5][w] = SourceOrder(w)[1] /\ criteria[6][w] = SourceOrder(w)[2]
            /\ criteria[5][s] = SourceOrder(s)[1] /\ criteria[6][s] = SourceOrder(s)[2]
        BY <1>1, <2>3 DEF CommonCriteria
      <4>4. DOMAIN SourceOrder(w) = 1 .. 2
        BY DEF SourceOrder
      <4>5. \/ criteria[5][w] < criteria[5][s]
            \/ criteria[5][w] = criteria[5][s] /\ criteria[6][w] < criteria[6][s]
        BY <4>2, <4>3, <4>4, Precedes2
      <4>6. \A j \in 1 .. 4 : criteria[j][w] = criteria[j][s]
        BY <3>1, <3>3
      <4>7. CASE criteria[5][w] < criteria[5][s]
        <5>1. 5 \in 1 .. 6 /\ 1 .. (5 - 1) = 1 .. 4
          OBVIOUS
        <5> QED BY <4>6, <4>7, <5>1
      <4>8. CASE criteria[5][w] = criteria[5][s] /\ criteria[6][w] < criteria[6][s]
        <5>1. 6 \in 1 .. 6 /\ \A j \in 1 .. (6 - 1) : j \in 1 .. 4 \/ j = 5
          OBVIOUS
        <5> QED BY <4>6, <4>8, <5>1
      <4> QED BY <4>5, <4>7, <4>8
    <3> QED BY <3>2, <3>3
  <2>6. Staged(V, criteria) = {w}
    <3>1. Numeric(6, V, criteria) /\ Decided(w, 6, V, criteria)
      BY <2>4, <2>5 DEF Numeric, Decided
    <3>2. 6 \in Nat
      OBVIOUS
    <3> QED BY <1>1, <3>1, <3>2, StagedIs
  <2> QED BY <2>6 DEF w, criteria
<1> QED BY <1>2, <1>3

-----------------------------------------------------------------------------
(* Publications and stewards.                                              *)

LEMMA InitGolden == GoldenInit => GoldenInv
BY FS_EmptySet DEF GoldenInit, GoldenInv, DirectivesTyped

LEMMA StepGolden == GoldenInv /\ [GoldenNext]_goldenVars => GoldenInv'
<1> SUFFICES ASSUME GoldenInv, [GoldenNext]_goldenVars PROVE GoldenInv'
  OBVIOUS
<1>0. field \in Fields /\ DirectivesTyped /\ written \in Nat
  BY DEF GoldenInv
<1>1. CASE Publish
  BY <1>0, <1>1 DEF Publish, GoldenInv, DirectivesTyped
<1>2. ASSUME NEW r \in Records, NEW raw \in Raws, Override(r, raw)
      PROVE  GoldenInv'
  <2> DEFINE kept == {d \in directives : d.anchor # r}
             new == [anchor |-> r, raw |-> raw, at |-> written + 1]
  <2>1. directives' = kept \cup {new} /\ written' = written + 1 /\ field' = field
    BY <1>2 DEF Override
  <2>2. IsFiniteSet(kept) /\ kept \subseteq directives
    BY <1>0, FS_Subset DEF DirectivesTyped
  <2>3. IsFiniteSet(kept \cup {new})
    BY <2>2, FS_AddElement
  <2>4. new.at = written + 1 /\ written + 1 \in Nat
    BY <1>0
  <2> HIDE DEF kept, new
  <2>5. \A d \in directives' : d.at \in Nat
    BY <1>0, <2>1, <2>2, <2>4 DEF DirectivesTyped
  <2> QED BY <1>0, <2>1, <2>3, <2>4, <2>5 DEF GoldenInv, DirectivesTyped
<1>3. ASSUME NEW r \in Records, ClearOverride(r)
      PROVE  GoldenInv'
  <2>1. directives' \subseteq directives /\ written' = written /\ field' = field
    BY <1>3 DEF ClearOverride
  <2>2. IsFiniteSet(directives')
    BY <1>0, <2>1, FS_Subset DEF DirectivesTyped
  <2> QED BY <1>0, <2>1, <2>2 DEF GoldenInv, DirectivesTyped
<1>4. CASE UNCHANGED goldenVars
  BY <1>0, <1>4 DEF goldenVars, GoldenInv, DirectivesTyped
<1> QED BY <1>1, <1>2, <1>3, <1>4 DEF GoldenNext

LEMMA StepDocumented ==
  GoldenInv /\ [GoldenNext]_goldenVars => PublishedByTable(WholeSeconds, JsonValues)
<1> SUFFICES ASSUME GoldenInv, [GoldenNext]_goldenVars, golden' # golden,
                    NEW i \in DOMAIN golden'
             PROVE  LET R     == {r \in Records : home'[r] = i /\ row[r].source \in field.sources}
                        given == {d.raw : d \in {e \in directives : e.anchor \in R}}
                        fit   == Accepted(R, WholeSeconds, JsonValues)
                        left  == Staged(fit, Criteria(fit, WholeSeconds))
                    IN  IF given # {}
                        THEN golden'[i].value = IF Cardinality(given) = 1
                                                THEN CHOOSE v \in given : TRUE ELSE None
                        ELSE IF fit = {} THEN golden'[i].value = None
                        ELSE \E r \in fit :
                               /\ left = {r} /\ golden'[i].winner = r
                               /\ golden'[i].value = JsonValues[r]
                               /\ golden'[i].contributors = {s \in fit : row[s].bytes = row[r].bytes}
  BY DEF PublishedByTable
<1>0. field \in Fields /\ DirectivesTyped
  BY DEF GoldenInv
<1>1. PICK h \in Reached(home) :
        home' = h /\ golden' = [k \in ActiveIn(h) |-> Select(Members(h, k))]
  BY DEF GoldenNext, Publish, Override, ClearOverride, goldenVars
<1> DEFINE M == Members(h, i)
           R == {r \in Records : home'[r] = i /\ row[r].source \in field.sources}
           given == {d.raw : d \in {e \in directives : e.anchor \in R}}
           fit == Accepted(R, WholeSeconds, JsonValues)
<1>2. golden'[i] = Select(M)
  BY <1>1
<1>3. R = Considered(M)
  BY <1>1 DEF Considered, Members
<1> HIDE DEF M
<1>4. given = Given(M) /\ (given = {} <=> Active(M) = {})
  BY <1>3 DEF Given, Active
<1>5. fit = Valid(R) /\ fit \in SUBSET Records
  <2>1. R \in SUBSET Records
    OBVIOUS
  <2>2. \A r \in R : /\ WholeSeconds[r] = RowChangedAt(r) /\ RowChangedAt(r) \in Nat
                     /\ JsonValues[r] = RawValue(r)
    BY <1>0, <2>1, FieldIs, ReadIs
  <2> HIDE DEF R
  <2> QED BY <2>1, <2>2 DEF Accepted, Valid, Usable
<1> HIDE DEF R, given, fit
<1>6. CASE given # {}
  <2>1. IsFiniteSet(given)
    <3> DEFINE f == [d \in Active(M) |-> d.raw]
    <3>1. IsFiniteSet(Active(M))
      BY <1>0, FS_Subset DEF DirectivesTyped, Active
    <3>2. f \in [Active(M) -> Given(M)] /\ \A t \in Given(M) : \E d \in Active(M) : f[d] = t
      BY DEF Given
    <3> HIDE DEF f
    <3> QED BY <1>4, <3>1, <3>2, ImageBound
  <2>2. CASE Cardinality(given) = 1
    <3>1. PICK v : given = {v}
      BY <2>1, <2>2, FS_Singleton
    <3>2. (CHOOSE x \in given : TRUE) = v
      BY <3>1
    <3>3. Select(M).value = v
      BY <1>0, <1>4, <3>1, SelectIs
    <3> QED BY <1>2, <1>6, <2>2, <3>2, <3>3 DEF R, given
  <2>3. CASE Cardinality(given) # 1
    <3>1. \E v, w \in given : v # w
      <4>1. PICK v \in given : TRUE
        BY <1>6
      <4>2. given # {v}
        BY <2>3, FS_Singleton
      <4> QED BY <4>1, <4>2
    <3>2. Select(M).value = None
      BY <1>0, <1>4, <3>1, SelectIs
    <3> QED BY <1>2, <1>6, <2>3, <3>2 DEF R, given
  <2> QED BY <2>2, <2>3
<1>7. CASE given = {}
  <2>1. /\ Select(M).value = BuiltIn(R).value /\ Select(M).winner = BuiltIn(R).winner
        /\ Select(M).contributors = BuiltIn(R).contributors
    BY <1>0, <1>3, <1>4, <1>7, SelectIs
  <2>2. CASE fit = {}
    <3>1. golden'[i].value = None
      BY <1>2, <1>5, <2>1, <2>2, BuiltInIs
    <3> QED BY <1>7, <2>2, <3>1 DEF R, given, fit
  <2>3. CASE fit # {}
    <3> DEFINE w == Winner(fit)
    <3>1. w \in fit /\ Staged(fit, Criteria(fit, WholeSeconds)) = {w}
      BY <1>0, <1>5, <2>3, WinnerIsValid, CriteriaLeave
    <3>2. /\ golden'[i].winner = w /\ golden'[i].value = JsonValues[w]
          /\ golden'[i].contributors = Spelling(fit, row[w].bytes)
      <4>1. JsonValues[w] = RawValue(w)
        BY <1>5, <3>1, ReadIs
      <4> QED BY <1>2, <1>5, <2>1, <2>3, <4>1, BuiltInIs
    <3>3. Spelling(fit, row[w].bytes) = {s \in fit : row[s].bytes = row[w].bytes}
      BY DEF Spelling
    <3> HIDE DEF w
    <3>4. \E r \in fit :
            /\ Staged(fit, Criteria(fit, WholeSeconds)) = {r} /\ golden'[i].winner = r
            /\ golden'[i].value = JsonValues[r]
            /\ golden'[i].contributors = {s \in fit : row[s].bytes = row[r].bytes}
      BY <3>1, <3>2, <3>3
    <3> QED BY <1>7, <2>3, <3>4 DEF R, given, fit
  <2> QED BY <2>2, <2>3
<1> QED BY <1>6, <1>7

\* For all fields, memberships and directives: two entities with the same
\* value, in one normalized form, keep it when they merge, and a value outlives
\* the departure of records that did not contribute to it (golden.rs).
THEOREM ValuesSurvive == GoldenSpec => []AgreementSurvives
<1>1. GoldenInit => GoldenInv
  BY InitGolden
<1>2. GoldenInv /\ [GoldenNext]_goldenVars => GoldenInv'
  BY StepGolden
<1>3. GoldenInv => AgreementSurvives
  BY AgreementFollows
<1> QED BY <1>1, <1>2, <1>3, PTL DEF GoldenSpec

\* Every publication gives every identity the value that the table of the
\* policies gives for its members, with change times compared to the second
\* and texts read as JSON (load_golden_rows_scope), or what its stewards agree
\* on (select_golden).
THEOREM SelectsByTheTable == GoldenSpec => SelectionBySeconds
<1>1. GoldenInit => GoldenInv
  BY InitGolden
<1>2. GoldenInv /\ [GoldenNext]_goldenVars => GoldenInv'
  BY StepGolden
<1>3. GoldenInv /\ [GoldenNext]_goldenVars => PublishedByTable(WholeSeconds, JsonValues)
  BY StepDocumented
<1> QED BY <1>1, <1>2, <1>3, PTL DEF GoldenSpec, SelectionBySeconds
=============================================================================
