--------------------------- MODULE Reviews_proofs ---------------------------
(***************************************************************************)
(* Proofs about Reviews for every finite set of records, ids and fields,   *)
(* any worlds, and any number of publications, decisions and definitions.  *)
(*                                                                         *)
(* A part cuts no issue: whatever it finds or no longer finds is about     *)
(* records and ids whose reviews are loaded with it, and the rest of the   *)
(* issues is as before.  Everything a publication writes follows from the  *)
(* reviews of the part and the rows of the part in the same way.           *)
(***************************************************************************)
EXTENDS Reviews, FiniteSetTheorems, NaturalsInduction, WellFoundedInduction, TLAPS

-----------------------------------------------------------------------------
(* The inductive invariant.                                                *)

OpenOf(rows) ==
  {[key |-> row.key, summary |-> row.summary] : row \in {r \in rows : r.status = "open"}}

\* The open reviews are the issues of the last world, under the definition it
\* was evaluated with and under the one last observed.
OpenIs ==
  /\ OpenOf(reviews) = Candidates(truth.world, Records, truth.version)
  /\ OpenOf(reviews) = Candidates(truth.world, Records, seen.version)

\* Reviews are of the past and about ids that were given.
Timed(rows, rev, given) ==
  \A row \in rows :
    /\ row.opened <= rev /\ row.resolved <= rev /\ row.changed <= rev
    /\ row.occurrence <= row.opened
    /\ row.key.id \in given \cup {0}
    /\ row.resolved # 0 <=> row.status = "resolved"

OneRow(rows) == \A a, b \in rows : SameReview(a, b) => a = b

\* Of the same issue, what came earlier was resolved before.
Ordered(rows) ==
  \A row, next \in rows :
    next.key = row.key /\ next # row /\ next.occurrence >= row.occurrence =>
      row.status = "resolved" /\ row.resolved < next.opened

Gapless(rows) ==
  \A row \in rows : \A n \in 1 .. row.occurrence :
    \E before \in rows : before.key = row.key /\ before.occurrence = n

\* The memberships are those of the last world.
MembersMirror ==
  \A r \in Records :
    /\ truth.world.at[r] = IF memberships[r].active THEN memberships[r].id ELSE 0
    /\ memberships[r].active => memberships[r].id # 0
    /\ memberships[r].id \in registry \cup {0}

At == truth.world.at
TruthIds == {At[r] : r \in Records} \ {0}
Shape(rows) == {[row EXCEPT !.summary = "issue"] : row \in rows}

\* The parts of OutputsMirror, at every revision.
EntityMirror ==
  /\ DOMAIN outEntity = TruthIds
  /\ \A m \in TruthIds :
       /\ DOMAIN outEntity[m] = {"gold", "count", "has_review", "changed"}
       /\ outEntity[m].gold = [f \in Fields |-> truth.world.gold[<<m, f>>]]
       /\ outEntity[m].count = Cardinality({r \in Records : At[r] = m})
       /\ outEntity[m].has_review = \E row \in reviews : row.status = "open"
ValuesMirror ==
  /\ provenance = [pos \in TruthIds \X Fields |-> truth.world.gold[pos]]
  /\ facts = truth.world.facts
RowsMirror ==
  /\ outMembers = [r \in {q \in Records : memberships[q] # NoRow} |-> memberships[r]]
  /\ Shape(outReviews) = Shape(reviews)
CasesMirror ==
  /\ DOMAIN cases = {CaseOf(row) : row \in reviews}
  /\ \A row \in reviews :
       LET case == cases[CaseOf(row)]
       IN  /\ case.status = row.status
           /\ case.review_version = row.version /\ case.revision = row.changed

\* As long as no review was written over another one.
IInv ==
  /\ TypeOK /\ IsFiniteSet(reviews)
  /\ nil \subseteq {CaseOf(row) : row \in reviews}
  /\ OpenIs
  /\ Timed(reviews, revision, registry) /\ OneRow(reviews)
  /\ Ordered(reviews) /\ Gapless(reviews)
  /\ MembersMirror /\ EntityMirror /\ ValuesMirror /\ RowsMirror /\ CasesMirror

\* After a review was written over another one there is no refresh.
SInv == TypeOK /\ (IdsSufficed => IInv)

-----------------------------------------------------------------------------
(* Issues.                                                                 *)

IdsOf(w, S) == {w.at[r] : r \in S} \ {0}

CandidateRows == [key : IssueKeys, summary : Summaries \cup {"issue"}]

PairIssue(w, v, p, c) ==
  w.facts[p] \in Summaries /\ c = [key |-> PairKey(v, p), summary |-> w.facts[p]]
GoldIssue(w, v, m, f, c) ==
  w.gold[<<m, f>>] = 0 /\ c = [key |-> GoldenKey(v, m, f), summary |-> "issue"]

\* An issue is about a pair or about a golden value.
LEMMA CandidateIs ==
  ASSUME NEW w, NEW S, NEW v, NEW c
  PROVE  c \in Candidates(w, S, v) <=>
           \/ \E p \in Within(S) : PairIssue(w, v, p, c)
           \/ \E m \in IdsOf(w, S), f \in Fields : GoldIssue(w, v, m, f, c)
<1> DEFINE ids == IdsOf(w, S)
           pairs == {p \in Within(S) : w.facts[p] \in Summaries}
           golds == {pos \in ids \X Fields : w.gold[pos] = 0}
           Row(pos) == [key |-> GoldenKey(v, pos[1], pos[2]), summary |-> "issue"]
<1>1. Candidates(w, S, v) =
        {[key |-> PairKey(v, p), summary |-> w.facts[p]] : p \in pairs}
          \cup {Row(pos) : pos \in golds}
  BY DEF Candidates, IdsOf
<1>2. ASSUME NEW m \in ids, NEW f \in Fields, GoldIssue(w, v, m, f, c)
      PROVE  <<m, f>> \in golds /\ c = Row(<<m, f>>)
  BY <1>2 DEF GoldIssue
<1>3. ASSUME NEW pos \in golds, c = Row(pos)
      PROVE  pos[1] \in ids /\ pos[2] \in Fields /\ GoldIssue(w, v, pos[1], pos[2], c)
  <2>1. pos = <<pos[1], pos[2]>> /\ pos[1] \in ids /\ pos[2] \in Fields
    OBVIOUS
  <2> QED BY <1>3, <2>1 DEF GoldIssue
<1>4. c \in {[key |-> PairKey(v, p), summary |-> w.facts[p]] : p \in pairs} <=>
        \E p \in Within(S) : PairIssue(w, v, p, c)
  BY DEF PairIssue
<1>5. c \in {Row(pos) : pos \in golds} <=>
        \E m \in ids, f \in Fields : GoldIssue(w, v, m, f, c)
  <2> HIDE DEF golds, ids, Row
  <2> QED BY <1>2, <1>3
<1> HIDE DEF pairs, golds, Row
<1> QED BY <1>1, <1>4, <1>5

\* The key of an issue says what it is about.
LEMMA KeyIs ==
  /\ \A p \in Pairs : \A v :
       /\ PairKey(v, p).records = {p[1], p[2]} /\ PairKey(v, p).id = 0
       /\ PairKey(v, p).version = v
  /\ \A m \in Ids : \A f, v :
       /\ GoldenKey(v, m, f).records = {} /\ GoldenKey(v, m, f).id = m /\ m # 0
       /\ GoldenKey(v, m, f).version = v /\ GoldenKey(v, m, f).field = f
  /\ \A p, q \in Pairs : \A u, v : PairKey(v, p) = PairKey(u, q) => p = q /\ v = u
  /\ \A m, n \in Ids : \A f, g, u, v :
       GoldenKey(v, m, f) = GoldenKey(u, n, g) => m = n /\ f = g /\ v = u
  /\ \A p \in Pairs, m \in Ids : \A u, v, f : PairKey(v, p) # GoldenKey(u, m, f)
<1>1. \A p \in Pairs : \A v :
        /\ PairKey(v, p).records = {p[1], p[2]} /\ PairKey(v, p).id = 0
        /\ PairKey(v, p).version = v
  BY DEF PairKey
<1>2. \A m \in Ids : \A f, v :
        /\ GoldenKey(v, m, f).records = {} /\ GoldenKey(v, m, f).id = m /\ m # 0
        /\ GoldenKey(v, m, f).version = v /\ GoldenKey(v, m, f).field = f
  BY WorldsAssumption DEF GoldenKey
<1>3. ASSUME NEW p \in Pairs, NEW q \in Pairs, NEW u, NEW v, PairKey(v, p) = PairKey(u, q)
      PROVE  p = q /\ v = u
  <2>1. /\ p \in Records \X Records /\ q \in Records \X Records /\ p[1] < p[2] /\ q[1] < q[2]
        /\ p[1] \in Nat /\ p[2] \in Nat /\ q[1] \in Nat /\ q[2] \in Nat
    BY WorldsAssumption DEF Pairs
  <2>2. {p[1], p[2]} = {q[1], q[2]} /\ v = u
    BY <1>1, <1>3
  <2>3. p[1] = q[1] /\ p[2] = q[2]
    BY <2>1, <2>2
  <2> QED BY <2>1, <2>2, <2>3
<1>4. \A m, n \in Ids : \A f, g, u, v :
        GoldenKey(v, m, f) = GoldenKey(u, n, g) => m = n /\ f = g /\ v = u
  BY <1>2
<1>5. \A p \in Pairs, m \in Ids : \A u, v, f : PairKey(v, p) # GoldenKey(u, m, f)
  BY <1>1, <1>2
<1> QED BY <1>1, <1>2, <1>3, <1>4, <1>5

LEMMA WorldIs ==
  ASSUME NEW w \in WorldType, NEW S \in SUBSET Records
  PROVE  /\ IdsOf(w, S) \subseteq Ids /\ IsFiniteSet(IdsOf(w, S))
         /\ \A r \in Records : w.at[r] \in Ids \cup {0}
         /\ \A r \in S : w.at[r] # 0 => w.at[r] \in IdsOf(w, S)
         /\ DOMAIN w.at = Records /\ DOMAIN w.gold = Ids \X Fields /\ DOMAIN w.facts = Pairs
         /\ \A p \in Pairs : w.facts[p] \in Summaries \cup {"none", "accepted"}
         /\ 0 \notin Ids
<1>1. w.at \in [Records -> Ids \cup {0}] /\ w.gold \in [Ids \X Fields -> Nat]
      /\ w.facts \in [Pairs -> Summaries \cup {"none", "accepted"}]
  BY DEF WorldType
<1>2. IdsOf(w, S) \in SUBSET Ids
  BY <1>1 DEF IdsOf
<1>3. IsFiniteSet(IdsOf(w, S))
  BY <1>2, WorldsAssumption, FS_Subset
<1>4. \A r \in S : w.at[r] # 0 => w.at[r] \in IdsOf(w, S)
  BY DEF IdsOf
<1> QED BY <1>1, <1>2, <1>3, <1>4, WorldsAssumption

\* The issues of a part: one for each key, finitely many, of the definition.
LEMMA CandidatesAre ==
  ASSUME NEW w \in WorldType, NEW S \in SUBSET Records, NEW v \in 1 .. MaxVersion
  PROVE  /\ Candidates(w, S, v) \subseteq CandidateRows
         /\ \A c, d \in Candidates(w, S, v) : c.key = d.key => c = d
         /\ \A c \in Candidates(w, S, v) : c.key.version = v /\ c.key.id \in IdsOf(w, S) \cup {0}
<1>0. IdsOf(w, S) \subseteq Ids /\ Within(S) \subseteq Pairs
  BY WorldIs DEF Within
<1>1. ASSUME NEW c \in Candidates(w, S, v)
      PROVE  c \in CandidateRows /\ c.key.version = v /\ c.key.id \in IdsOf(w, S) \cup {0}
  <2>1. ASSUME NEW p \in Within(S), PairIssue(w, v, p, c)
        PROVE  c \in CandidateRows /\ c.key.version = v /\ c.key.id \in IdsOf(w, S) \cup {0}
    <3>1. p \in Pairs /\ p[1] \in Records /\ p[2] \in Records
      BY <1>0 DEF Pairs
    <3>2. PairKey(v, p) \in IssueKeys
      BY <3>1 DEF PairKey, IssueKeys
    <3>3. c.key = PairKey(v, p) /\ c.summary = w.facts[p] /\ c = [key |-> c.key, summary |-> c.summary]
      BY <2>1 DEF PairIssue
    <3>4. w.facts[p] \in Summaries
      BY <2>1 DEF PairIssue
    <3> QED BY <3>1, <3>2, <3>3, <3>4, KeyIs DEF CandidateRows
  <2>2. ASSUME NEW m \in IdsOf(w, S), NEW f \in Fields, GoldIssue(w, v, m, f, c)
        PROVE  c \in CandidateRows /\ c.key.version = v /\ c.key.id \in IdsOf(w, S) \cup {0}
    <3>1. GoldenKey(v, m, f) \in IssueKeys
      BY <1>0 DEF GoldenKey, IssueKeys
    <3>2. c.key = GoldenKey(v, m, f) /\ c.summary = "issue" /\ c = [key |-> c.key, summary |-> c.summary]
      BY <2>2 DEF GoldIssue
    <3> QED BY <1>0, <3>1, <3>2, KeyIs DEF CandidateRows
  <2> QED BY <2>1, <2>2, CandidateIs
<1>2. ASSUME NEW c \in Candidates(w, S, v), NEW d \in Candidates(w, S, v), c.key = d.key
      PROVE  c = d
  <2>1. \A x \in Candidates(w, S, v) :
          \/ \E p \in Pairs : PairIssue(w, v, p, x)
          \/ \E m \in Ids, f \in Fields : GoldIssue(w, v, m, f, x)
    BY <1>0, CandidateIs
  <2>2. \A x, p : PairIssue(w, v, p, x) => x.key = PairKey(v, p)
    BY DEF PairIssue
  <2>3. \A x, m, f : GoldIssue(w, v, m, f, x) => x.key = GoldenKey(v, m, f)
    BY DEF GoldIssue
  <2>4. \A p, q \in Pairs : PairIssue(w, v, p, c) /\ PairIssue(w, v, q, d) => c = d
    <3>1. \A p : PairIssue(w, v, p, c) /\ PairIssue(w, v, p, d) => c = d
      BY DEF PairIssue
    <3> QED BY <1>2, <2>2, <3>1, KeyIs
  <2>5. \A m, n \in Ids, f, g \in Fields :
          GoldIssue(w, v, m, f, c) /\ GoldIssue(w, v, n, g, d) => c = d
    <3>1. \A m, f : GoldIssue(w, v, m, f, c) /\ GoldIssue(w, v, m, f, d) => c = d
      BY DEF GoldIssue
    <3> QED BY <1>2, <2>3, <3>1, KeyIs
  <2>6. \A p \in Pairs, m \in Ids, f \in Fields :
          ~(PairIssue(w, v, p, c) /\ GoldIssue(w, v, m, f, d))
            /\ ~(PairIssue(w, v, p, d) /\ GoldIssue(w, v, m, f, c))
    BY <1>2, <2>2, <2>3, KeyIs
  <2> QED BY <2>1, <2>4, <2>5, <2>6
<1> QED BY <1>1, <1>2

-----------------------------------------------------------------------------
(* The part of an evaluation.                                              *)

\* What lies outside the part has not changed, and no id, former id or fact
\* crosses its border.
PartOk(w, S) ==
  /\ \A r \in Records \ S : w.at[r] = At[r]
  /\ \A r \in S, q \in Records : w.at[r] # 0 /\ w.at[q] = w.at[r] => q \in S
  /\ \A r \in S, q \in Records :
       memberships[r].id # 0 /\ memberships[q].id = memberships[r].id => q \in S
  /\ \A p \in Pairs \ Within(S) : w.facts[p] = truth.world.facts[p]
  /\ \A p \in Pairs \ Within(S) :
       w.facts[p] \in Summaries => p[1] \notin S /\ p[2] \notin S
  /\ \A r \in Records \ S, f \in Fields :
       w.at[r] # 0 => w.gold[<<w.at[r], f>>] = truth.world.gold[<<w.at[r], f>>]
  /\ S # Records => seen.version = version

LEMMA PartIs ==
  ASSUME IInv, NEW w \in WorldType, NEW S \in SUBSET Records, Scoped(w, S)
  PROVE  PartOk(w, S)
<1>0. truth.world \in WorldType
  BY DEF IInv, TypeOK
<1>1. CASE S = Records
  <2>1. Within(S) = Pairs
    BY <1>1 DEF Within, Pairs
  <2> QED BY <1>1, <2>1 DEF PartOk
<1>2. CASE S # Records
  <2>1. seen.version = version /\ Affects(w, S)
    BY <1>2 DEF Scoped
  <2>2. \A r \in Records \ S : w.at[r] = At[r]
    BY <2>1 DEF Affects, IInv, MembersMirror, At
  <2>3. \A r \in S, q \in Records : w.at[r] # 0 /\ w.at[q] = w.at[r] => q \in S
    BY <2>1 DEF Affects
  <2>4. \A r \in S, q \in Records :
          memberships[r].id # 0 /\ memberships[q].id = memberships[r].id => q \in S
    BY <2>1 DEF Affects, Closed
  <2>5. \A p \in Pairs \ Within(S) : w.facts[p] = truth.world.facts[p]
    BY <2>1 DEF Affects, IInv, ValuesMirror
  <2>6. ASSUME NEW p \in Pairs \ Within(S), w.facts[p] \in Summaries
        PROVE  p[1] \notin S /\ p[2] \notin S
    <3>1. w.facts[p] # "none"
      BY <2>6, WorldsAssumption
    <3>2. p[1] \in S <=> p[2] \in S
      BY <2>1, <3>1 DEF Affects
    <3> QED BY <3>2 DEF Within
  <2>7. ASSUME NEW r \in Records \ S, NEW f \in Fields, w.at[r] # 0
        PROVE  w.gold[<<w.at[r], f>>] = truth.world.gold[<<w.at[r], f>>]
    <3>1. w.gold[<<w.at[r], f>>] = provenance[<<w.at[r], f>>]
      BY <2>1, <2>7 DEF Affects
    <3>2. w.at[r] \in TruthIds
      BY <2>2, <2>7 DEF TruthIds
    <3>3. <<w.at[r], f>> \in TruthIds \X Fields
      BY <3>2
    <3> QED BY <3>1, <3>3 DEF IInv, ValuesMirror
  <2> QED BY <2>1, <2>2, <2>3, <2>4, <2>5, <2>6, <2>7 DEF PartOk
<1> QED BY <1>1, <1>2

\* The ids outside the part, before and after, and those inside.
LEMMA IdsSplit ==
  ASSUME IInv, NEW w \in WorldType, NEW S \in SUBSET Records, PartOk(w, S)
  PROVE  /\ IdsOf(w, Records) = IdsOf(w, S) \cup IdsOf(truth.world, Records \ S)
         /\ TruthIds = IdsOf(truth.world, S) \cup IdsOf(truth.world, Records \ S)
         /\ IdsOf(w, S) \cap IdsOf(truth.world, Records \ S) = {}
         /\ SelectedIds(S) \cap IdsOf(truth.world, Records \ S) = {}
         /\ IdsOf(truth.world, S) \subseteq SelectedIds(S)
<1>1. /\ \A r \in Records \ S : w.at[r] = At[r]
      /\ \A r \in S, q \in Records : w.at[r] # 0 /\ w.at[q] = w.at[r] => q \in S
      /\ \A r \in S, q \in Records :
           memberships[r].id # 0 /\ memberships[q].id = memberships[r].id => q \in S
  BY DEF PartOk
<1>2. \A r \in Records : At[r] # 0 => At[r] = memberships[r].id
  BY DEF IInv, MembersMirror, At
<1>3. IdsOf(w, Records) = IdsOf(w, S) \cup IdsOf(truth.world, Records \ S)
  BY <1>1 DEF IdsOf, At
<1>4. TruthIds = IdsOf(truth.world, S) \cup IdsOf(truth.world, Records \ S)
  BY DEF IdsOf, TruthIds, At
<1>5. IdsOf(w, S) \cap IdsOf(truth.world, Records \ S) = {}
  <2>1. \A r \in S, q \in Records \ S : w.at[r] # 0 => w.at[r] # At[q]
    BY <1>1
  <2> QED BY <2>1 DEF IdsOf, At
<1>6. SelectedIds(S) \cap IdsOf(truth.world, Records \ S) = {}
  <2>1. \A r \in S, q \in Records \ S : memberships[r].id # 0 => memberships[r].id # At[q]
    BY <1>1, <1>2
  <2> QED BY <2>1 DEF IdsOf, At, SelectedIds
<1>7. IdsOf(truth.world, S) \subseteq SelectedIds(S)
  BY <1>2 DEF IdsOf, At, SelectedIds
<1> QED BY <1>3, <1>4, <1>5, <1>6, <1>7

\* The issues of the last world that are not of the part.
Outside(S) ==
  Candidates(truth.world, Records, seen.version) \ Candidates(truth.world, S, seen.version)

LEMMA OutsideIs ==
  ASSUME IInv, NEW w \in WorldType, NEW S \in SUBSET Records, PartOk(w, S), NEW c
  PROVE  c \in Outside(S) <=>
           \/ \E p \in Pairs \ Within(S) : PairIssue(truth.world, seen.version, p, c)
           \/ \E m \in IdsOf(truth.world, Records \ S), f \in Fields :
                GoldIssue(truth.world, seen.version, m, f, c)
<1> DEFINE v == seen.version
           t == truth.world
<1>0. /\ t \in WorldType /\ Within(Records) = Pairs /\ Within(S) \subseteq Pairs
      /\ IdsOf(t, Records) \subseteq Ids
  BY WorldIs DEF IInv, TypeOK, Within, Pairs
<1>1. /\ IdsOf(t, Records) = IdsOf(t, S) \cup IdsOf(t, Records \ S)
      /\ IdsOf(t, S) \cap IdsOf(t, Records \ S) = {}
  BY IdsSplit DEF TruthIds, IdsOf, At
<1>2. /\ \A p : PairIssue(t, v, p, c) => c.key = PairKey(v, p)
      /\ \A m, f : GoldIssue(t, v, m, f, c) => c.key = GoldenKey(v, m, f)
  BY DEF PairIssue, GoldIssue
<1>3. \A p \in Pairs, q \in Pairs : PairIssue(t, v, p, c) /\ PairIssue(t, v, q, c) => p = q
  BY <1>2, KeyIs
<1>4. \A m \in Ids, n \in Ids, f \in Fields, g \in Fields :
        GoldIssue(t, v, m, f, c) /\ GoldIssue(t, v, n, g, c) => m = n
  BY <1>2, KeyIs
<1>5. \A p \in Pairs, m \in Ids, f \in Fields : ~(PairIssue(t, v, p, c) /\ GoldIssue(t, v, m, f, c))
  BY <1>2, KeyIs
<1>6. c \in Candidates(t, Records, v) <=>
        \/ \E p \in Pairs : PairIssue(t, v, p, c)
        \/ \E m \in IdsOf(t, Records), f \in Fields : GoldIssue(t, v, m, f, c)
  BY <1>0, CandidateIs
<1>7. c \in Candidates(t, S, v) <=>
        \/ \E p \in Within(S) : PairIssue(t, v, p, c)
        \/ \E m \in IdsOf(t, S), f \in Fields : GoldIssue(t, v, m, f, c)
  BY CandidateIs
<1> HIDE DEF t, v
<1>8. ASSUME NEW p \in Pairs, PairIssue(t, v, p, c)
      PROVE  c \in Candidates(t, S, v) <=> p \in Within(S)
  BY <1>0, <1>1, <1>3, <1>5, <1>7, <1>8
<1>9. ASSUME NEW m \in IdsOf(t, Records), NEW f \in Fields, GoldIssue(t, v, m, f, c)
      PROVE  c \in Candidates(t, S, v) <=> m \in IdsOf(t, S)
  BY <1>0, <1>1, <1>4, <1>5, <1>7, <1>9
<1>10. c \in Outside(S) <=> c \in Candidates(t, Records, v) /\ c \notin Candidates(t, S, v)
  BY DEF Outside, t, v
<1>11. c \in Outside(S) <=>
           \/ \E p \in Pairs \ Within(S) : PairIssue(t, v, p, c)
           \/ \E m \in IdsOf(t, Records \ S), f \in Fields : GoldIssue(t, v, m, f, c)
  BY <1>1, <1>6, <1>8, <1>9, <1>10
<1> QED BY <1>11 DEF t, v

\* The issues of a world are those of the part and the old ones outside.
LEMMA IssuesSplit ==
  ASSUME IInv, NEW w \in WorldType, NEW S \in SUBSET Records, PartOk(w, S)
  PROVE  /\ Candidates(w, Records, version) = Candidates(w, S, version) \cup Outside(S)
         /\ OpenOf(reviews) = Candidates(truth.world, S, seen.version) \cup Outside(S)
<1> DEFINE t == truth.world
           v == version
<1>0. Within(Records) = Pairs /\ Within(S) \subseteq Pairs
  BY DEF Within, Pairs
<1>1. Candidates(t, S, seen.version) \subseteq Candidates(t, Records, seen.version)
  <2>1. ASSUME NEW c \in Candidates(t, S, seen.version)
        PROVE  c \in Candidates(t, Records, seen.version)
    <3>1. IdsOf(t, S) \subseteq IdsOf(t, Records)
      BY DEF IdsOf
    <3> HIDE DEF t
    <3> QED BY <1>0, <3>1, CandidateIs
  <2> QED BY <2>1
<1>2. OpenOf(reviews) = Candidates(t, S, seen.version) \cup Outside(S)
  BY <1>1 DEF IInv, OpenIs, Outside
<1>3. CASE S = Records
  <2>1. Outside(S) = {}
    BY <1>3 DEF Outside
  <2> QED BY <1>2, <1>3, <2>1 DEF t
<1>4. CASE S # Records
  <2>1. seen.version = v
    BY <1>4 DEF PartOk
  <2>2. \A c : \A p \in Pairs \ Within(S) : PairIssue(w, v, p, c) <=> PairIssue(t, v, p, c)
    BY DEF PartOk, PairIssue
  <2>3. \A c : \A m \in IdsOf(t, Records \ S), f \in Fields :
          GoldIssue(w, v, m, f, c) <=> GoldIssue(t, v, m, f, c)
    <3>1. ASSUME NEW m \in IdsOf(t, Records \ S), NEW f \in Fields
          PROVE  w.gold[<<m, f>>] = t.gold[<<m, f>>]
      <4>1. PICK r \in Records \ S : m = t.at[r] /\ m # 0
        BY DEF IdsOf
      <4>2. w.at[r] = m
        BY <4>1 DEF PartOk, At
      <4> QED BY <4>1, <4>2 DEF PartOk
    <3> QED BY <3>1 DEF GoldIssue
  <2>4. IdsOf(w, Records) = IdsOf(w, S) \cup IdsOf(t, Records \ S)
    BY IdsSplit
  <2> HIDE DEF t, v
  <2>5. ASSUME NEW c
        PROVE  c \in Candidates(w, Records, v) <=> c \in Candidates(w, S, v) \/ c \in Outside(S)
    <3>1. c \in Candidates(w, Records, v) <=>
            \/ \E p \in Pairs : PairIssue(w, v, p, c)
            \/ \E m \in IdsOf(w, Records), f \in Fields : GoldIssue(w, v, m, f, c)
      BY <1>0, CandidateIs
    <3>2. c \in Candidates(w, S, v) <=>
            \/ \E p \in Within(S) : PairIssue(w, v, p, c)
            \/ \E m \in IdsOf(w, S), f \in Fields : GoldIssue(w, v, m, f, c)
      BY CandidateIs
    <3>3. c \in Outside(S) <=>
            \/ \E p \in Pairs \ Within(S) : PairIssue(t, v, p, c)
            \/ \E m \in IdsOf(t, Records \ S), f \in Fields : GoldIssue(t, v, m, f, c)
      BY <2>1, OutsideIs DEF t
    <3> QED BY <1>0, <2>2, <2>3, <2>4, <3>1, <3>2, <3>3
  <2>6. Candidates(w, Records, v) = Candidates(w, S, v) \cup Outside(S)
    BY <2>5
  <2> QED BY <1>2, <2>6 DEF v, t
<1> QED BY <1>3, <1>4

LoadedOf(S) == IF S = Records THEN reviews ELSE LoadReviews(S)

\* Every review of an issue of the part is loaded, and of the open reviews
\* those, and only those, of issues that the part had.
LEMMA LoadedAre ==
  ASSUME IInv, NEW w \in WorldType, NEW S \in SUBSET Records, PartOk(w, S), Possible(w)
  PROVE  /\ LoadedOf(S) \subseteq reviews
         /\ \A row \in reviews, c \in Candidates(w, S, version) :
              row.key = c.key => row \in LoadedOf(S)
         /\ \A row \in reviews : row.status = "open" =>
              LET c == [key |-> row.key, summary |-> row.summary]
              IN  /\ row \in LoadedOf(S) <=> c \in Candidates(truth.world, S, seen.version)
                  /\ row \notin LoadedOf(S) <=> c \in Outside(S)
<1> DEFINE t == truth.world
<1>0. Within(S) \subseteq Pairs /\ 0 \notin SelectedIds(S) /\ 0 \notin Ids
      /\ IdsOf(w, S) \subseteq Ids /\ IdsOf(t, S) \subseteq Ids
      /\ IdsOf(t, Records \ S) \subseteq Ids /\ t \in WorldType
  <2>1. t \in WorldType
    BY DEF IInv, TypeOK
  <2>2. IdsOf(w, S) \subseteq Ids
    BY WorldIs
  <2>3. IdsOf(t, S) \subseteq Ids /\ IdsOf(t, Records \ S) \subseteq Ids
    <3> HIDE DEF t
    <3> QED BY <2>1, WorldIs
  <2> QED BY <2>1, <2>2, <2>3, WorldIs DEF Within, SelectedIds
<1>1. LoadedOf(S) \subseteq reviews
  BY DEF LoadedOf, LoadReviews
<1>2. ASSUME NEW row \in reviews, NEW c \in Candidates(w, S, version), row.key = c.key
      PROVE  row \in LoadedOf(S)
  <2>1. CASE S = Records
    BY <2>1 DEF LoadedOf
  <2>2. CASE S # Records
    <3>1. ASSUME NEW p \in Within(S), PairIssue(w, version, p, c)
          PROVE  Mentions(row.key, S, SelectedIds(S))
      <4>1. c.key = PairKey(version, p) /\ p \in Pairs
        BY <1>0, <3>1 DEF PairIssue
      <4>2. row.key.records = {p[1], p[2]} /\ p[1] \in S
        BY <1>2, <4>1, KeyIs DEF Within
      <4> QED BY <4>2 DEF Mentions
    <3>2. ASSUME NEW m \in IdsOf(w, S), NEW f \in Fields, GoldIssue(w, version, m, f, c)
          PROVE  Mentions(row.key, S, SelectedIds(S))
      <4>1. c.key = GoldenKey(version, m, f) /\ m \in Ids
        BY <1>0, <3>2 DEF GoldIssue
      <4>2. row.key.id = m /\ m # 0
        BY <1>0, <1>2, <4>1, KeyIs
      <4>3. m \in registry
        BY <4>2 DEF IInv, Timed
      <4>4. PICK r \in S : w.at[r] = m
        BY DEF IdsOf
      <4>5. m \in ActiveIds(memberships)
        BY <4>3, <4>4 DEF Possible
      <4>6. PICK q \in Records : memberships[q].active /\ memberships[q].id = m
        BY <4>5 DEF ActiveIds
      <4>7. At[q] = m
        BY <4>6 DEF IInv, MembersMirror, At
      <4>8. q \in S
        BY <4>2, <4>4, <4>7 DEF PartOk
      <4>9. m \in SelectedIds(S)
        BY <4>2, <4>6, <4>8 DEF SelectedIds
      <4> QED BY <4>2, <4>9 DEF Mentions
    <3>3. Mentions(row.key, S, SelectedIds(S))
      BY <3>1, <3>2, CandidateIs
    <3> QED BY <2>2, <3>3 DEF LoadedOf, LoadReviews
  <2> QED BY <2>1, <2>2
<1>3. ASSUME NEW row \in reviews, row.status = "open"
      PROVE  LET c == [key |-> row.key, summary |-> row.summary]
             IN  /\ row \in LoadedOf(S) <=> c \in Candidates(t, S, seen.version)
                 /\ row \notin LoadedOf(S) <=> c \in Outside(S)
  <2> DEFINE c == [key |-> row.key, summary |-> row.summary]
             v == seen.version
  <2>1. c \in OpenOf(reviews)
    BY <1>3 DEF OpenOf
  <2>2. c \in Candidates(t, S, v) \/ c \in Outside(S)
    BY <2>1, IssuesSplit
  <2>3. ~(c \in Candidates(t, S, v) /\ c \in Outside(S))
    BY DEF Outside
  <2>4. ASSUME c \in Candidates(t, S, v)
        PROVE  row \in LoadedOf(S)
    <3>1. CASE S = Records
      BY <3>1 DEF LoadedOf
    <3>2. CASE S # Records
      <4>0. c.key = row.key
        OBVIOUS
      <4> HIDE DEF c, t, v
      <4>1. ASSUME NEW p \in Within(S), PairIssue(t, v, p, c)
            PROVE  Mentions(row.key, S, SelectedIds(S))
        <5>1. c.key = PairKey(v, p) /\ p \in Pairs
          BY <1>0, <4>1 DEF PairIssue
        <5>2. row.key.records = {p[1], p[2]} /\ p[1] \in S
          BY <4>0, <5>1, KeyIs DEF Within
        <5> QED BY <5>2 DEF Mentions
      <4>2. ASSUME NEW m \in IdsOf(t, S), NEW f \in Fields, GoldIssue(t, v, m, f, c)
            PROVE  Mentions(row.key, S, SelectedIds(S))
        <5>1. c.key = GoldenKey(v, m, f) /\ m \in Ids
          BY <1>0, <4>2 DEF GoldIssue
        <5>2. row.key.id = m
          BY <4>0, <5>1, KeyIs
        <5>3. m \in SelectedIds(S)
          BY IdsSplit DEF t
        <5> QED BY <5>2, <5>3 DEF Mentions
      <4>3. Mentions(row.key, S, SelectedIds(S))
        BY <2>4, <4>1, <4>2, CandidateIs
      <4> QED BY <3>2, <4>3 DEF LoadedOf, LoadReviews
    <3> QED BY <3>1, <3>2
  <2>5. ASSUME c \in Outside(S)
        PROVE  row \notin LoadedOf(S)
    <3>1. CASE S = Records
      BY <2>5, <3>1 DEF Outside
    <3>2. CASE S # Records
      <4>0. c.key = row.key
        OBVIOUS
      <4> HIDE DEF c, t, v
      <4>1. ASSUME NEW p \in Pairs \ Within(S), PairIssue(t, v, p, c)
            PROVE  ~Mentions(row.key, S, SelectedIds(S))
        <5>1. c.key = PairKey(v, p) /\ t.facts[p] \in Summaries
          BY <4>1 DEF PairIssue
        <5>2. row.key.records = {p[1], p[2]} /\ row.key.id = 0
          BY <4>0, <5>1, KeyIs
        <5>3. p[1] \notin S /\ p[2] \notin S
          BY <5>1 DEF PartOk, t
        <5> QED BY <1>0, <5>2, <5>3 DEF Mentions
      <4>2. ASSUME NEW m \in IdsOf(t, Records \ S), NEW f \in Fields, GoldIssue(t, v, m, f, c)
            PROVE  ~Mentions(row.key, S, SelectedIds(S))
        <5>1. c.key = GoldenKey(v, m, f) /\ m \in Ids
          BY <1>0, <4>2 DEF GoldIssue
        <5>2. row.key.id = m /\ row.key.records = {}
          BY <4>0, <5>1, KeyIs
        <5>3. m \notin SelectedIds(S)
          BY IdsSplit DEF t
        <5> QED BY <5>2, <5>3 DEF Mentions
      <4>3. ~Mentions(row.key, S, SelectedIds(S))
        BY <2>5, <4>1, <4>2, OutsideIs DEF t, v
      <4> QED BY <3>2, <4>3 DEF LoadedOf, LoadReviews
    <3> QED BY <3>1, <3>2
  <2> HIDE DEF c, v
  <2>6. row \in LoadedOf(S) <=> c \in Candidates(t, S, v)
    BY <2>2, <2>3, <2>4, <2>5
  <2>7. row \notin LoadedOf(S) <=> c \in Outside(S)
    BY <2>2, <2>3, <2>4, <2>5
  <2> QED BY <2>6, <2>7 DEF c, v
<1> HIDE DEF t
<1> QED BY <1>1, <1>2, <1>3 DEF t

-----------------------------------------------------------------------------
(* Occurrences.                                                            *)

LEMMA NatFirst ==
  ASSUME NEW N \in SUBSET Nat, N # {}
  PROVE  \E i \in N : \A j \in N : i <= j
<1> DEFINE less == OpToRel(<, Nat)
<1>1. IsWellFoundedOn(less, Nat)
  BY NatLessThanWellFounded
<1>2. \A i, j \in Nat : <<j, i>> \in less <=> j < i
  BY DEF OpToRel
<1> HIDE DEF less
<1>3. \E i \in N : \A j \in N : ~(<<j, i>> \in less)
  BY <1>1, WFMin
<1>4. PICK i \in N : \A j \in N : ~(<<j, i>> \in less)
  BY <1>3
<1>5. \A j \in N : j \in Nat /\ i \in Nat /\ ~(j < i)
  BY <1>2, <1>4
<1>6. \A j \in N : i <= j
  BY <1>5
<1> QED BY <1>6

RowOf(key) == {row \in reviews : row.key = key}

\* The next occurrence of an issue follows all others.
NextOk(key, n) ==
  /\ n \in Nat \ {0}
  /\ \A row \in RowOf(key) : row.occurrence < n
  /\ n = 1 \/ \E row \in RowOf(key) : row.occurrence = n - 1

LEMMA NextIs ==
  ASSUME IInv, NEW key
  PROVE  /\ NextOk(key, NextOccurrence(reviews, key))
         /\ (\A row \in Latest(reviews, key) : row.status # "open")
              => \A row \in RowOf(key) : row.status = "resolved"
<1> DEFINE bounds == {n \in Nat : \A row \in RowOf(key) : row.occurrence <= n}
<1>0. /\ revision \in Nat /\ RowOf(key) \subseteq reviews /\ reviews \subseteq ReviewRows
      /\ \A row \in ReviewRows : /\ row.occurrence \in Nat \ {0} /\ row.opened \in Nat
                                 /\ row.status \in {"open", "resolved"}
  BY BoundsAssumption DEF IInv, TypeOK, ReviewRows, RowOf
<1>1. revision \in bounds
  BY <1>0 DEF IInv, Timed
<1>2. PICK top \in bounds : \A n \in bounds : top <= n
  BY <1>1, NatFirst
<1>3. Latest(reviews, key) = {row \in RowOf(key) : row.occurrence = top}
  <2>1. ASSUME NEW row \in Latest(reviews, key)
        PROVE  row \in RowOf(key) /\ row.occurrence = top
    <3>1. row \in RowOf(key) /\ \A other \in RowOf(key) : other.occurrence <= row.occurrence
      BY DEF Latest, RowOf
    <3>2. row.occurrence \in bounds
      BY <1>0, <3>1
    <3> QED BY <1>0, <1>2, <3>1, <3>2
  <2>2. ASSUME NEW row \in RowOf(key), row.occurrence = top
        PROVE  row \in Latest(reviews, key)
    BY <1>2, <2>2 DEF Latest, RowOf
  <2> QED BY <2>1, <2>2
<1>4. CASE RowOf(key) = {}
  <2>1. NextOccurrence(reviews, key) = 1
    BY <1>3, <1>4 DEF NextOccurrence
  <2> QED BY <1>4, <2>1 DEF NextOk
<1>5. CASE RowOf(key) # {}
  <2>1. top # 0
    BY <1>0, <1>2, <1>5
  <2>2. top - 1 \notin bounds
    BY <1>2, <2>1
  <2>3. PICK row \in RowOf(key) : ~(row.occurrence <= top - 1)
    BY <2>1, <2>2
  <2>4. row.occurrence = top
    BY <1>0, <1>2, <2>3
  <2>5. row \in Latest(reviews, key)
    BY <1>3, <2>4
  <2>6. (CHOOSE x \in Latest(reviews, key) : TRUE) \in Latest(reviews, key)
    BY <2>5
  <2>7. NextOccurrence(reviews, key) = top + 1
    BY <1>3, <2>5, <2>6 DEF NextOccurrence
  <2>8. NextOk(key, top + 1)
    BY <1>0, <1>2, <2>4 DEF NextOk
  <2>9. ASSUME row.status # "open", NEW other \in RowOf(key)
        PROVE  other.status = "resolved"
    <3>1. CASE other = row
      BY <1>0, <2>9, <3>1
    <3>2. CASE other # row
      <4>1. row.key = other.key /\ row.occurrence >= other.occurrence
        BY <1>0, <1>2, <2>4 DEF RowOf
      <4> QED BY <1>0, <3>2, <4>1 DEF IInv, Ordered
    <3> QED BY <3>1, <3>2
  <2> QED BY <2>5, <2>7, <2>8, <2>9
<1> QED BY <1>4, <1>5

-----------------------------------------------------------------------------
(* Reconciliation of a row.                                                *)

After(row, current, rev) ==
  LET same == {c \in current : c.key = row.key}
  IN  IF row.status # "open" THEN row
      ELSE IF same = {} THEN Resolve(row, rev)
      ELSE LET c == CHOOSE c \in same : TRUE
           IN  IF c.summary = row.summary THEN row ELSE Update(row, c, rev)

\* A resolved review is left alone, an open one is resolved if its issue is
\* gone and otherwise says what the issue is now; what changed is counted.
AfterOk(row, current, rev, new) ==
  /\ rev \in 1 .. MaxRevision => new \in ReviewRows
  /\ SameReview(row, new) /\ new.opened = row.opened
  /\ row.status # "open" => new = row
  /\ row.status = "open" =>
       \/ /\ new.status = "resolved" /\ new.resolved = rev
          /\ new.changed = rev /\ new.version = row.version + 1
          /\ \A c \in current : c.key # row.key
       \/ /\ new.status = "open" /\ new.resolved = row.resolved
          /\ [key |-> row.key, summary |-> new.summary] \in current
          /\ new = row \/ (/\ new.summary # row.summary /\ new.changed = rev
                           /\ new.version = row.version + 1)

LEMMA AfterIs ==
  ASSUME NEW current \in SUBSET CandidateRows, NEW rev,
         NEW row \in ReviewRows
  PROVE  AfterOk(row, current, rev, After(row, current, rev))
<1> DEFINE same == {c \in current : c.key = row.key}
           c == CHOOSE x \in same : TRUE
<1>0. /\ row.key \in IssueKeys /\ row.occurrence \in Nat \ {0}
      /\ row.status \in {"open", "resolved"} /\ row.summary \in Summaries \cup {"issue"}
      /\ row.opened \in 1 .. MaxRevision /\ row.resolved \in 0 .. MaxRevision
      /\ row.changed \in 1 .. MaxRevision /\ row.version \in Nat \ {0}
      /\ row.version + 1 \in Nat \ {0}
      /\ rev \in 1 .. MaxRevision => rev \in 0 .. MaxRevision
      /\ DOMAIN row = {"key", "occurrence", "status", "summary", "opened", "resolved",
                       "changed", "version"}
  BY BoundsAssumption DEF ReviewRows
<1>1. CASE row.status # "open"
  BY <1>1 DEF After, AfterOk, SameReview
<1>2. CASE row.status = "open" /\ same = {}
  <2> DEFINE new == Resolve(row, rev)
  <2>1. After(row, current, rev) = new
    BY <1>2 DEF After
  <2>2. /\ rev \in 1 .. MaxRevision => new \in ReviewRows
        /\ new.key = row.key /\ new.occurrence = row.occurrence
        /\ new.opened = row.opened /\ new.status = "resolved" /\ new.resolved = rev
        /\ new.changed = rev /\ new.version = row.version + 1
    BY <1>0 DEF Resolve, ReviewRows
  <2> HIDE DEF new
  <2> QED BY <1>2, <2>1, <2>2 DEF AfterOk, SameReview
<1>3. CASE row.status = "open" /\ same # {}
  <2>1. c \in same
    BY <1>3
  <2>2. c \in CandidateRows /\ c \in current /\ c.key = row.key
    BY <2>1
  <2>3. c = [key |-> row.key, summary |-> c.summary] /\ c.summary \in Summaries \cup {"issue"}
    BY <2>2 DEF CandidateRows
  <2>4. CASE c.summary = row.summary
    <3>1. After(row, current, rev) = row
      BY <1>3, <2>4 DEF After
    <3> HIDE DEF c
    <3> QED BY <1>3, <2>2, <2>3, <2>4, <3>1 DEF AfterOk, SameReview
  <2>5. CASE c.summary # row.summary
    <3> DEFINE new == Update(row, c, rev)
    <3>1. After(row, current, rev) = new
      BY <1>3, <2>5 DEF After
    <3> HIDE DEF c
    <3>2. /\ rev \in 1 .. MaxRevision => new \in ReviewRows
          /\ new.key = row.key /\ new.occurrence = row.occurrence
          /\ new.opened = row.opened /\ new.status = row.status /\ new.resolved = row.resolved
          /\ new.changed = rev /\ new.version = row.version + 1 /\ new.summary = c.summary
      BY <1>0, <2>3 DEF Update, ReviewRows
    <3> HIDE DEF new
    <3> QED BY <1>3, <2>2, <2>3, <2>5, <3>1, <3>2 DEF AfterOk, SameReview
  <2> QED BY <2>4, <2>5
<1> QED BY <1>1, <1>2, <1>3

-----------------------------------------------------------------------------
(* The reviews of a publication.                                           *)

Whole(w) == Candidates(w, Records, version)

Moved(w, S, row) ==
  IF row \in LoadedOf(S) THEN After(row, Candidates(w, S, version), revision + 1) ELSE row

\* The issues without an open review, and the reviews they get.
NewIssues(w) == {c \in Whole(w) : \A row \in RowOf(c.key) : row.status = "resolved"}
Opened(c) == Open(c, NextOccurrence(reviews, c.key), revision + 1)

RowsAfter(w, S) ==
  {Moved(w, S, row) : row \in reviews} \cup {Opened(c) : c \in NewIssues(w)}

OpenedOk(c, new) ==
  /\ new \in ReviewRows /\ new.key = c.key /\ NextOk(c.key, new.occurrence)
  /\ new.status = "open" /\ new.summary = c.summary
  /\ new.opened = revision + 1 /\ new.changed = revision + 1
  /\ new.resolved = 0 /\ new.version = 1

\* Both publish: the evaluation of a part does to the reviews what a full one
\* would have done.
LEMMA WholeIs ==
  ASSUME IInv, revision < MaxRevision,
         NEW w \in WorldType, NEW S \in SUBSET Records, PartOk(w, S), Possible(w)
  PROVE  /\ \A row \in reviews : AfterOk(row, Whole(w), revision + 1, Moved(w, S, row))
         /\ \A c \in NewIssues(w) : OpenedOk(c, Opened(c))
         /\ NewIssues(w) = {c \in Candidates(w, S, version) :
                              \A row \in RowOf(c.key) : row.status = "resolved"}
<1> DEFINE t == truth.world
           part == Candidates(w, S, version)
<1>0. /\ version \in 1 .. MaxVersion /\ revision \in Nat /\ revision + 1 \in 1 .. MaxRevision
      /\ reviews \subseteq ReviewRows /\ t \in WorldType
  BY BoundsAssumption DEF IInv, TypeOK
<1>1. Whole(w) = part \cup Outside(S) /\ OpenOf(reviews) = Candidates(t, S, seen.version) \cup Outside(S)
  BY IssuesSplit DEF Whole
<1>2. Whole(w) \in SUBSET CandidateRows /\ part \in SUBSET CandidateRows
  BY <1>0, CandidatesAre DEF Whole
<1>3. ASSUME NEW row \in reviews
      PROVE  AfterOk(row, Whole(w), revision + 1, Moved(w, S, row))
  <2> DEFINE c == [key |-> row.key, summary |-> row.summary]
  <2>0. row \in ReviewRows /\ c.key = row.key
    BY <1>0
  <2>1. CASE row.status # "open"
    <3>1. Moved(w, S, row) = row
      BY <2>1 DEF Moved, After
    <3> QED BY <2>0, <2>1, <3>1 DEF AfterOk, SameReview
  <2>2. CASE row.status = "open" /\ row \notin LoadedOf(S)
    <3>1. c \in Outside(S)
      BY <2>2, LoadedAre
    <3>2. Moved(w, S, row) = row /\ c \in Whole(w)
      BY <1>1, <2>2, <3>1 DEF Moved
    <3> QED BY <2>0, <2>2, <3>2 DEF AfterOk, SameReview
  <2>3. CASE row.status = "open" /\ row \in LoadedOf(S)
    <3> DEFINE new == Moved(w, S, row)
    <3>1. AfterOk(row, part, revision + 1, new)
      <4> HIDE DEF part
      <4>1. new = After(row, part, revision + 1)
        BY <2>3 DEF Moved, part
      <4> HIDE DEF new
      <4> QED BY <1>0, <1>2, <2>0, <4>1, AfterIs
    <3>2. ASSUME NEW d \in Outside(S)
          PROVE  d.key # row.key
      <4>1. c \in Candidates(t, S, seen.version) /\ c \in OpenOf(reviews)
        BY <2>3, LoadedAre DEF OpenOf
      <4>2. c \notin Outside(S)
        BY <4>1 DEF Outside
      <4>3. c \in Candidates(t, Records, truth.version) /\ d \in Candidates(t, Records, truth.version)
        BY <1>1, <4>1 DEF IInv, OpenIs
      <4>4. truth.version \in 1 .. MaxVersion
        BY DEF IInv, TypeOK
      <4> HIDE DEF t
      <4>5. c.key = d.key => c = d
        BY <1>0, <4>3, <4>4, CandidatesAre
      <4> HIDE DEF c
      <4> QED BY <2>0, <4>2, <4>5
    <3> HIDE DEF new, part
    <3> QED BY <1>1, <3>1, <3>2 DEF AfterOk, new
  <2> QED BY <2>1, <2>2, <2>3
<1>4. ASSUME NEW c \in NewIssues(w)
      PROVE  OpenedOk(c, Opened(c))
  <2>1. c \in CandidateRows
    BY <1>2 DEF NewIssues
  <2>2. c.key \in IssueKeys /\ c.summary \in Summaries \cup {"issue"}
    BY <2>1 DEF CandidateRows
  <2>3. NextOk(c.key, NextOccurrence(reviews, c.key))
    BY NextIs
  <2>4. NextOccurrence(reviews, c.key) \in Nat \ {0}
    BY <2>3 DEF NextOk
  <2> DEFINE new == Opened(c)
  <2>5. /\ new \in ReviewRows /\ new.key = c.key
        /\ new.occurrence = NextOccurrence(reviews, c.key)
        /\ new.status = "open" /\ new.summary = c.summary
        /\ new.opened = revision + 1 /\ new.changed = revision + 1
        /\ new.resolved = 0 /\ new.version = 1
    <3> DEFINE n == NextOccurrence(reviews, c.key)
               key == c.key
               summary == c.summary
               rev == revision + 1
    <3>1. /\ n \in Nat \ {0} /\ key \in IssueKeys /\ summary \in Summaries \cup {"issue"}
          /\ rev \in 1 .. MaxRevision /\ 0 \in 0 .. MaxRevision
      BY <1>0, <2>2, <2>4, BoundsAssumption
    <3>2. new = [key |-> key, occurrence |-> n, status |-> "open", summary |-> summary,
                 opened |-> rev, resolved |-> 0, changed |-> rev, version |-> 1]
      BY DEF Opened, Open
    <3> HIDE DEF n, key, summary, rev, new
    <3>3. /\ new \in ReviewRows /\ new.key = key /\ new.occurrence = n
          /\ new.status = "open" /\ new.summary = summary
          /\ new.opened = rev /\ new.changed = rev /\ new.resolved = 0 /\ new.version = 1
      BY <3>1, <3>2 DEF ReviewRows
    <3> QED BY <3>3 DEF n, key, summary, rev
  <2> HIDE DEF new
  <2>6. OpenedOk(c, new)
    BY <2>3, <2>5 DEF OpenedOk
  <2> QED BY <2>6 DEF new
<1>5. ASSUME NEW c \in NewIssues(w)
      PROVE  c \in part
  <2>1. ASSUME c \in Outside(S) PROVE FALSE
    <3>1. c \in OpenOf(reviews)
      BY <1>1, <2>1
    <3>2. PICK row \in reviews : row.status = "open" /\ c = [key |-> row.key, summary |-> row.summary]
      BY <3>1 DEF OpenOf
    <3>3. row \in RowOf(c.key)
      BY <3>2 DEF RowOf
    <3> QED BY <3>2, <3>3 DEF NewIssues
  <2> QED BY <1>1, <2>1 DEF NewIssues
<1>6. NewIssues(w) = {c \in part : \A row \in RowOf(c.key) : row.status = "resolved"}
  <2> HIDE DEF part
  <2> QED BY <1>1, <1>5 DEF NewIssues
<1> QED BY <1>3, <1>4, <1>6

LEMMA ReconcileIs ==
  ASSUME IInv, revision < MaxRevision,
         NEW w \in WorldType, NEW S \in SUBSET Records, PartOk(w, S), Possible(w)
  PROVE  LET part == Candidates(w, S, version)
         IN  /\ Opening(LoadedOf(S), part) = NewIssues(w)
             /\ NewReviews(LoadedOf(S), part) = {CaseOf(Opened(c)) : c \in NewIssues(w)}
             /\ Reconcile(LoadedOf(S), part, revision + 1)
                  = {Moved(w, S, row) : row \in LoadedOf(S)} \cup {Opened(c) : c \in NewIssues(w)}
             /\ (reviews \ LoadedOf(S)) \cup Reconcile(LoadedOf(S), part, revision + 1)
                  = RowsAfter(w, S)
<1> DEFINE part == Candidates(w, S, version)
           loaded == LoadedOf(S)
<1>1. ASSUME NEW c \in part
      PROVE  Latest(loaded, c.key) = Latest(reviews, c.key)
  <2>1. \A row \in reviews : row.key = c.key => row \in loaded
    BY LoadedAre
  <2>2. loaded \subseteq reviews
    BY LoadedAre
  <2> HIDE DEF loaded
  <2> QED BY <2>1, <2>2 DEF Latest
<1>2. ASSUME NEW c \in part
      PROVE  NextOccurrence(loaded, c.key) = NextOccurrence(reviews, c.key)
  <2>1. Latest(loaded, c.key) = Latest(reviews, c.key)
    BY <1>1
  <2> HIDE DEF part, loaded
  <2> QED BY <2>1 DEF NextOccurrence
<1>3. ASSUME NEW c \in part
      PROVE  (\A row \in Latest(reviews, c.key) : row.status # "open")
               <=> \A row \in RowOf(c.key) : row.status = "resolved"
  <2>1. Latest(reviews, c.key) \subseteq RowOf(c.key)
    BY DEF Latest, RowOf
  <2> QED BY <2>1, NextIs
<1>4. NewIssues(w) = {c \in part : \A row \in RowOf(c.key) : row.status = "resolved"}
  BY WholeIs
<1> HIDE DEF part
<1>5. Opening(loaded, part) = NewIssues(w)
  BY <1>1, <1>3, <1>4 DEF Opening
<1>6. {Open(c, NextOccurrence(loaded, c.key), revision + 1) : c \in Opening(loaded, part)}
        = {Opened(c) : c \in NewIssues(w)}
  <2>1. NewIssues(w) \subseteq part
    BY <1>4
  <2>2. \A c \in NewIssues(w) :
          Open(c, NextOccurrence(loaded, c.key), revision + 1) = Opened(c)
    BY <1>2, <2>1 DEF Opened
  <2> HIDE DEF loaded
  <2> QED BY <1>5, <2>2
<1>7. Reconcile(loaded, part, revision + 1)
        = {After(row, part, revision + 1) : row \in loaded}
            \cup {Open(c, NextOccurrence(loaded, c.key), revision + 1) : c \in Opening(loaded, part)}
  BY DEF Reconcile, After
<1>8. {After(row, part, revision + 1) : row \in loaded} = {Moved(w, S, row) : row \in loaded}
  BY DEF Moved, part
<1>9. Reconcile(loaded, part, revision + 1)
        = {Moved(w, S, row) : row \in loaded} \cup {Opened(c) : c \in NewIssues(w)}
  BY <1>6, <1>7, <1>8
<1>10. (reviews \ loaded) \cup {Moved(w, S, row) : row \in loaded}
         = {Moved(w, S, row) : row \in reviews}
  <2>1. loaded \subseteq reviews
    BY LoadedAre
  <2>2. \A row \in reviews \ loaded : Moved(w, S, row) = row
    BY DEF Moved
  <2> HIDE DEF loaded
  <2> QED BY <2>1, <2>2
<1> HIDE DEF loaded
<1>11. (reviews \ loaded) \cup Reconcile(loaded, part, revision + 1) = RowsAfter(w, S)
  BY <1>9, <1>10 DEF RowsAfter
<1>12. NewReviews(loaded, part) = {CaseOf(Opened(c)) : c \in NewIssues(w)}
  <2>1. NewIssues(w) \subseteq part
    BY <1>4
  <2>2. \A c \in NewIssues(w) :
          CaseOf(Opened(c)) = [key |-> c.key, occurrence |-> NextOccurrence(loaded, c.key)]
    BY <1>2, <2>1 DEF Opened, Open, CaseOf
  <2>3. NewReviews(loaded, part)
          = {[key |-> c.key, occurrence |-> NextOccurrence(loaded, c.key)] : c \in NewIssues(w)}
    BY <1>5 DEF NewReviews
  <2> QED BY <2>2, <2>3
<1> QED BY <1>5, <1>9, <1>11, <1>12 DEF part, loaded

LEMMA RowsTimed ==
  ASSUME IInv, revision < MaxRevision,
         NEW w \in WorldType, NEW S \in SUBSET Records, PartOk(w, S), Possible(w)
  PROVE  /\ RowsAfter(w, S) \subseteq ReviewRows
         /\ Timed(RowsAfter(w, S), revision + 1, registry \cup IdsOf(w, S))
<1>0. /\ revision \in Nat /\ version \in 1 .. MaxVersion /\ reviews \subseteq ReviewRows
      /\ \A row \in ReviewRows : /\ row.occurrence \in Nat \ {0} /\ row.opened \in Nat
                                 /\ row.resolved \in Nat /\ row.changed \in Nat
                                 /\ row.status \in {"open", "resolved"}
  BY BoundsAssumption DEF IInv, TypeOK, ReviewRows
<1>1. ASSUME NEW row \in reviews
      PROVE  LET new == Moved(w, S, row)
             IN  /\ new \in ReviewRows
                 /\ new.opened <= revision + 1 /\ new.resolved <= revision + 1
                 /\ new.changed <= revision + 1 /\ new.occurrence <= new.opened
                 /\ new.key.id \in registry \cup IdsOf(w, S) \cup {0}
                 /\ new.resolved # 0 <=> new.status = "resolved"
  <2> DEFINE new == Moved(w, S, row)
  <2>1. AfterOk(row, Whole(w), revision + 1, new)
    BY WholeIs
  <2>2. row \in ReviewRows
    BY <1>0
  <2>3. /\ row.opened <= revision /\ row.resolved <= revision /\ row.changed <= revision
        /\ row.occurrence <= row.opened /\ row.key.id \in registry \cup {0}
        /\ row.resolved # 0 <=> row.status = "resolved"
    BY DEF IInv, Timed
  <2>4. revision + 1 \in 1 .. MaxRevision
    BY <1>0, BoundsAssumption
  <2> HIDE DEF new
  <2> QED BY <1>0, <2>1, <2>2, <2>3, <2>4 DEF AfterOk, SameReview, new
<1>2. ASSUME NEW c \in NewIssues(w)
      PROVE  LET new == Opened(c)
             IN  /\ new \in ReviewRows
                 /\ new.opened <= revision + 1 /\ new.resolved <= revision + 1
                 /\ new.changed <= revision + 1 /\ new.occurrence <= new.opened
                 /\ new.key.id \in registry \cup IdsOf(w, S) \cup {0}
                 /\ new.resolved # 0 <=> new.status = "resolved"
  <2> DEFINE new == Opened(c)
  <2>1. OpenedOk(c, new)
    BY WholeIs
  <2>2. c \in Candidates(w, S, version)
    BY WholeIs
  <2>3. c.key.id \in IdsOf(w, S) \cup {0}
    BY <1>0, <2>2, CandidatesAre
  <2>4. new.occurrence <= new.opened
    <3>1. \A row \in RowOf(c.key) : row.occurrence <= revision /\ row.occurrence \in Nat
      <4>1. RowOf(c.key) \subseteq reviews
        BY DEF RowOf
      <4>2. \A row \in reviews : row.occurrence <= row.opened /\ row.opened <= revision
        BY DEF IInv, Timed
      <4> QED BY <1>0, <4>1, <4>2
    <3> HIDE DEF new
    <3> QED BY <1>0, <2>1, <3>1 DEF OpenedOk, NextOk
  <2> HIDE DEF new
  <2> QED BY <1>0, <2>1, <2>3, <2>4 DEF OpenedOk, new
<1> QED BY <1>1, <1>2 DEF RowsAfter, Timed

LEMMA RowsOpen ==
  ASSUME IInv, revision < MaxRevision,
         NEW w \in WorldType, NEW S \in SUBSET Records, PartOk(w, S), Possible(w)
  PROVE  OpenOf(RowsAfter(w, S)) = Whole(w)
<1>0. /\ version \in 1 .. MaxVersion /\ reviews \subseteq ReviewRows
      /\ \A row \in ReviewRows : row.status \in {"open", "resolved"}
  BY DEF IInv, TypeOK, ReviewRows
<1>1. /\ Whole(w) \subseteq CandidateRows
      /\ \A c, d \in Whole(w) : c.key = d.key => c = d
  BY <1>0, CandidatesAre DEF Whole
<1>2. \A c \in CandidateRows : c = [key |-> c.key, summary |-> c.summary]
  BY DEF CandidateRows
<1>3. ASSUME NEW row \in reviews, Moved(w, S, row).status = "open"
      PROVE  [key |-> Moved(w, S, row).key, summary |-> Moved(w, S, row).summary] \in Whole(w)
  <2> DEFINE new == Moved(w, S, row)
  <2>1. AfterOk(row, Whole(w), revision + 1, new)
    BY WholeIs
  <2>2. new.status = "open"
    BY <1>3
  <2> HIDE DEF new
  <2>3. new.key = row.key /\ [key |-> row.key, summary |-> new.summary] \in Whole(w)
    BY <1>0, <2>1, <2>2 DEF AfterOk, SameReview
  <2> QED BY <2>3 DEF new
<1>4. ASSUME NEW c \in NewIssues(w)
      PROVE  [key |-> Opened(c).key, summary |-> Opened(c).summary] = c /\ Opened(c).status = "open"
             /\ c \in Whole(w)
  <2>1. c \in Whole(w) /\ OpenedOk(c, Opened(c))
    BY WholeIs DEF NewIssues
  <2> QED BY <1>1, <1>2, <2>1 DEF OpenedOk
<1>5. ASSUME NEW c \in Whole(w)
      PROVE  c \in OpenOf(RowsAfter(w, S))
  <2>1. CASE c \in NewIssues(w)
    <3>1. Opened(c) \in RowsAfter(w, S)
      BY <2>1 DEF RowsAfter
    <3>2. [key |-> Opened(c).key, summary |-> Opened(c).summary] = c /\ Opened(c).status = "open"
      BY <1>4, <2>1
    <3> QED BY <3>1, <3>2 DEF OpenOf
  <2>2. CASE c \notin NewIssues(w)
    <3>1. PICK row \in reviews : row.key = c.key /\ row.status = "open"
      BY <1>0, <2>2 DEF NewIssues, RowOf
    <3> DEFINE new == Moved(w, S, row)
    <3>2. AfterOk(row, Whole(w), revision + 1, new)
      BY WholeIs
    <3>3. new \in RowsAfter(w, S)
      BY DEF RowsAfter
    <3> HIDE DEF new
    <3>4. new.status = "open" /\ new.key = c.key
          /\ [key |-> c.key, summary |-> new.summary] \in Whole(w)
      BY <3>1, <3>2 DEF AfterOk, SameReview
    <3>5. [key |-> c.key, summary |-> new.summary] = c
      BY <1>1, <3>4
    <3>6. c = [key |-> new.key, summary |-> new.summary]
      BY <3>4, <3>5
    <3> QED BY <3>3, <3>4, <3>6 DEF OpenOf
  <2> QED BY <2>1, <2>2
<1>6. ASSUME NEW new \in RowsAfter(w, S), new.status = "open"
      PROVE  [key |-> new.key, summary |-> new.summary] \in Whole(w)
  BY <1>3, <1>4, <1>6 DEF RowsAfter
<1>7. OpenOf(RowsAfter(w, S)) \subseteq Whole(w)
  BY <1>6 DEF OpenOf
<1> QED BY <1>5, <1>7

LEMMA RowsChained ==
  ASSUME IInv, revision < MaxRevision,
         NEW w \in WorldType, NEW S \in SUBSET Records, PartOk(w, S), Possible(w)
  PROVE  OneRow(RowsAfter(w, S)) /\ Ordered(RowsAfter(w, S)) /\ Gapless(RowsAfter(w, S))
<1> DEFINE M(row) == Moved(w, S, row)
           rev == revision + 1
<1>0. /\ revision \in Nat /\ version \in 1 .. MaxVersion /\ reviews \subseteq ReviewRows
      /\ \A row \in reviews : /\ row.occurrence \in Nat \ {0} /\ row.opened \in Nat
                              /\ row.resolved \in Nat
                              /\ row.status \in {"open", "resolved"}
  BY BoundsAssumption DEF IInv, TypeOK, ReviewRows
<1>1. \A c, d \in NewIssues(w) : c.key = d.key => c = d
  BY <1>0, CandidatesAre DEF NewIssues, Whole
<1>2. \A row \in reviews :
        /\ M(row).key = row.key /\ M(row).occurrence = row.occurrence /\ M(row).opened = row.opened
        /\ row.status = "resolved" => M(row) = row
        /\ row.opened <= revision /\ row.resolved <= revision
  <2>1. \A row \in reviews : AfterOk(row, Whole(w), revision + 1, M(row))
    BY WholeIs
  <2>2. \A row \in reviews : row.opened <= revision /\ row.resolved <= revision
    BY DEF IInv, Timed
  <2> HIDE DEF M
  <2> QED BY <2>1, <2>2 DEF AfterOk, SameReview
<1>3. \A c \in NewIssues(w) :
        /\ Opened(c).key = c.key /\ Opened(c).opened = rev
        /\ Opened(c).occurrence \in Nat \ {0}
        /\ \A row \in reviews : row.key = c.key =>
             row.occurrence < Opened(c).occurrence /\ row.status = "resolved"
        /\ Opened(c).occurrence = 1
             \/ \E row \in reviews : row.key = c.key /\ row.occurrence = Opened(c).occurrence - 1
  <2>1. \A c \in NewIssues(w) : OpenedOk(c, Opened(c))
    BY WholeIs
  <2>2. \A c \in NewIssues(w) : \A row \in reviews : row.key = c.key => row.status = "resolved"
    BY DEF NewIssues, RowOf
  <2> QED BY <2>1, <2>2 DEF OpenedOk, NextOk, RowOf
<1>4. \A new \in RowsAfter(w, S) :
        (\E row \in reviews : new = M(row)) \/ (\E c \in NewIssues(w) : new = Opened(c))
  BY DEF RowsAfter
<1>5. (\A row \in reviews : M(row) \in RowsAfter(w, S))
      /\ \A c \in NewIssues(w) : Opened(c) \in RowsAfter(w, S)
  BY DEF RowsAfter
<1> HIDE DEF M, rev
<1>6. ASSUME NEW a \in RowsAfter(w, S), NEW b \in RowsAfter(w, S), SameReview(a, b)
      PROVE  a = b
  <2>0. a.key = b.key /\ a.occurrence = b.occurrence
    BY <1>6 DEF SameReview
  <2>1. \A x, y \in reviews : a = M(x) /\ b = M(y) => a = b
    BY <1>2, <2>0 DEF IInv, OneRow, SameReview
  <2>2. \A c, d \in NewIssues(w) : a = Opened(c) /\ b = Opened(d) => a = b
    BY <1>1, <1>3, <2>0
  <2>3. \A x \in reviews, c \in NewIssues(w) :
          ~(a = M(x) /\ b = Opened(c)) /\ ~(b = M(x) /\ a = Opened(c))
    BY <1>0, <1>2, <1>3, <2>0
  <2> QED BY <1>4, <2>1, <2>2, <2>3
<1>7. ASSUME NEW a \in RowsAfter(w, S), NEW b \in RowsAfter(w, S),
             b.key = a.key, b # a, b.occurrence >= a.occurrence
      PROVE  a.status = "resolved" /\ a.resolved < b.opened
  <2>1. ASSUME NEW x \in reviews, NEW y \in reviews, a = M(x), b = M(y)
        PROVE  a.status = "resolved" /\ a.resolved < b.opened
    <3>1. x.status = "resolved" /\ x.resolved < y.opened
      BY <1>2, <1>7, <2>1 DEF IInv, Ordered
    <3> QED BY <1>2, <2>1, <3>1
  <2>2. ASSUME NEW x \in reviews, NEW d \in NewIssues(w), a = M(x), b = Opened(d)
        PROVE  a.status = "resolved" /\ a.resolved < b.opened
    <3>1. x.status = "resolved"
      BY <1>2, <1>3, <1>7, <2>2
    <3> QED BY <1>0, <1>2, <1>3, <2>2, <3>1 DEF rev
  <2>3. \A y \in reviews, c \in NewIssues(w) : ~(a = Opened(c) /\ b = M(y))
    BY <1>0, <1>2, <1>3, <1>7
  <2>4. \A c, d \in NewIssues(w) : ~(a = Opened(c) /\ b = Opened(d))
    BY <1>1, <1>3, <1>7
  <2> QED BY <1>4, <2>1, <2>2, <2>3, <2>4
<1>8. ASSUME NEW a \in RowsAfter(w, S), NEW n \in 1 .. a.occurrence
      PROVE  \E b \in RowsAfter(w, S) : b.key = a.key /\ b.occurrence = n
  <2>1. ASSUME NEW x \in reviews, NEW k \in 1 .. x.occurrence
        PROVE  \E b \in RowsAfter(w, S) : b.key = x.key /\ b.occurrence = k
    <3>1. PICK y \in reviews : y.key = x.key /\ y.occurrence = k
      BY DEF IInv, Gapless
    <3> QED BY <1>2, <1>5, <3>1
  <2>2. ASSUME NEW x \in reviews, a = M(x)
        PROVE  \E b \in RowsAfter(w, S) : b.key = a.key /\ b.occurrence = n
    BY <1>2, <2>1, <2>2
  <2>3. ASSUME NEW c \in NewIssues(w), a = Opened(c)
        PROVE  \E b \in RowsAfter(w, S) : b.key = a.key /\ b.occurrence = n
    <3>1. CASE n = a.occurrence
      BY <3>1
    <3>2. CASE n # a.occurrence
      <4>1. a.occurrence \in Nat \ {0} /\ a.key = c.key
        BY <1>3, <2>3
      <4>2. a.occurrence # 1 /\ n \in 1 .. (a.occurrence - 1)
        BY <3>2, <4>1
      <4>3. PICK x \in reviews : x.key = c.key /\ x.occurrence = a.occurrence - 1
        BY <1>3, <2>3, <4>2
      <4> QED BY <2>1, <4>1, <4>2, <4>3
    <3> QED BY <3>1, <3>2
  <2> QED BY <1>4, <2>2, <2>3
<1> QED BY <1>6, <1>7, <1>8 DEF OneRow, Ordered, Gapless

-----------------------------------------------------------------------------
(* Finitely many issues, reviews and ids.                                  *)

LEMMA ImageFinite ==
  ASSUME NEW A, IsFiniteSet(A), NEW f
  PROVE  IsFiniteSet({f[x] : x \in A})
<1> DEFINE B == {f[x] : x \in A}
           g == [x \in A |-> f[x]]
<1>1. g \in [A -> B] /\ \A y \in B : \E x \in A : g[x] = y
  OBVIOUS
<1>2. g \in Surjection(A, B)
  BY <1>1 DEF Surjection
<1> QED BY <1>2, FS_Surjection

LEMMA IssuesFinite ==
  ASSUME NEW w \in WorldType, NEW S \in SUBSET Records, NEW v
  PROVE  /\ IsFiniteSet(Pairs) /\ IsFiniteSet(Within(S)) /\ IsFiniteSet(IdsOf(w, S))
         /\ IsFiniteSet(Candidates(w, S, v))
<1> DEFINE pairs == {p \in Within(S) : w.facts[p] \in Summaries}
           golds == {pos \in IdsOf(w, S) \X Fields : w.gold[pos] = 0}
           f == [p \in pairs |-> [key |-> PairKey(v, p), summary |-> w.facts[p]]]
           g == [pos \in golds |-> [key |-> GoldenKey(v, pos[1], pos[2]), summary |-> "issue"]]
<1>1. IsFiniteSet(Pairs)
  <2>1. IsFiniteSet(Records \X Records)
    BY FS_Product, WorldsAssumption
  <2> QED BY <2>1, FS_Subset DEF Pairs
<1>2. IsFiniteSet(Within(S))
  BY <1>1, FS_Subset DEF Within
<1>3. IsFiniteSet(pairs)
  BY <1>2, FS_Subset
<1>4. IsFiniteSet(IdsOf(w, S))
  BY WorldIs
<1>5. IsFiniteSet(IdsOf(w, S) \X Fields)
  BY <1>4, FS_Product, WorldsAssumption
<1>6. IsFiniteSet(golds)
  BY <1>5, FS_Subset
<1>7. Candidates(w, S, v) = {f[p] : p \in pairs} \cup {g[pos] : pos \in golds}
  BY DEF Candidates, IdsOf
<1> HIDE DEF pairs, golds, f, g
<1>8. IsFiniteSet({f[p] : p \in pairs}) /\ IsFiniteSet({g[pos] : pos \in golds})
  BY <1>3, <1>6, ImageFinite
<1> QED BY <1>1, <1>2, <1>4, <1>7, <1>8, FS_Union

LEMMA RowsFinite ==
  ASSUME IInv, revision < MaxRevision,
         NEW w \in WorldType, NEW S \in SUBSET Records, PartOk(w, S), Possible(w)
  PROVE  IsFiniteSet(RowsAfter(w, S))
<1> DEFINE f == [row \in reviews |-> Moved(w, S, row)]
           g == [c \in NewIssues(w) |-> Opened(c)]
<1>1. IsFiniteSet(reviews)
  BY DEF IInv
<1>2. IsFiniteSet(NewIssues(w))
  <2>1. IsFiniteSet(Whole(w))
    BY IssuesFinite DEF Whole
  <2> QED BY <2>1, FS_Subset DEF NewIssues
<1>3. RowsAfter(w, S) = {f[row] : row \in reviews} \cup {g[c] : c \in NewIssues(w)}
  BY DEF RowsAfter
<1> HIDE DEF f, g
<1>4. IsFiniteSet({f[row] : row \in reviews}) /\ IsFiniteSet({g[c] : c \in NewIssues(w)})
  BY <1>1, <1>2, ImageFinite
<1> QED BY <1>3, <1>4, FS_Union

Part(w, S) == Evaluation(w, S, revision + 1)

LEMMA PartFields ==
  ASSUME NEW w, NEW S
  PROVE  /\ DOMAIN Part(w, S).memberships = S
         /\ \A r \in S : Part(w, S).memberships[r] = NextMembership(w, r, revision + 1)
         /\ Part(w, S).ids = IdsOf(w, S)
         /\ DOMAIN Part(w, S).golden = IdsOf(w, S) \X Fields
         /\ \A pos \in IdsOf(w, S) \X Fields : Part(w, S).golden[pos] = w.gold[pos]
         /\ \A p \in Within(S) : Part(w, S).facts[p] = w.facts[p]
         /\ Part(w, S).loaded = LoadedOf(S)
         /\ Part(w, S).reviews
              = Reconcile(LoadedOf(S), Candidates(w, S, version), revision + 1)
         /\ Part(w, S).opening = NewReviews(LoadedOf(S), Candidates(w, S, version))
BY DEF Part, Evaluation, IdsOf, LoadedOf

-----------------------------------------------------------------------------
(* What a publication writes.                                              *)

\* What every publication does, its reviews, their output rows and their cases
\* left open.
Publishes(w, S) ==
  /\ w \in WorldType /\ S \in SUBSET Records /\ PartOk(w, S) /\ Possible(w)
  /\ revision < MaxRevision
  /\ Publish(w, S, Part(w, S))
  /\ seen' = [version |-> version, epoch |-> epoch]
  /\ (\E late \in SUBSET Part(w, S).opening : nil' = nil \cup late) /\ UNCHANGED refused
  /\ UNCHANGED entity

\* Every review has an id of its own, or is the first with the nil id.
Writes(w, S) == Publishes(w, S) /\ WriteReviews(Part(w, S), revision + 1)

LEMMA PublishWorld ==
  ASSUME NEW w, NEW S, Publishes(w, S)
  PROVE  /\ revision' = revision + 1 /\ version' = version /\ epoch' = epoch
         /\ truth' = [world |-> w, version |-> version] /\ seen'.version = version
         /\ registry' = registry \cup IdsOf(w, S)
<1>1. /\ revision' = revision + 1 /\ version' = version /\ epoch' = epoch
      /\ truth' = [world |-> w, version |-> version] /\ seen'.version = version
      /\ registry' = registry \cup Part(w, S).ids
  BY DEF Publishes, Publish, entity
<1> QED BY <1>1, PartFields

\* The reviews of the part replace those that were loaded.
LEMMA PartRows ==
  ASSUME IInv, NEW w, NEW S, Publishes(w, S)
  PROVE  /\ (reviews \ Part(w, S).loaded) \cup Part(w, S).reviews = RowsAfter(w, S)
         /\ Part(w, S).opening = {CaseOf(Opened(c)) : c \in NewIssues(w)}
         /\ RowsAfter(w, S) \subseteq ReviewRows /\ OneRow(RowsAfter(w, S))
         /\ Timed(RowsAfter(w, S), revision + 1, registry \cup IdsOf(w, S))
<1>1. /\ w \in WorldType /\ S \in SUBSET Records /\ PartOk(w, S) /\ Possible(w)
      /\ revision < MaxRevision
  BY DEF Publishes
<1>2. /\ Part(w, S).loaded = LoadedOf(S)
      /\ Part(w, S).reviews = Reconcile(LoadedOf(S), Candidates(w, S, version), revision + 1)
      /\ Part(w, S).opening = NewReviews(LoadedOf(S), Candidates(w, S, version))
  BY PartFields
<1>3. /\ (reviews \ LoadedOf(S)) \cup Reconcile(LoadedOf(S), Candidates(w, S, version), revision + 1)
           = RowsAfter(w, S)
      /\ NewReviews(LoadedOf(S), Candidates(w, S, version)) = {CaseOf(Opened(c)) : c \in NewIssues(w)}
  BY <1>1, ReconcileIs
<1>4. /\ RowsAfter(w, S) \subseteq ReviewRows /\ OneRow(RowsAfter(w, S))
      /\ Timed(RowsAfter(w, S), revision + 1, registry \cup IdsOf(w, S))
  BY <1>1, RowsTimed, RowsChained
<1> QED BY <1>2, <1>3, <1>4

LEMMA PublishReviews ==
  ASSUME IInv, NEW w, NEW S, Writes(w, S)
  PROVE  /\ Publishes(w, S) /\ reviews' = RowsAfter(w, S)
         /\ reviews' \subseteq ReviewRows /\ IsFiniteSet(reviews') /\ OpenIs'
         /\ Timed(reviews', revision', registry') /\ OneRow(reviews')
         /\ Ordered(reviews') /\ Gapless(reviews')
<1>1. /\ Publishes(w, S)
      /\ w \in WorldType /\ S \in SUBSET Records /\ PartOk(w, S) /\ Possible(w)
      /\ revision < MaxRevision
  BY DEF Writes, Publishes
<1>2. /\ revision' = revision + 1
      /\ truth' = [world |-> w, version |-> version] /\ seen'.version = version
      /\ registry' = registry \cup IdsOf(w, S)
  BY <1>1, PublishWorld
<1>4. reviews' = RowsAfter(w, S)
  BY <1>1, PartRows DEF Writes, WriteReviews
<1>5. OpenIs'
  <2>1. OpenOf(RowsAfter(w, S)) = Whole(w)
    BY <1>1, RowsOpen
  <2>2. truth'.world = w /\ truth'.version = version
    BY <1>2
  <2>3. OpenOf(reviews') = Candidates(truth'.world, Records, truth'.version)
        /\ OpenOf(reviews') = Candidates(truth'.world, Records, seen'.version)
    BY <1>2, <1>4, <2>1, <2>2 DEF Whole
  <2> QED BY <2>3 DEF OpenIs, OpenOf, Candidates, Within, Pairs, PairKey, GoldenKey
<1>6. RowsAfter(w, S) \subseteq ReviewRows
      /\ Timed(RowsAfter(w, S), revision + 1, registry \cup IdsOf(w, S))
  BY <1>1, RowsTimed
<1>7. OneRow(RowsAfter(w, S)) /\ Ordered(RowsAfter(w, S)) /\ Gapless(RowsAfter(w, S))
  BY <1>1, RowsChained
<1>8. IsFiniteSet(RowsAfter(w, S))
  BY <1>1, RowsFinite
<1> QED BY <1>1, <1>2, <1>4, <1>5, <1>6, <1>7, <1>8

\* Rows of records, as the evaluation makes them of others.
LEMMA MembershipRowsAre ==
  /\ \A row \in MembershipRows, at \in Ids \cup {0}, b \in BOOLEAN :
       LET x == [row EXCEPT !.id = at, !.active = b]
       IN  x \in MembershipRows /\ x.id = at /\ x.active = b
  /\ \A row \in MembershipRows, b \in BOOLEAN :
       LET x == [row EXCEPT !.active = b]
       IN  x \in MembershipRows /\ x.id = row.id /\ x.active = b
  /\ \A row \in MembershipRows, rev \in Nat :
       LET x == [row EXCEPT !.changed = rev]
       IN  /\ rev <= MaxRevision => x \in MembershipRows
           /\ x.id = row.id /\ x.active = row.active
<1>1. ASSUME NEW row \in MembershipRows, NEW at \in Ids \cup {0}, NEW b \in BOOLEAN
      PROVE  LET x == [row EXCEPT !.id = at, !.active = b]
             IN  x \in MembershipRows /\ x.id = at /\ x.active = b
  BY DEF MembershipRows
<1>2. ASSUME NEW row \in MembershipRows, NEW b \in BOOLEAN
      PROVE  LET x == [row EXCEPT !.active = b]
             IN  x \in MembershipRows /\ x.id = row.id /\ x.active = b
  BY DEF MembershipRows
<1>3. ASSUME NEW row \in MembershipRows, NEW rev \in Nat
      PROVE  LET x == [row EXCEPT !.changed = rev]
             IN  /\ rev <= MaxRevision => x \in MembershipRows
                 /\ x.id = row.id /\ x.active = row.active
  BY BoundsAssumption DEF MembershipRows
<1> QED BY <1>1, <1>2, <1>3, Zenon

LEMMA NextMembershipIs ==
  ASSUME IInv, NEW w \in WorldType, NEW r \in Records
  PROVE  LET new == NextMembership(w, r, revision + 1)
         IN  /\ revision < MaxRevision => new \in MembershipRows
             /\ w.at[r] # 0 => new.active /\ new.id = w.at[r]
             /\ w.at[r] = 0 => ~new.active /\ new.id = memberships[r].id
<1> DEFINE rev == revision + 1
           new == NextMembership(w, r, rev)
           at == w.at[r]
           old == memberships[r]
           on == [old EXCEPT !.id = at, !.active = TRUE]
           off == [old EXCEPT !.active = FALSE]
<1>1. /\ old \in MembershipRows /\ rev \in Nat /\ at \in Ids \cup {0}
  BY BoundsAssumption DEF IInv, TypeOK, WorldType
<1>2. TRUE \in BOOLEAN /\ FALSE \in BOOLEAN
  OBVIOUS
<1>3. new = LET x == IF at # 0 THEN on ELSE off
            IN  IF x = old THEN old ELSE [x EXCEPT !.changed = rev]
  BY Zenon DEF NextMembership
<1> HIDE DEF rev, at, old, new
<1>4. on \in MembershipRows /\ on.id = at /\ on.active = TRUE
  BY <1>1, <1>2, MembershipRowsAre, Zenon
<1>5. off \in MembershipRows /\ off.id = old.id /\ off.active = FALSE
  BY <1>1, <1>2, MembershipRowsAre, Zenon
<1> DEFINE kept == [on EXCEPT !.changed = rev]
           left == [off EXCEPT !.changed = rev]
<1> HIDE DEF on, off
<1>6. (rev <= MaxRevision => kept \in MembershipRows) /\ kept.id = on.id /\ kept.active = on.active
  BY <1>1, <1>4, MembershipRowsAre
<1>7. (rev <= MaxRevision => left \in MembershipRows) /\ left.id = off.id /\ left.active = off.active
  BY <1>1, <1>5, MembershipRowsAre
<1>8. /\ at # 0 => new = on \/ new = kept
      /\ at = 0 => new = off \/ new = left
  BY <1>3
<1> HIDE DEF kept, left
<1>9. /\ rev <= MaxRevision => new \in MembershipRows
      /\ at # 0 => new.active /\ new.id = at
      /\ at = 0 => ~new.active /\ new.id = old.id
  BY <1>4, <1>5, <1>6, <1>7, <1>8, Zenon
<1>10. revision < MaxRevision => rev <= MaxRevision
  BY BoundsAssumption DEF rev, IInv, TypeOK
<1> QED BY <1>9, <1>10 DEF rev, at, old, new

LEMMA PublishMembers ==
  ASSUME IInv, NEW w, NEW S, Publishes(w, S)
  PROVE  /\ memberships' \in [Records -> MembershipRows]
         /\ \A r \in S : memberships'[r] = Part(w, S).memberships[r]
         /\ \A r \in Records \ S : memberships'[r] = memberships[r]
         /\ MembersMirror'
<1>1. /\ w \in WorldType /\ S \in SUBSET Records /\ PartOk(w, S) /\ revision < MaxRevision
  BY DEF Publishes
<1>2. memberships' = [r \in Records |-> IF r \in S THEN NextMembership(w, r, revision + 1)
                                        ELSE memberships[r]]
  <2>1. memberships' = [r \in Records |-> IF r \in S THEN Part(w, S).memberships[r]
                                          ELSE memberships[r]]
    BY DEF Publishes, Publish
  <2>2. \A r \in S : Part(w, S).memberships[r] = NextMembership(w, r, revision + 1)
    BY PartFields
  <2> QED BY <2>1, <2>2
<1>3. \A r \in Records :
        LET new == NextMembership(w, r, revision + 1)
        IN  /\ new \in MembershipRows
            /\ w.at[r] # 0 => new.active /\ new.id = w.at[r]
            /\ w.at[r] = 0 => ~new.active /\ new.id = memberships[r].id
  BY <1>1, NextMembershipIs
<1>4. memberships \in [Records -> MembershipRows]
  BY DEF IInv, TypeOK
<1>5. memberships' \in [Records -> MembershipRows]
  BY <1>2, <1>3, <1>4
<1>6. truth'.world = w /\ registry' = registry \cup IdsOf(w, S)
  BY PublishWorld
<1>7. ASSUME NEW r \in Records
      PROVE  /\ w.at[r] = IF memberships'[r].active THEN memberships'[r].id ELSE 0
             /\ memberships'[r].active => memberships'[r].id # 0
             /\ memberships'[r].id \in registry' \cup {0}
  <2>0. /\ At[r] = IF memberships[r].active THEN memberships[r].id ELSE 0
        /\ memberships[r].active => memberships[r].id # 0
        /\ memberships[r].id \in registry \cup {0}
    BY DEF IInv, MembersMirror, At
  <2>1. CASE r \in S
    <3>1. w.at[r] # 0 => w.at[r] \in IdsOf(w, S)
      BY <2>1 DEF IdsOf
    <3> QED BY <1>1, <1>2, <1>3, <1>6, <2>0, <2>1, <3>1
  <2>2. CASE r \notin S
    <3>1. w.at[r] = At[r] /\ memberships'[r] = memberships[r]
      BY <1>1, <1>2, <2>2 DEF PartOk
    <3> QED BY <1>6, <2>0, <3>1
  <2> QED BY <2>1, <2>2
<1>8. MembersMirror'
  BY <1>6, <1>7 DEF MembersMirror
<1>9. \A r \in S : memberships'[r] = Part(w, S).memberships[r]
  <2>1. \A r \in S : Part(w, S).memberships[r] = NextMembership(w, r, revision + 1)
    BY PartFields
  <2> QED BY <1>1, <1>2, <2>1
<1>10. \A r \in Records \ S : memberships'[r] = memberships[r]
  BY <1>2
<1> QED BY <1>5, <1>8, <1>9, <1>10

\* The ids of components outside the part.
Rest(S) == IdsOf(truth.world, Records \ S)

ScopeOf(w, S) == IF S = Records THEN DOMAIN outEntity ELSE SelectedIds(S) \cup IdsOf(w, S)

LEMMA RestIs ==
  ASSUME IInv, NEW w \in WorldType, NEW S \in SUBSET Records, PartOk(w, S)
  PROVE  /\ DOMAIN outEntity \ ScopeOf(w, S) = Rest(S)
         /\ TruthIds \ (SelectedIds(S) \cup IdsOf(w, S)) = Rest(S)
         /\ IdsOf(w, Records) = IdsOf(w, S) \cup Rest(S) /\ IdsOf(w, S) \cap Rest(S) = {}
         /\ Rest(S) \subseteq TruthIds
         /\ \A m \in Rest(S) :
              /\ \A f \in Fields : w.gold[<<m, f>>] = truth.world.gold[<<m, f>>]
              /\ {r \in Records : At[r] = m} = {r \in Records : w.at[r] = m}
<1>1. /\ IdsOf(w, Records) = IdsOf(w, S) \cup Rest(S)
      /\ TruthIds = IdsOf(truth.world, S) \cup Rest(S)
      /\ IdsOf(w, S) \cap Rest(S) = {} /\ SelectedIds(S) \cap Rest(S) = {}
      /\ IdsOf(truth.world, S) \subseteq SelectedIds(S)
  BY IdsSplit DEF Rest
<1>2. TruthIds \ (SelectedIds(S) \cup IdsOf(w, S)) = Rest(S)
  BY <1>1
<1>3. DOMAIN outEntity = TruthIds
  BY DEF IInv, EntityMirror
<1>4. S = Records => Rest(S) = {}
  BY DEF Rest, IdsOf
<1>5. DOMAIN outEntity \ ScopeOf(w, S) = Rest(S)
  BY <1>2, <1>3, <1>4 DEF ScopeOf
<1>6. ASSUME NEW m \in Rest(S)
      PROVE  /\ \A f \in Fields : w.gold[<<m, f>>] = truth.world.gold[<<m, f>>]
             /\ {r \in Records : At[r] = m} = {r \in Records : w.at[r] = m}
  <2>1. PICK r \in Records \ S : m = At[r] /\ m # 0
    BY DEF Rest, IdsOf, At
  <2>2. \A q \in Records \ S : w.at[q] = At[q]
    BY DEF PartOk
  <2>3. \A f \in Fields : w.gold[<<m, f>>] = truth.world.gold[<<m, f>>]
    BY <2>1, <2>2 DEF PartOk
  <2>4. ASSUME NEW q \in S
        PROVE  At[q] # m /\ w.at[q] # m
    <3>1. At[q] = m => m \in SelectedIds(S)
      BY <1>1, <2>1 DEF IdsOf, At
    <3>2. w.at[q] = m => m \in IdsOf(w, S)
      BY <2>1 DEF IdsOf
    <3> QED BY <1>1, <3>1, <3>2
  <2> QED BY <2>2, <2>3, <2>4
<1> QED BY <1>1, <1>2, <1>5, <1>6

\* The row of an entity in the table.
RowMirrors(row, w, m, flag) ==
  /\ DOMAIN row = {"gold", "count", "has_review", "changed"}
  /\ row.gold = [f \in Fields |-> w.gold[<<m, f>>]]
  /\ row.count = Cardinality({r \in Records : w.at[r] = m})
  /\ row.has_review = flag

LEMMA PublishEntities ==
  ASSUME IInv, NEW w, NEW S, Publishes(w, S)
  PROVE  /\ DOMAIN outEntity' \subseteq registry' /\ DOMAIN outEntity' = TruthIds'
         /\ reviews' = RowsAfter(w, S) => EntityMirror'
<1> DEFINE e == Part(w, S)
           rev == revision + 1
           flag == \E row \in RowsAfter(w, S) : row.status = "open"
<1>1. /\ w \in WorldType /\ S \in SUBSET Records /\ PartOk(w, S) /\ revision < MaxRevision
  BY DEF Publishes
<1>2. e.ids = IdsOf(w, S)
  BY PartFields
<1>3. outEntity' = EntityTable(e, ScopeOf(w, S), rev, flag)
  <2>1. /\ RowsAfter(w, S) = (reviews \ e.loaded) \cup e.reviews
        /\ outEntity' = EntityTable(e, IF S = Records THEN DOMAIN outEntity
                                       ELSE SelectedIds(S) \cup e.ids,
                                    rev, \E row \in (reviews \ e.loaded) \cup e.reviews :
                                           row.status = "open")
    BY PartRows DEF Publishes, Publish
  <2> HIDE DEF e
  <2> QED BY <1>2, <2>1 DEF ScopeOf
<1>4. truth'.world = w /\ registry' = registry \cup IdsOf(w, S)
  BY PublishWorld
<1> DEFINE ids == IdsOf(w, S)
           row(m) == EntityRow(e, m, rev, flag)
           marked(m) == [outEntity[m] EXCEPT !.has_review = flag, !.changed = rev]
<1>5. /\ DOMAIN outEntity' = Rest(S) \cup ids
      /\ \A m \in ids : outEntity'[m] = row(m)
      /\ \A m \in Rest(S) :
           outEntity'[m] = IF outEntity[m].has_review # flag THEN marked(m) ELSE outEntity[m]
  <2>1. Remaining(outEntity, ids, ScopeOf(w, S)) = Rest(S) \cup ids /\ ids \cap Rest(S) = {}
    BY <1>1, RestIs DEF Remaining
  <2>2. outEntity' = [m \in Rest(S) \cup ids |->
                        IF m \in ids THEN row(m)
                        ELSE IF outEntity[m].has_review # flag THEN marked(m)
                        ELSE outEntity[m]]
    <3> HIDE DEF flag, rev, e
    <3> QED BY <1>2, <1>3, <2>1 DEF EntityTable
  <2> HIDE DEF row, marked, ids, flag
  <2> QED BY <2>1, <2>2
<1>6. ASSUME NEW m \in ids
      PROVE  RowMirrors(row(m), w, m, flag)
  <2>1. \A f \in Fields : e.golden[<<m, f>>] = w.gold[<<m, f>>]
    BY PartFields
  <2>2. {r \in DOMAIN e.memberships : e.memberships[r].active /\ e.memberships[r].id = m}
          = {r \in Records : w.at[r] = m}
    <3>1. ASSUME NEW r \in S
          PROVE  (e.memberships[r].active /\ e.memberships[r].id = m) <=> w.at[r] = m
      <4>1. e.memberships[r] = NextMembership(w, r, rev)
        BY PartFields
      <4>2. r \in Records
        BY <1>1
      <4>3. /\ w.at[r] # 0 => e.memberships[r].active /\ e.memberships[r].id = w.at[r]
            /\ w.at[r] = 0 => ~e.memberships[r].active
        BY <1>1, <4>1, <4>2, NextMembershipIs
      <4>4. m # 0
        BY DEF IdsOf
      <4> QED BY <4>3, <4>4
    <3>2. ASSUME NEW r \in Records \ S
          PROVE  w.at[r] # m
      <4>1. w.at[r] = At[r]
        BY <1>1 DEF PartOk
      <4>2. At[r] # 0 => At[r] \in Rest(S)
        BY DEF Rest, IdsOf, At
      <4>3. ids \cap Rest(S) = {} /\ m # 0
        BY <1>1, RestIs DEF IdsOf
      <4> QED BY <4>1, <4>2, <4>3
    <3>3. DOMAIN e.memberships = S
      BY PartFields
    <3> HIDE DEF e, ids
    <3> QED BY <1>1, <3>1, <3>2, <3>3
  <2>3. row(m) = [gold |-> [f \in Fields |-> w.gold[<<m, f>>]],
                  count |-> Cardinality({r \in Records : w.at[r] = m}),
                  has_review |-> flag, changed |-> rev]
    <3> HIDE DEF e, flag, rev
    <3>1. [f \in Fields |-> e.golden[<<m, f>>]] = [f \in Fields |-> w.gold[<<m, f>>]]
      BY <2>1
    <3>2. row(m) = [gold |-> [f \in Fields |-> e.golden[<<m, f>>]],
                    count |-> Cardinality({r \in DOMAIN e.memberships :
                                e.memberships[r].active /\ e.memberships[r].id = m}),
                    has_review |-> flag, changed |-> rev]
      BY Zenon DEF EntityRow
    <3> QED BY <2>2, <3>1, <3>2, Zenon
  <2> DEFINE gold == [f \in Fields |-> w.gold[<<m, f>>]]
             count == Cardinality({r \in Records : w.at[r] = m})
             new == row(m)
  <2>4. new = [gold |-> gold, count |-> count, has_review |-> flag, changed |-> rev]
    BY <2>3
  <2> HIDE DEF gold, count, flag, rev, new
  <2>5. /\ DOMAIN new = {"gold", "count", "has_review", "changed"}
        /\ new.gold = gold /\ new.count = count /\ new.has_review = flag
    BY <2>4
  <2> QED BY <2>5 DEF RowMirrors, gold, count, new
<1>7. ASSUME NEW m \in Rest(S)
      PROVE  RowMirrors(outEntity'[m], w, m, flag)
  <2>1. /\ DOMAIN outEntity[m] = {"gold", "count", "has_review", "changed"}
        /\ outEntity[m].gold = [f \in Fields |-> truth.world.gold[<<m, f>>]]
        /\ outEntity[m].count = Cardinality({r \in Records : At[r] = m})
    BY <1>1, RestIs DEF IInv, EntityMirror
  <2>2. outEntity[m].gold = [f \in Fields |-> w.gold[<<m, f>>]]
    BY <1>1, <2>1, RestIs
  <2>3. outEntity[m].count = Cardinality({r \in Records : w.at[r] = m})
    BY <1>1, <2>1, RestIs
  <2> DEFINE gold == [f \in Fields |-> w.gold[<<m, f>>]]
             count == Cardinality({r \in Records : w.at[r] = m})
             old == outEntity[m]
             new == outEntity'[m]
  <2>4. /\ DOMAIN old = {"gold", "count", "has_review", "changed"}
        /\ old.gold = gold /\ old.count = count
    BY <2>1, <2>2, <2>3
  <2>5. new = IF old.has_review # flag THEN [old EXCEPT !.has_review = flag, !.changed = rev] ELSE old
    BY <1>5
  <2> HIDE DEF gold, count, old, new, flag, rev
  <2>6. /\ DOMAIN new = {"gold", "count", "has_review", "changed"}
        /\ new.gold = gold /\ new.count = count /\ new.has_review = flag
    BY <2>4, <2>5
  <2> QED BY <2>6 DEF RowMirrors, gold, count, new
<1>8. \A m \in IdsOf(w, Records) : RowMirrors(outEntity'[m], w, m, flag)
  <2> HIDE DEF row, flag, rev
  <2>1. \A m \in ids : RowMirrors(outEntity'[m], w, m, flag)
    BY <1>5, <1>6
  <2>2. IdsOf(w, Records) = ids \cup Rest(S)
    BY <1>1, RestIs
  <2> QED BY <1>7, <2>1, <2>2
<1>9. TruthIds' = IdsOf(w, Records) /\ DOMAIN outEntity' = IdsOf(w, Records)
  <2>1. TruthIds' = IdsOf(w, Records)
    BY <1>4 DEF TruthIds, At, IdsOf
  <2>2. IdsOf(w, Records) = IdsOf(w, S) \cup Rest(S)
    BY <1>1, RestIs
  <2> QED BY <1>5, <2>1, <2>2
<1>10. ASSUME reviews' = RowsAfter(w, S) PROVE EntityMirror'
  <2>1. \A m \in TruthIds' :
          /\ DOMAIN outEntity'[m] = {"gold", "count", "has_review", "changed"}
          /\ outEntity'[m].gold = [f \in Fields |-> truth'.world.gold[<<m, f>>]]
          /\ outEntity'[m].count = Cardinality({r \in Records : truth'.world.at[r] = m})
          /\ outEntity'[m].has_review = flag
    BY <1>4, <1>8, <1>9 DEF RowMirrors
  <2> QED BY <1>9, <1>10, <2>1 DEF EntityMirror, At
<1>11. DOMAIN outEntity' \subseteq registry'
  <2>1. Rest(S) \subseteq DOMAIN outEntity
    BY <1>1, RestIs
  <2>2. DOMAIN outEntity \subseteq registry
    BY DEF IInv, TypeOK
  <2> QED BY <1>4, <1>5, <2>1, <2>2
<1> QED BY <1>9, <1>10, <1>11

LEMMA PublishValues ==
  ASSUME IInv, NEW w, NEW S, Publishes(w, S)
  PROVE  ValuesMirror'
<1> DEFINE e == Part(w, S)
           ids == IdsOf(w, S)
           scope == SelectedIds(S) \cup ids
           kept == {pos \in DOMAIN provenance : pos[1] \notin scope}
<1>1. /\ w \in WorldType /\ S \in SUBSET Records /\ PartOk(w, S)
      /\ w.facts \in [Pairs -> Summaries \cup {"none", "accepted"}]
  BY DEF Publishes, WorldType
<1>2. truth'.world = w /\ TruthIds' = ids \cup Rest(S)
  <2>1. truth'.world = w
    BY PublishWorld
  <2>2. TruthIds' = IdsOf(w, Records)
    BY <2>1 DEF TruthIds, At, IdsOf
  <2> QED BY <1>1, <2>1, <2>2, RestIs
<1>3. e.ids = ids /\ DOMAIN e.golden = ids \X Fields
      /\ \A pos \in ids \X Fields : e.golden[pos] = w.gold[pos]
  BY PartFields
<1>4. provenance = [pos \in TruthIds \X Fields |-> truth.world.gold[pos]]
      /\ facts = truth.world.facts
  BY DEF IInv, ValuesMirror
<1>5. kept = Rest(S) \X Fields
  <2>1. TruthIds \ scope = Rest(S)
    BY <1>1, RestIs
  <2> HIDE DEF scope
  <2>2. kept = {pos \in TruthIds \X Fields : pos[1] \notin scope}
    BY <1>4
  <2> QED BY <2>1, <2>2
<1>6. \A pos \in Rest(S) \X Fields : provenance[pos] = w.gold[pos]
  <2>1. ASSUME NEW m \in Rest(S), NEW f \in Fields
        PROVE  provenance[<<m, f>>] = w.gold[<<m, f>>]
    <3>1. m \in TruthIds /\ w.gold[<<m, f>>] = truth.world.gold[<<m, f>>]
      BY <1>1, RestIs
    <3> QED BY <1>4, <3>1
  <2> QED BY <2>1
<1>7. provenance' = [pos \in (ids \cup Rest(S)) \X Fields |-> w.gold[pos]]
  <2>1. provenance' = Snapshot(e, scope)
    <3>1. provenance' = Snapshot(e, SelectedIds(S) \cup e.ids)
      BY DEF Publishes, Publish
    <3> QED BY <1>3, <3>1
  <2>2. provenance' = [pos \in kept \cup DOMAIN e.golden |->
                         IF pos \in DOMAIN e.golden THEN e.golden[pos] ELSE provenance[pos]]
    BY <2>1 DEF Snapshot
  <2> HIDE DEF e, scope, kept, ids
  <2>3. kept \cup DOMAIN e.golden = (ids \cup Rest(S)) \X Fields
    BY <1>3, <1>5
  <2>4. \A pos \in (ids \cup Rest(S)) \X Fields :
          (IF pos \in DOMAIN e.golden THEN e.golden[pos] ELSE provenance[pos]) = w.gold[pos]
    BY <1>3, <1>6
  <2> QED BY <2>2, <2>3, <2>4
<1>8. facts' = w.facts
  <2>1. facts' = [p \in Pairs |-> IF p \in Within(S) THEN e.facts[p] ELSE facts[p]]
    BY DEF Publishes, Publish
  <2>2. \A p \in Within(S) : e.facts[p] = w.facts[p]
    BY PartFields
  <2>3. \A p \in Pairs \ Within(S) : facts[p] = w.facts[p]
    BY <1>1, <1>4 DEF PartOk
  <2> HIDE DEF e
  <2> QED BY <1>1, <2>1, <2>2, <2>3
<1> QED BY <1>2, <1>7, <1>8 DEF ValuesMirror

\* The rest of a row determines everything but its summary.
Blank(row) == [row EXCEPT !.summary = "issue"]

LEMMA BlankIs ==
  /\ \A a, b \in ReviewRows : Blank(a) = Blank(b) =>
       /\ SameReview(a, b) /\ a.status = b.status /\ a.version = b.version
       /\ a.changed = b.changed
  /\ \A a \in ReviewRows, x \in Summaries \cup {"issue"} :
       /\ [a EXCEPT !.summary = x] \in ReviewRows
       /\ Blank([a EXCEPT !.summary = x]) = Blank(a)
<1>1. ASSUME NEW a \in ReviewRows, NEW b \in ReviewRows, Blank(a) = Blank(b)
      PROVE  /\ SameReview(a, b) /\ a.status = b.status /\ a.version = b.version
             /\ a.changed = b.changed
  <2>1. \A c \in ReviewRows :
          /\ Blank(c).key = c.key /\ Blank(c).occurrence = c.occurrence
          /\ Blank(c).status = c.status /\ Blank(c).version = c.version
          /\ Blank(c).changed = c.changed
    BY DEF Blank, ReviewRows
  <2> QED BY <1>1, <2>1 DEF SameReview
<1>2. ASSUME NEW a \in ReviewRows, NEW x \in Summaries \cup {"issue"}
      PROVE  /\ [a EXCEPT !.summary = x] \in ReviewRows
             /\ Blank([a EXCEPT !.summary = x]) = Blank(a)
  BY DEF Blank, ReviewRows
<1> QED BY <1>1, <1>2

Alike(A, B) ==
  /\ \A a \in A : \E b \in B : Blank(a) = Blank(b)
  /\ \A b \in B : \E a \in A : Blank(a) = Blank(b)

LEMMA ShapeIs ==
  ASSUME NEW A, NEW B
  PROVE  Shape(A) = Shape(B) <=> Alike(A, B)
<1> DEFINE X == {Blank(a) : a \in A}
           Y == {Blank(b) : b \in B}
<1>1. Shape(A) = X /\ Shape(B) = Y
  BY DEF Shape, Blank
<1>2. X = Y <=> Alike(A, B)
  BY DEF Alike
<1> QED BY <1>1, <1>2

LEMMA PublishMemberRows ==
  ASSUME IInv, NEW w, NEW S, Publishes(w, S)
  PROVE  /\ outMembers' = [r \in {q \in Records : memberships'[q] # NoRow} |-> memberships'[r]]
         /\ DOMAIN outMembers' \subseteq Records
<1> DEFINE e == Part(w, S)
           known == {r \in S : memberships'[r] # NoRow}
<1>1. S \in SUBSET Records
  BY DEF Publishes
<1>2. (\A r \in S : memberships'[r] = e.memberships[r])
      /\ \A r \in Records \ S : memberships'[r] = memberships[r]
  BY PublishMembers
<1>3. outMembers' = MemberTable(e, S)
  BY DEF Publishes, Publish
<1> HIDE DEF e
<1>4. known = {r \in S : e.memberships[r] # NoRow}
  BY <1>2
<1>5. outMembers' = [r \in Remaining(outMembers, known, S) |->
                       IF r \in known THEN e.memberships[r] ELSE outMembers[r]]
  BY <1>3, <1>4 DEF MemberTable
<1>6. outMembers = [r \in {q \in Records : memberships[q] # NoRow} |-> memberships[r]]
  BY DEF IInv, RowsMirror
<1>7. Remaining(outMembers, known, S) = {q \in Records : memberships'[q] # NoRow}
  BY <1>1, <1>2, <1>6 DEF Remaining
<1>8. \A r \in {q \in Records : memberships'[q] # NoRow} :
        (IF r \in known THEN e.memberships[r] ELSE outMembers[r]) = memberships'[r]
  BY <1>1, <1>2, <1>6
<1> HIDE DEF known
<1>9. outMembers' = [r \in {q \in Records : memberships'[q] # NoRow} |-> memberships'[r]]
  BY <1>5, <1>7, <1>8
<1> QED BY <1>9

LEMMA PublishedIs ==
  ASSUME IInv, NEW row \in ReviewRows
  PROVE  Published(row) \in ReviewRows /\ Blank(Published(row)) = Blank(row)
<1> DEFINE old == {o \in outReviews : SameReview(o, row)}
<1>1. CASE old = {}
  BY <1>1 DEF Published
<1>2. CASE old # {}
  <2> DEFINE o == CHOOSE x \in old : TRUE
  <2>1. o \in outReviews /\ outReviews \subseteq ReviewRows
    BY <1>2 DEF IInv, TypeOK
  <2>2. o.summary \in Summaries \cup {"issue"}
    BY <2>1 DEF ReviewRows
  <2>3. Published(row) = [row EXCEPT !.summary = o.summary]
    BY <1>2 DEF Published
  <2> HIDE DEF o
  <2> QED BY <2>2, <2>3, BlankIs
<1> QED BY <1>1, <1>2

LEMMA PublishTables ==
  ASSUME IInv, NEW w, NEW S, Writes(w, S)
  PROVE  RowsMirror' /\ outReviews' \subseteq ReviewRows
<1> DEFINE e == Part(w, S)
           loaded == LoadedOf(S)
           made == e.reviews
           rest == {o \in outReviews : \A row \in loaded : ~SameReview(o, row)}
<1>1. /\ w \in WorldType /\ S \in SUBSET Records /\ PartOk(w, S) /\ Possible(w)
      /\ revision < MaxRevision
  BY DEF Writes, Publishes
<1>2. /\ reviews' = (reviews \ loaded) \cup made /\ loaded \subseteq reviews
      /\ reviews' \subseteq ReviewRows
  <2>1. reviews' = (reviews \ e.loaded) \cup e.reviews /\ e.loaded = loaded
    BY PartFields DEF Writes, WriteReviews
  <2>2. loaded \subseteq reviews
    BY <1>1, LoadedAre
  <2>3. reviews' \subseteq ReviewRows
    BY PublishReviews
  <2> QED BY <2>1, <2>2, <2>3
<1>3. outReviews' = rest \cup {Published(row) : row \in made}
  <2>1. outReviews' = ReviewTable(e) /\ e.loaded = loaded
    BY PartFields DEF Writes, WriteReviews
  <2> HIDE DEF e, loaded
  <2> QED BY <2>1 DEF ReviewTable
<1>4. /\ outReviews \subseteq ReviewRows /\ reviews \subseteq ReviewRows
      /\ Shape(outReviews) = Shape(reviews) /\ OneRow(reviews)
  BY DEF IInv, TypeOK, RowsMirror
<1> HIDE DEF e, loaded, made
<1>5. Alike(outReviews, reviews)
  BY <1>4, ShapeIs
<1>6. ASSUME NEW row \in made
      PROVE  Published(row) \in ReviewRows /\ Blank(Published(row)) = Blank(row)
  BY <1>2, PublishedIs
<1>7. Alike(rest, reviews \ loaded)
  <2>1. ASSUME NEW o \in rest
        PROVE  \E row \in reviews \ loaded : Blank(o) = Blank(row)
    <3>1. PICK row \in reviews : Blank(o) = Blank(row)
      BY <1>5 DEF Alike
    <3>2. SameReview(o, row)
      BY <1>4, <3>1, BlankIs
    <3> QED BY <3>1, <3>2
  <2>2. ASSUME NEW row \in reviews \ loaded
        PROVE  \E o \in rest : Blank(o) = Blank(row)
    <3>1. PICK o \in outReviews : Blank(o) = Blank(row)
      BY <1>5 DEF Alike
    <3>2. SameReview(o, row)
      BY <1>4, <3>1, BlankIs
    <3>3. ASSUME NEW x \in loaded
          PROVE  ~SameReview(o, x)
      BY <1>2, <1>4, <3>2, <3>3 DEF OneRow, SameReview
    <3> QED BY <3>1, <3>3
  <2> HIDE DEF rest
  <2> QED BY <2>1, <2>2 DEF Alike
<1>8. Alike({Published(row) : row \in made}, made)
  BY <1>6 DEF Alike
<1>9. Shape(outReviews') = Shape(reviews')
  <2> DEFINE written == {Published(row) : row \in made}
  <2>1. Alike(rest, reviews \ loaded) /\ Alike(written, made)
    BY <1>7, <1>8
  <2> HIDE DEF rest, written
  <2>2. Alike(rest \cup written, (reviews \ loaded) \cup made)
    BY <2>1 DEF Alike
  <2>3. Shape(rest \cup written) = Shape((reviews \ loaded) \cup made)
    BY <2>2, ShapeIs
  <2> QED BY <1>2, <1>3, <2>3 DEF written
<1>10. outReviews' \subseteq ReviewRows
  BY <1>3, <1>4, <1>6
<1>11. outMembers' = [r \in {q \in Records : memberships'[q] # NoRow} |-> memberships'[r]]
  BY PublishMemberRows DEF Writes
<1>12. RowsMirror'
  BY <1>9, <1>11 DEF RowsMirror, Shape
<1> QED BY <1>10, <1>12

-----------------------------------------------------------------------------
(* Cases.                                                                  *)

Token(c) == <<c.status, c.review_version, c.definition_version, c.epoch, c.pending>>

Counted(old, new) ==
  new.action_revision = old.action_revision + (IF Token(new) = Token(old) THEN 0 ELSE 1)

Pinned(case, row) == case.review_version = row.version /\ case.revision = row.changed
CaseOk(case, row) == Pinned(case, row) /\ case.status = row.status

LEMMA CaseCounted ==
  ASSUME NEW case \in CaseRows
  PROVE  LET x == [case EXCEPT !.action_revision = @ + 1]
         IN  /\ x \in CaseRows /\ x.status = case.status
             /\ x.review_version = case.review_version /\ x.revision = case.revision
             /\ x.action_revision = case.action_revision + 1 /\ Token(x) = Token(case)
BY DEF CaseRows, Token

LEMMA CaseMarked ==
  ASSUME NEW case \in CaseRows, NEW b \in BOOLEAN
  PROVE  LET x == [case EXCEPT !.pending = b, !.action_revision = @ + 1]
         IN  /\ x \in CaseRows /\ x.status = case.status /\ x.pending = b
             /\ x.review_version = case.review_version /\ x.revision = case.revision
             /\ x.action_revision = case.action_revision + 1
<1> DEFINE n == case.action_revision + 1
<1>1. n \in Nat \ {0}
  BY DEF CaseRows
<1> HIDE DEF n
<1> DEFINE x == [case EXCEPT !.pending = b, !.action_revision = n]
<1>2. /\ x \in CaseRows /\ x.status = case.status /\ x.pending = b
      /\ x.review_version = case.review_version /\ x.revision = case.revision
      /\ x.action_revision = n
  BY <1>1 DEF CaseRows
<1> QED BY <1>2 DEF n

LEMMA TokenIs ==
  ASSUME NEW c \in CaseRows, NEW d \in CaseRows, Token(c) = Token(d)
  PROVE  c.pending = d.pending
BY DEF Token, CaseRows

\* A projected case says what its review is and counts what changed.
LEMMA ProjectedIs ==
  ASSUME IInv, NEW case \in CaseRows, NEW row \in ReviewRows, NEW rev \in 1 .. MaxRevision,
         (row.changed = rev /\ case.revision # rev) \/ Pinned(case, row)
  PROVE  LET new == Projected(case, row, rev)
         IN  new \in CaseRows /\ CaseOk(new, row) /\ Counted(case, new)
<1> DEFINE basis == [case EXCEPT !.review_version = row.version,
                                 !.definition_version = version, !.revision = rev]
           based == IF row.changed = rev /\ case.revision # rev THEN basis ELSE case
           after == [based EXCEPT !.status = row.status, !.epoch = epoch, !.pending = FALSE]
           counted == [after EXCEPT !.action_revision = @ + 1]
           new == Projected(case, row, rev)
<1>0. /\ version \in 1 .. MaxVersion /\ epoch \in 0 .. MaxEpoch
      /\ row.version \in Nat \ {0} /\ row.status \in {"open", "resolved"}
      /\ FALSE \in BOOLEAN /\ case.action_revision \in Nat \ {0}
  BY DEF IInv, TypeOK, ReviewRows, CaseRows
<1>1. new = IF Token(after) = Token(case) THEN after ELSE counted
  BY Zenon DEF Projected, Token
<1>2. /\ basis \in CaseRows /\ basis.review_version = row.version /\ basis.revision = rev
      /\ basis.action_revision = case.action_revision
  <2> DEFINE n == row.version
  <2>1. n \in Nat \ {0} /\ version \in 1 .. MaxVersion
    BY <1>0
  <2> HIDE DEF n
  <2> DEFINE x == [case EXCEPT !.review_version = n, !.definition_version = version,
                               !.revision = rev]
  <2>2. /\ x \in CaseRows /\ x.review_version = n /\ x.revision = rev
        /\ x.action_revision = case.action_revision
    BY <2>1 DEF CaseRows
  <2> QED BY <2>2 DEF n
<1>3. based \in CaseRows /\ Pinned(based, row) /\ based.action_revision = case.action_revision
  <2> HIDE DEF basis
  <2> QED BY <1>2 DEF Pinned
<1> HIDE DEF based, new
<1>4. /\ after \in CaseRows /\ after.status = row.status
      /\ after.review_version = based.review_version /\ after.revision = based.revision
      /\ after.action_revision = based.action_revision
  <2> DEFINE s == row.status
  <2>1. s \in {"open", "resolved"} /\ epoch \in 0 .. MaxEpoch
    BY <1>0
  <2>2. based \in CaseRows /\ FALSE \in BOOLEAN
    BY <1>3
  <2> HIDE DEF s
  <2> DEFINE x == [based EXCEPT !.status = s, !.epoch = epoch, !.pending = FALSE]
  <2>3. /\ x \in CaseRows /\ x.status = s /\ x.review_version = based.review_version
        /\ x.revision = based.revision /\ x.action_revision = based.action_revision
    BY <2>1, <2>2 DEF CaseRows
  <2> QED BY <2>3 DEF s
<1> HIDE DEF after
<1>5. CaseOk(after, row) /\ after.action_revision = case.action_revision
  BY <1>3, <1>4 DEF CaseOk, Pinned
<1>6. /\ counted \in CaseRows /\ counted.status = after.status
      /\ counted.review_version = after.review_version /\ counted.revision = after.revision
      /\ counted.action_revision = after.action_revision + 1 /\ Token(counted) = Token(after)
  BY <1>4, CaseCounted
<1> HIDE DEF counted
<1>7. CASE Token(after) = Token(case)
  <2>1. new = after
    BY <1>1, <1>7
  <2> QED BY <1>0, <1>4, <1>5, <1>7, <2>1 DEF Counted, new
<1>8. CASE Token(after) # Token(case)
  <2>1. new = counted
    BY <1>1, <1>8
  <2>2. CaseOk(counted, row)
    BY <1>5, <1>6 DEF CaseOk, Pinned
  <2> QED BY <1>0, <1>5, <1>6, <1>8, <2>1, <2>2 DEF Counted, new
<1> QED BY <1>7, <1>8

LEMMA ClearedIs ==
  ASSUME NEW case \in CaseRows
  PROVE  LET new == Cleared(case)
         IN  /\ new \in CaseRows /\ Counted(case, new)
             /\ \A row : CaseOk(case, row) => CaseOk(new, row)
<1> DEFINE marked == [case EXCEPT !.pending = FALSE, !.action_revision = @ + 1]
           new == Cleared(case)
<1>0. case.action_revision \in Nat \ {0} /\ FALSE \in BOOLEAN
  BY DEF CaseRows
<1>1. CASE ~case.pending
  <2>1. new = case
    BY <1>1 DEF Cleared
  <2> QED BY <1>0, <2>1 DEF Counted
<1>2. CASE case.pending
  <2>1. new = marked
    BY <1>2 DEF Cleared
  <2>2. /\ marked \in CaseRows /\ marked.status = case.status /\ marked.pending = FALSE
        /\ marked.review_version = case.review_version /\ marked.revision = case.revision
        /\ marked.action_revision = case.action_revision + 1
    BY <1>0, CaseMarked, Zenon
  <2> HIDE DEF marked, new
  <2>3. Token(marked) # Token(case)
    <3>1. Token(marked) = Token(case) => marked.pending = case.pending
      BY <2>2, TokenIs
    <3> QED BY <1>2, <2>2, <3>1, Zenon
  <2>4. \A row : CaseOk(case, row) => CaseOk(new, row)
    BY <2>1, <2>2 DEF CaseOk, Pinned
  <2>5. new \in CaseRows /\ Counted(case, new)
    BY <1>0, <2>1, <2>2, <2>3 DEF Counted
  <2> QED BY <2>4, <2>5 DEF new
<1> QED BY <1>1, <1>2

\* The reviews of a publication: those that were loaded, as they are now, whose
\* cases say what they were, and new ones without a case.
LEMMA MadeAre ==
  ASSUME IInv, NEW w, NEW S, Publishes(w, S)
  PROVE  /\ LoadedOf(S) \subseteq reviews
         /\ Part(w, S).reviews = {Moved(w, S, row) : row \in LoadedOf(S)}
                                   \cup {Opened(c) : c \in NewIssues(w)}
         /\ \A row \in reviews : cases[CaseOf(row)].revision # revision + 1
         /\ \A old \in LoadedOf(S) :
              LET row == Moved(w, S, old)
              IN  /\ row \in ReviewRows /\ CaseOf(row) = CaseOf(old)
                  /\ \/ row.changed = revision + 1 /\ cases[CaseOf(old)].revision # revision + 1
                     \/ Pinned(cases[CaseOf(old)], row)
         /\ \A c \in NewIssues(w) :
              LET row == Opened(c)
              IN  /\ row \in ReviewRows /\ CaseOf(row) \notin DOMAIN cases
                  /\ row.changed = revision + 1
<1> DEFINE loaded == LoadedOf(S)
           rev == revision + 1
<1>0. /\ w \in WorldType /\ S \in SUBSET Records /\ PartOk(w, S) /\ Possible(w)
      /\ revision < MaxRevision /\ revision \in Nat /\ rev \in 1 .. MaxRevision
      /\ \A c \in DOMAIN cases : cases[c] \in CaseRows
      /\ reviews \subseteq ReviewRows
  BY BoundsAssumption DEF Publishes, IInv, TypeOK
<1>1. /\ DOMAIN cases = {CaseOf(row) : row \in reviews}
      /\ \A row \in reviews : CaseOk(cases[CaseOf(row)], row)
  BY DEF IInv, CasesMirror, CaseOk, Pinned
<1>2. /\ loaded \subseteq reviews
      /\ Part(w, S).reviews = {Moved(w, S, row) : row \in loaded} \cup {Opened(c) : c \in NewIssues(w)}
  <2>1. loaded \subseteq reviews
    BY <1>0, LoadedAre
  <2>2. Part(w, S).reviews = Reconcile(LoadedOf(S), Candidates(w, S, version), revision + 1)
    BY PartFields
  <2> QED BY <1>0, <2>1, <2>2, ReconcileIs
<1>3. ASSUME NEW old \in reviews
      PROVE  CaseOk(cases[CaseOf(old)], old) /\ cases[CaseOf(old)].revision # rev
  <2>1. old.changed \in Nat /\ old.changed <= revision
    <3>1. old.changed \in Nat
      BY <1>0, BoundsAssumption DEF ReviewRows
    <3> QED BY <3>1 DEF IInv, Timed
  <2> QED BY <1>0, <1>1, <2>1 DEF CaseOk, Pinned
<1>5. \A a, b : CaseOf(a) = CaseOf(b) <=> SameReview(a, b)
  BY DEF CaseOf, SameReview
<1>8. ASSUME NEW old \in loaded
      PROVE  LET row == Moved(w, S, old)
             IN  /\ row \in ReviewRows /\ CaseOf(row) = CaseOf(old)
                 /\ \/ row.changed = rev /\ cases[CaseOf(old)].revision # rev
                    \/ Pinned(cases[CaseOf(old)], row)
  <2> DEFINE row == Moved(w, S, old)
             case == cases[CaseOf(old)]
  <2>1. AfterOk(old, Whole(w), rev, row)
    BY <1>0, <1>2, WholeIs
  <2>2. CaseOk(case, old) /\ case.revision # rev
    BY <1>2, <1>3
  <2>4. SameReview(old, row) => CaseOf(row) = CaseOf(old)
    BY <1>5
  <2>5. row = old \/ row.changed = rev
    BY <2>1 DEF AfterOk
  <2>6. Pinned(case, old)
    BY <2>2 DEF CaseOk
  <2>7. row \in ReviewRows /\ SameReview(old, row)
    BY <1>0, <2>1 DEF AfterOk
  <2> HIDE DEF row, case, rev
  <2> QED BY <2>2, <2>4, <2>5, <2>6, <2>7 DEF row, case
<1>9. ASSUME NEW c \in NewIssues(w)
      PROVE  LET row == Opened(c)
             IN  /\ row \in ReviewRows /\ CaseOf(row) \notin DOMAIN cases
                 /\ row.changed = rev
  <2> DEFINE row == Opened(c)
  <2>1. OpenedOk(c, row)
    BY <1>0, WholeIs
  <2> HIDE DEF row
  <2>2. ASSUME NEW old \in reviews, CaseOf(old) = CaseOf(row) PROVE FALSE
    <3>1. old.key = c.key /\ old.occurrence = row.occurrence
      BY <1>5, <2>1, <2>2 DEF SameReview, OpenedOk
    <3>2. old.occurrence < row.occurrence /\ row.occurrence \in Nat
      BY <2>1, <3>1 DEF OpenedOk, NextOk, RowOf
    <3> QED BY <3>1, <3>2
  <2> QED BY <1>1, <2>1, <2>2 DEF OpenedOk, row
<1> HIDE DEF loaded
<1> QED BY <1>2, <1>3, <1>8, <1>9 DEF loaded

LEMMA PublishCases ==
  ASSUME IInv, NEW w, NEW S, Writes(w, S)
  PROVE  /\ CasesMirror' /\ \A c \in DOMAIN cases' : cases'[c] \in CaseRows
         /\ \A c \in DOMAIN cases : Counted(cases[c], cases'[c])
<1> DEFINE e == Part(w, S)
           loaded == LoadedOf(S)
           made == e.reviews
           rev == revision + 1
           of(c) == {row \in made : CaseOf(row) = c}
           value(c) == LET row == CHOOSE row \in of(c) : TRUE
                       IN  IF c \in DOMAIN cases THEN Projected(cases[c], row, rev)
                           ELSE NewCase(row, rev)
<1>0. /\ w \in WorldType /\ S \in SUBSET Records /\ PartOk(w, S) /\ Possible(w)
      /\ revision < MaxRevision /\ revision \in Nat /\ rev \in 1 .. MaxRevision
      /\ version \in 1 .. MaxVersion /\ epoch \in 0 .. MaxEpoch
      /\ \A c \in DOMAIN cases : cases[c] \in CaseRows
      /\ reviews \subseteq ReviewRows
  BY BoundsAssumption DEF Writes, Publishes, IInv, TypeOK
<1>1. /\ DOMAIN cases = {CaseOf(row) : row \in reviews}
      /\ \A row \in reviews : CaseOk(cases[CaseOf(row)], row)
  BY DEF IInv, CasesMirror, CaseOk, Pinned
<1>2. /\ loaded \subseteq reviews
      /\ made = {Moved(w, S, row) : row \in loaded} \cup {Opened(c) : c \in NewIssues(w)}
  BY MadeAre DEF Writes
<1>3. /\ reviews' = (reviews \ loaded) \cup made /\ OneRow(reviews')
      /\ reviews' \subseteq ReviewRows
  <2>1. reviews' = (reviews \ e.loaded) \cup made /\ e.loaded = loaded
    BY PartFields DEF Writes, WriteReviews
  <2> QED BY <2>1, PublishReviews
<1>4. cases' = [c \in DOMAIN cases \cup {CaseOf(row) : row \in made} |->
                  IF of(c) = {} THEN Cleared(cases[c]) ELSE value(c)]
  <2>1. cases' = ProjectCases(made, rev)
    BY DEF Writes, WriteReviews
  <2> HIDE DEF e, rev, made
  <2> QED BY <2>1 DEF ProjectCases
<1>5. \A a, b : CaseOf(a) = CaseOf(b) <=> SameReview(a, b)
  BY DEF CaseOf, SameReview
<1>6. ASSUME NEW row \in made
      PROVE  of(CaseOf(row)) = {row}
  <2>1. \A x \in made : CaseOf(x) = CaseOf(row) => x = row
    BY <1>3, <1>5 DEF OneRow
  <2> HIDE DEF made
  <2> QED BY <2>1
<1>7. \A row \in made : value(CaseOf(row)) = IF CaseOf(row) \in DOMAIN cases
                                             THEN Projected(cases[CaseOf(row)], row, rev)
                                             ELSE NewCase(row, rev)
  <2> HIDE DEF of, rev, made
  <2> QED BY <1>6
<1>8. \A old \in loaded :
        LET row == Moved(w, S, old)
        IN  /\ row \in ReviewRows /\ CaseOf(row) = CaseOf(old)
            /\ \/ row.changed = rev /\ cases[CaseOf(old)].revision # rev
               \/ Pinned(cases[CaseOf(old)], row)
  BY MadeAre DEF Writes
<1>9. \A c \in NewIssues(w) :
        LET row == Opened(c)
        IN  row \in ReviewRows /\ CaseOf(row) \notin DOMAIN cases /\ row.changed = rev
  BY MadeAre DEF Writes
<1> DEFINE new(row) == cases'[CaseOf(row)]
<1>10. ASSUME NEW row \in made
       PROVE  /\ new(row) \in CaseRows /\ CaseOk(new(row), row)
              /\ CaseOf(row) \in DOMAIN cases => Counted(cases[CaseOf(row)], new(row))
  <2>0. new(row) = value(CaseOf(row))
    <3>1. of(CaseOf(row)) # {} /\ CaseOf(row) \in {CaseOf(x) : x \in made}
      BY <1>6
    <3> HIDE DEF of, value, made
    <3> QED BY <1>4, <3>1
  <2>1. ASSUME NEW old \in loaded, row = Moved(w, S, old)
        PROVE  /\ new(row) \in CaseRows /\ CaseOk(new(row), row)
               /\ CaseOf(row) \in DOMAIN cases => Counted(cases[CaseOf(row)], new(row))
    <3> DEFINE case == cases[CaseOf(row)]
    <3>1. /\ row \in ReviewRows /\ CaseOf(row) = CaseOf(old)
          /\ (row.changed = rev /\ case.revision # rev) \/ Pinned(case, row)
      BY <1>8, <2>1
    <3>2. CaseOf(row) \in DOMAIN cases /\ case \in CaseRows
      BY <1>0, <1>1, <1>2, <3>1
    <3>3. new(row) = Projected(case, row, rev)
      BY <1>7, <2>0, <3>2
    <3> HIDE DEF case, rev, new
    <3>4. new(row) \in CaseRows /\ CaseOk(new(row), row) /\ Counted(case, new(row))
      BY <1>0, <3>1, <3>2, <3>3, ProjectedIs
    <3> QED BY <3>4 DEF case
  <2>2. ASSUME NEW c \in NewIssues(w), row = Opened(c)
        PROVE  /\ new(row) \in CaseRows /\ CaseOk(new(row), row)
               /\ CaseOf(row) \in DOMAIN cases => Counted(cases[CaseOf(row)], new(row))
    <3>1. row \in ReviewRows /\ CaseOf(row) \notin DOMAIN cases /\ row.changed = rev
      BY <1>9, <2>2
    <3>2. new(row) = NewCase(row, rev)
      BY <1>7, <2>0, <3>1
    <3>3. row.status \in {"open", "resolved"} /\ row.version \in Nat \ {0}
      BY <3>1 DEF ReviewRows
    <3> HIDE DEF new, rev
    <3>4. new(row) \in CaseRows
      BY <1>0, <3>2, <3>3 DEF NewCase, CaseRows
    <3>5. CaseOk(new(row), row)
      BY <3>1, <3>2 DEF NewCase, CaseOk, Pinned
    <3> QED BY <3>1, <3>4, <3>5
  <2> HIDE DEF new
  <2> QED BY <1>2, <2>1, <2>2
<1>11. ASSUME NEW row \in reviews \ loaded
       PROVE  /\ new(row) \in CaseRows /\ CaseOk(new(row), row)
              /\ Counted(cases[CaseOf(row)], new(row))
  <2>1. CASE row \in made
    BY <1>1, <1>10, <2>1
  <2>2. CASE row \notin made
    <3>1. of(CaseOf(row)) = {}
      BY <1>3, <1>5, <2>2 DEF OneRow
    <3>2. CaseOf(row) \in DOMAIN cases
      BY <1>1
    <3>3. new(row) = Cleared(cases[CaseOf(row)])
      <4> HIDE DEF of, value, made
      <4> QED BY <1>4, <3>1, <3>2
    <3> DEFINE case == cases[CaseOf(row)]
    <3>4. case \in CaseRows /\ CaseOk(case, row) /\ new(row) = Cleared(case)
      BY <1>0, <1>1, <3>2, <3>3
    <3> HIDE DEF case, new
    <3>5. new(row) \in CaseRows /\ CaseOk(new(row), row) /\ Counted(case, new(row))
      BY <3>4, ClearedIs
    <3> QED BY <3>5 DEF case
  <2> QED BY <2>1, <2>2
<1>12. \A row \in reviews' : new(row) \in CaseRows /\ CaseOk(new(row), row)
  <2> HIDE DEF new
  <2> QED BY <1>3, <1>10, <1>11
<1>13. DOMAIN cases' = {CaseOf(row) : row \in reviews'}
  <2>1. DOMAIN cases' = DOMAIN cases \cup {CaseOf(row) : row \in made}
    BY <1>4
  <2>2. ASSUME NEW c \in DOMAIN cases
        PROVE  \E row \in reviews' : c = CaseOf(row)
    <3>1. PICK old \in reviews : c = CaseOf(old)
      BY <1>1
    <3>2. CASE old \in loaded
      <4>1. Moved(w, S, old) \in reviews' /\ CaseOf(Moved(w, S, old)) = CaseOf(old)
        BY <1>2, <1>3, <1>8, <3>2
      <4> QED BY <3>1, <4>1
    <3>3. CASE old \notin loaded
      BY <1>3, <3>1, <3>3
    <3> QED BY <3>2, <3>3
  <2>3. \A row \in reviews' : CaseOf(row) \in DOMAIN cases'
    <3> HIDE DEF made
    <3> QED BY <1>1, <1>3, <2>1
  <2>4. \A row \in made : row \in reviews'
    BY <1>3
  <2> HIDE DEF made
  <2>5. \A c \in DOMAIN cases' : \E row \in reviews' : c = CaseOf(row)
    BY <2>1, <2>2, <2>4
  <2> QED BY <2>3, <2>5
<1>14. ASSUME NEW c \in DOMAIN cases
       PROVE  Counted(cases[c], cases'[c])
  <2>1. PICK old \in reviews : c = CaseOf(old)
    BY <1>1
  <2>2. CASE old \in loaded
    <3> DEFINE row == Moved(w, S, old)
    <3>1. row \in made /\ CaseOf(row) = c
      BY <1>2, <1>8, <2>1, <2>2
    <3> HIDE DEF row, made
    <3> QED BY <1>10, <3>1
  <2>3. CASE old \notin loaded
    BY <1>11, <2>1, <2>3
  <2> QED BY <2>2, <2>3
<1>15. CasesMirror'
  BY <1>12, <1>13 DEF CasesMirror, CaseOk, Pinned, CaseOf
<1>16. \A c \in DOMAIN cases' : cases'[c] \in CaseRows
  BY <1>12, <1>13
<1> QED BY <1>14, <1>15, <1>16

-----------------------------------------------------------------------------
(* Steps.                                                                  *)

LEMMA NilIs ==
  ASSUME IInv, NEW w, NEW S, Publishes(w, S)
  PROVE  /\ nil \subseteq nil' /\ nil' \subseteq {CaseOf(row) : row \in RowsAfter(w, S)}
         /\ nil' \subseteq [key : IssueKeys, occurrence : Nat \ {0}]
<1>0. /\ w \in WorldType /\ S \in SUBSET Records /\ PartOk(w, S) /\ Possible(w)
      /\ revision < MaxRevision
  BY DEF Publishes
<1>1. PICK late \in SUBSET {CaseOf(Opened(c)) : c \in NewIssues(w)} : nil' = nil \cup late
  BY PartRows DEF Publishes
<1>2. ASSUME NEW c \in nil
      PROVE  \E row \in RowsAfter(w, S) : c = CaseOf(row)
  <2>1. PICK old \in reviews : c = CaseOf(old)
    BY DEF IInv
  <2>2. AfterOk(old, Whole(w), revision + 1, Moved(w, S, old))
    BY <1>0, WholeIs
  <2>3. CaseOf(Moved(w, S, old)) = CaseOf(old)
    BY <2>2 DEF AfterOk, SameReview, CaseOf
  <2> QED BY <2>1, <2>3 DEF RowsAfter
<1>3. \A c \in late : \E row \in RowsAfter(w, S) : c = CaseOf(row)
  BY DEF RowsAfter
<1>4. nil' \subseteq {CaseOf(row) : row \in RowsAfter(w, S)}
  BY <1>1, <1>2, <1>3
<1>5. \A row \in ReviewRows : CaseOf(row) \in [key : IssueKeys, occurrence : Nat \ {0}]
  BY DEF ReviewRows, CaseOf
<1>6. RowsAfter(w, S) \subseteq ReviewRows
  BY PartRows
<1> QED BY <1>1, <1>4, <1>5, <1>6

\* What is left to show of the types once the reviews are written.
LEMMA PublishTyped ==
  ASSUME IInv, NEW w, NEW S, Publishes(w, S),
         reviews' \subseteq ReviewRows, outReviews' \subseteq ReviewRows,
         \A row \in reviews' : row.resolved # 0 <=> row.status = "resolved",
         \A c \in DOMAIN cases' : cases'[c] \in CaseRows
  PROVE  TypeOK'
<1>0. /\ w \in WorldType /\ S \in SUBSET Records /\ PartOk(w, S) /\ Possible(w)
      /\ revision < MaxRevision /\ refused' = refused
  BY DEF Publishes
<1>1. /\ revision' = revision + 1 /\ version' = version /\ epoch' = epoch
      /\ truth' = [world |-> w, version |-> version]
      /\ registry' = registry \cup IdsOf(w, S)
  BY PublishWorld
<1>2. memberships' \in [Records -> MembershipRows]
  BY PublishMembers
<1>3. DOMAIN outEntity' \subseteq registry' /\ DOMAIN outEntity' = TruthIds'
  BY PublishEntities
<1>4. ValuesMirror'
  BY PublishValues
<1>5. DOMAIN outMembers' \subseteq Records
  BY PublishMemberRows
<1>6. nil' \subseteq [key : IssueKeys, occurrence : Nat \ {0}] /\ refused' \in BOOLEAN
  BY <1>0, NilIs DEF IInv, TypeOK
<1>7. /\ version \in 1 .. MaxVersion /\ epoch \in 0 .. MaxEpoch /\ revision \in 0 .. MaxRevision
      /\ registry \subseteq Ids
  BY DEF IInv, TypeOK
<1>8. version' \in 1 .. MaxVersion /\ epoch' \in 0 .. MaxEpoch /\ revision' \in 0 .. MaxRevision
  BY <1>0, <1>1, <1>7, BoundsAssumption
<1>9. seen' \in [version : 0 .. MaxVersion, epoch : 0 .. MaxEpoch]
  <2>1. seen' = [version |-> version, epoch |-> epoch]
    BY DEF Publishes
  <2> QED BY <1>7, <2>1, BoundsAssumption
<1>10. registry' \subseteq Ids
  BY <1>0, <1>1, <1>7, WorldIs
<1>11. truth' \in [world : WorldType, version : 1 .. MaxVersion]
  BY <1>0, <1>1, <1>7
<1>12. DOMAIN provenance' \subseteq Ids \X Fields
  <2>1. TruthIds' \subseteq Ids
    BY <1>3, <1>10
  <2>2. DOMAIN provenance' = TruthIds' \X Fields
    BY <1>4 DEF ValuesMirror
  <2> QED BY <2>1, <2>2
<1>13. facts' \in [Pairs -> Summaries \cup {"none", "accepted"}]
  BY <1>0, <1>1, <1>4 DEF ValuesMirror, WorldType
<1> QED BY <1>2, <1>3, <1>5, <1>6, <1>8, <1>9, <1>10, <1>11, <1>12, <1>13 DEF TypeOK, Pairs

LEMMA WritesKeeps ==
  ASSUME IInv, NEW w, NEW S, Writes(w, S)
  PROVE  IInv'
<1>0. Publishes(w, S)
  BY DEF Writes
<1>1. /\ reviews' = RowsAfter(w, S)
      /\ reviews' \subseteq ReviewRows /\ IsFiniteSet(reviews') /\ OpenIs'
      /\ Timed(reviews', revision', registry') /\ OneRow(reviews')
      /\ Ordered(reviews') /\ Gapless(reviews')
  BY PublishReviews
<1>2. MembersMirror'
  BY <1>0, PublishMembers
<1>3. EntityMirror'
  BY <1>0, <1>1, PublishEntities
<1>4. ValuesMirror'
  BY <1>0, PublishValues
<1>5. RowsMirror' /\ outReviews' \subseteq ReviewRows
  BY PublishTables
<1>6. CasesMirror' /\ \A c \in DOMAIN cases' : cases'[c] \in CaseRows
  BY PublishCases
<1>7. TypeOK'
  <2>1. \A row \in reviews' : row.resolved # 0 <=> row.status = "resolved"
    BY <1>1 DEF Timed
  <2> QED BY <1>0, <1>1, <1>5, <1>6, <2>1, PublishTyped
<1>8. nil' \subseteq {CaseOf(row) : row \in reviews'}
  BY <1>0, <1>1, NilIs
<1> QED BY <1>1, <1>2, <1>3, <1>4, <1>5, <1>6, <1>7, <1>8
         DEF IInv, Timed, OneRow, Ordered, Gapless, CaseOf

\* A new review, `row', has the nil id, and so has one that was not loaded.
Overwrites(w, S) ==
  /\ Publishes(w, S)
  /\ \E old \in reviews \ LoadedOf(S), row \in {Opened(c) : c \in NewIssues(w)} :
       /\ CaseOf(old) \in nil /\ CaseOf(row) \in nil'
       /\ OverwriteReview(Part(w, S), revision + 1, old, row)

LEMMA OverwritesKeeps ==
  ASSUME IInv, NEW w, NEW S, Overwrites(w, S)
  PROVE  TypeOK' /\ ~IdsSufficed'
<1> DEFINE e == Part(w, S)
           rev == revision + 1
<1>1. PICK old \in reviews \ LoadedOf(S), c \in NewIssues(w) :
        /\ CaseOf(old) \in nil /\ CaseOf(Opened(c)) \in nil'
        /\ OverwriteReview(e, rev, old, Opened(c))
  BY DEF Overwrites
<1> DEFINE row == Opened(c)
           case == cases[CaseOf(old)]
           made == e.reviews \ {row}
           rest == [e EXCEPT !.reviews = made]
<1>2. /\ Publishes(w, S) /\ revision \in Nat /\ rev \in 1 .. MaxRevision
      /\ reviews \subseteq ReviewRows /\ outReviews \subseteq ReviewRows
      /\ \A d \in DOMAIN cases : cases[d] \in CaseRows
      /\ version \in 1 .. MaxVersion /\ epoch \in 0 .. MaxEpoch
      /\ DOMAIN cases = {CaseOf(x) : x \in reviews}
  <2>1. Publishes(w, S) /\ revision < MaxRevision
    BY DEF Overwrites, Publishes
  <2>2. revision \in 0 .. MaxRevision
    BY DEF IInv, TypeOK
  <2>3. revision \in Nat /\ rev \in 1 .. MaxRevision
    BY <2>1, <2>2, BoundsAssumption
  <2>4. /\ reviews \subseteq ReviewRows /\ outReviews \subseteq ReviewRows
        /\ \A d \in DOMAIN cases : cases[d] \in CaseRows
        /\ version \in 1 .. MaxVersion /\ epoch \in 0 .. MaxEpoch
        /\ DOMAIN cases = {CaseOf(x) : x \in reviews}
    BY DEF IInv, TypeOK, CasesMirror
  <2> QED BY <2>1, <2>3, <2>4
<1>3. /\ LoadedOf(S) \subseteq reviews
      /\ e.reviews = {Moved(w, S, x) : x \in LoadedOf(S)} \cup {Opened(d) : d \in NewIssues(w)}
      /\ \A x \in reviews : cases[CaseOf(x)].revision # rev
      /\ \A x \in LoadedOf(S) :
           /\ Moved(w, S, x) \in ReviewRows /\ CaseOf(Moved(w, S, x)) = CaseOf(x)
           /\ \/ Moved(w, S, x).changed = rev /\ cases[CaseOf(x)].revision # rev
              \/ Pinned(cases[CaseOf(x)], Moved(w, S, x))
      /\ \A d \in NewIssues(w) :
           Opened(d) \in ReviewRows /\ CaseOf(Opened(d)) \notin DOMAIN cases
             /\ Opened(d).changed = rev
  BY <1>2, MadeAre
<1>4. /\ (reviews \ e.loaded) \cup e.reviews = RowsAfter(w, S)
      /\ RowsAfter(w, S) \subseteq ReviewRows
      /\ \A x \in RowsAfter(w, S) : x.resolved # 0 <=> x.status = "resolved"
      /\ e.loaded = LoadedOf(S)
  BY <1>2, PartRows, PartFields DEF Timed
<1>5. /\ DOMAIN e = DOMAIN rest /\ rest.reviews = made /\ rest.loaded = e.loaded
      /\ made \subseteq ReviewRows /\ row \in ReviewRows /\ old \in ReviewRows
  <2>1. rest.reviews = made /\ rest.loaded = e.loaded
    BY DEF Part, Evaluation
  <2>2. made \subseteq ReviewRows
    BY <1>4
  <2> HIDE DEF rest, made, e
  <2> QED BY <1>2, <1>3, <2>1, <2>2 DEF rest
<1>6. row \in RowsAfter(w, S)
  BY <1>3, <1>4
<1> DEFINE new == [old EXCEPT !.status = row.status, !.summary = row.summary,
                             !.resolved = row.resolved, !.changed = row.changed,
                             !.version = row.version]
           projected == ProjectCases(made, rev)
           renamed == [Projected(case, row, rev) EXCEPT
                         !.action_revision = case.action_revision + 1]
           kept == {[row EXCEPT !.summary = o.summary] : o \in {x \in outReviews : SameReview(x, old)}}
<1>7. /\ reviews' = ((reviews \ e.loaded) \ {old}) \cup made \cup {new}
      /\ outReviews' = {o \in ReviewTable(rest) : ~SameReview(o, old)} \cup kept
      /\ cases' = [d \in (DOMAIN projected \ {CaseOf(old)}) \cup {CaseOf(row)} |->
                     IF d = CaseOf(row) THEN renamed ELSE projected[d]]
  <2>1. OverwriteReview(e, rev, old, row) /\ rest.reviews = made
    BY <1>1, <1>5
  <2> HIDE DEF e, rev, row
  <2>2. /\ reviews' = ((reviews \ e.loaded) \ {old}) \cup rest.reviews \cup {new}
        /\ outReviews' = {o \in ReviewTable(rest) : ~SameReview(o, old)} \cup kept
        /\ cases' = [d \in (DOMAIN ProjectCases(rest.reviews, rev) \ {CaseOf(old)})
                             \cup {CaseOf(row)} |->
                       IF d = CaseOf(row) THEN renamed ELSE ProjectCases(rest.reviews, rev)[d]]
    BY <2>1, Zenon DEF OverwriteReview
  <2> DEFINE all == ProjectCases(rest.reviews, rev)
  <2> HIDE DEF rest, made, new, kept, renamed
  <2>3. all = projected /\ rest.reviews = made
    BY <2>1
  <2>4. cases' = [d \in (DOMAIN all \ {CaseOf(old)}) \cup {CaseOf(row)} |->
                   IF d = CaseOf(row) THEN renamed ELSE all[d]]
    BY <2>2
  <2> HIDE DEF all, projected
  <2> QED BY <2>2, <2>3, <2>4
<1> HIDE DEF row, case, rev, e, projected, renamed
<1>8. new \in ReviewRows /\ new.resolved = row.resolved /\ new.status = row.status
  BY <1>5 DEF ReviewRows
<1> HIDE DEF new, rest
<1>9. /\ reviews' \subseteq ReviewRows
      /\ \A x \in reviews' : x.resolved # 0 <=> x.status = "resolved"
  <2>1. \A x \in reviews' : x \in RowsAfter(w, S) \/ x = new
    BY <1>4, <1>7
  <2> QED BY <1>4, <1>6, <1>8, <2>1
<1>10. outReviews' \subseteq ReviewRows
  <2>1. ReviewTable(rest) \subseteq ReviewRows
    <3>1. \A x \in made : Published(x) \in ReviewRows
      BY <1>5, PublishedIs
    <3> QED BY <1>2, <1>5, <3>1 DEF ReviewTable
  <2>2. kept \subseteq ReviewRows
    <3>1. \A o \in outReviews : o.summary \in Summaries \cup {"issue"}
      BY <1>2 DEF ReviewRows
    <3> QED BY <1>5, <3>1, BlankIs
  <2> HIDE DEF kept
  <2> QED BY <1>7, <2>1, <2>2
<1>11. ASSUME NEW x \in e.reviews, CaseOf(x) \in DOMAIN cases
       PROVE  Projected(cases[CaseOf(x)], x, rev) \in CaseRows
  <2>1. PICK y \in LoadedOf(S) : x = Moved(w, S, y)
    BY <1>3, <1>11 DEF e
  <2>2. /\ x \in ReviewRows
        /\ (x.changed = rev /\ cases[CaseOf(x)].revision # rev) \/ Pinned(cases[CaseOf(x)], x)
    BY <1>3, <2>1 DEF rev
  <2>3. cases[CaseOf(x)] \in CaseRows
    BY <1>2, <1>11
  <2> DEFINE before == cases[CaseOf(x)]
  <2> HIDE DEF before
  <2>4. /\ before \in CaseRows
        /\ (x.changed = rev /\ before.revision # rev) \/ Pinned(before, x)
    BY <2>2, <2>3 DEF before
  <2>5. Projected(before, x, rev) \in CaseRows
    BY <1>2, <2>2, <2>4, ProjectedIs DEF rev
  <2> QED BY <2>5 DEF before
<1>12. ASSUME NEW x \in e.reviews, CaseOf(x) \notin DOMAIN cases
       PROVE  NewCase(x, rev) \in CaseRows
  <2>1. x \in ReviewRows
    BY <1>3 DEF e
  <2>2. x.status \in {"open", "resolved"} /\ x.version \in Nat \ {0}
    BY <2>1 DEF ReviewRows
  <2>3. rev \in 1 .. MaxRevision
    BY <1>2 DEF rev
  <2> QED BY <1>2, <2>2, <2>3 DEF NewCase, CaseRows
<1>13. \A d \in DOMAIN projected : projected[d] \in CaseRows
  <2> DEFINE of(d) == {x \in made : CaseOf(x) = d}
             value(d) == LET x == CHOOSE x \in of(d) : TRUE
                         IN  IF d \in DOMAIN cases THEN Projected(cases[d], x, rev)
                             ELSE NewCase(x, rev)
  <2> HIDE DEF made
  <2>1. projected = [d \in DOMAIN cases \cup {CaseOf(x) : x \in made} |->
                       IF of(d) = {} THEN Cleared(cases[d]) ELSE value(d)]
    BY DEF projected, ProjectCases
  <2>2. ASSUME NEW d \in DOMAIN cases \cup {CaseOf(x) : x \in made}
        PROVE  (IF of(d) = {} THEN Cleared(cases[d]) ELSE value(d)) \in CaseRows
    <3>1. CASE of(d) = {}
      <4>1. d \in DOMAIN cases
        BY <3>1
      <4>2. cases[d] \in CaseRows
        BY <1>2, <4>1
      <4>3. Cleared(cases[d]) \in CaseRows
        BY <4>2, ClearedIs
      <4> QED BY <3>1, <4>3
    <3>2. CASE of(d) # {}
      <4> DEFINE x == CHOOSE x \in of(d) : TRUE
      <4>1. x \in of(d)
        BY <3>2
      <4>2. x \in e.reviews /\ CaseOf(x) = d
        BY <4>1 DEF made
      <4>3. value(d) = IF d \in DOMAIN cases THEN Projected(cases[d], x, rev)
                       ELSE NewCase(x, rev)
        OBVIOUS
      <4> HIDE DEF x, value
      <4>4. value(d) \in CaseRows
        BY <1>11, <1>12, <4>2, <4>3
      <4> QED BY <3>2, <4>4
    <3> QED BY <3>1, <3>2
  <2> HIDE DEF of, value
  <2> QED BY <2>1, <2>2
<1>14. renamed \in CaseRows
  <2>1. case \in CaseRows
    BY <1>2 DEF case
  <2>2. row.changed = rev /\ case.revision # rev
    BY <1>3 DEF row, case, rev
  <2>3. Projected(case, row, rev) \in CaseRows
    BY <1>2, <1>5, <2>1, <2>2, ProjectedIs DEF rev
  <2> DEFINE n == case.action_revision + 1
             x == Projected(case, row, rev)
  <2>4. n \in Nat \ {0}
    BY <2>1 DEF CaseRows
  <2> HIDE DEF n, x
  <2>5. [x EXCEPT !.action_revision = n] \in CaseRows
    BY <2>3, <2>4 DEF CaseRows, x
  <2> QED BY <2>5 DEF n, x, renamed
<1>15. \A d \in DOMAIN cases' : cases'[d] \in CaseRows
  BY <1>7, <1>13, <1>14
<1>16. TypeOK'
  BY <1>2, <1>9, <1>10, <1>15, PublishTyped
<1>17. ~IdsSufficed'
  <2>1. CaseOf(old) \in nil' /\ CaseOf(row) \in nil'
    BY <1>1, <1>2, NilIs DEF row
  <2>2. CaseOf(old) \in DOMAIN cases /\ CaseOf(row) \notin DOMAIN cases
    BY <1>2, <1>3 DEF row
  <2> QED BY <2>1, <2>2 DEF IdsSufficed
<1> QED BY <1>16, <1>17

\* Nothing that is published would change.
Quiet(w, S) ==
  /\ w \in WorldType /\ S \in SUBSET Records /\ PartOk(w, S) /\ Possible(w)
  /\ ~Differs(Part(w, S), S)
  /\ cases' = ProjectCases(reviews, revision)
  /\ seen' = [version |-> version, epoch |-> epoch]
  /\ UNCHANGED <<stored, outputs, truth, entity>>

\* The issues of the last world are the issues under the present definition.
LEMMA QuietOpen ==
  ASSUME IInv, NEW w, NEW S, Quiet(w, S)
  PROVE  OpenOf(reviews) = Candidates(truth.world, Records, version)
<1> DEFINE e == Part(w, S)
           t == truth.world
<1>0. /\ w \in WorldType /\ S \in SUBSET Records /\ PartOk(w, S) /\ Possible(w)
      /\ ~Differs(Part(w, S), S) /\ t \in WorldType
      /\ version \in 1 .. MaxVersion
  BY DEF Quiet, IInv, TypeOK
<1>1. CASE S # Records
  <2>1. seen.version = version
    BY <1>0, <1>1 DEF PartOk
  <2> QED BY <2>1 DEF IInv, OpenIs
<1>2. CASE S = Records
  <2>0. /\ Within(Records) = Pairs /\ LoadedOf(S) = reviews
        /\ Semantic(e.reviews) = Semantic(e.loaded)
        /\ e.golden = [pos \in {q \in DOMAIN provenance : q[1] \in SelectedIds(S)} |-> provenance[pos]]
        /\ \A r \in S : e.memberships[r] = memberships[r]
        /\ \A p \in Within(S) : e.facts[p] = facts[p]
    BY <1>0, <1>2 DEF Differs, LoadedOf, Within, Pairs
  <2>1. w.at = t.at
    <3>1. ASSUME NEW r \in Records
          PROVE  w.at[r] = t.at[r]
      <4>1. memberships[r] = NextMembership(w, r, revision + 1)
        BY <1>2, <2>0, PartFields
      <4>2. /\ w.at[r] # 0 => memberships[r].active /\ memberships[r].id = w.at[r]
            /\ w.at[r] = 0 => ~memberships[r].active
        BY <1>0, <4>1, NextMembershipIs
      <4> QED BY <4>2 DEF IInv, MembersMirror
    <3> QED BY <1>0, <3>1 DEF WorldType
  <2>2. w.facts = t.facts
    <3>1. \A p \in Pairs : e.facts[p] = w.facts[p]
      BY <1>2, <2>0, PartFields
    <3>2. facts = t.facts
      BY DEF IInv, ValuesMirror
    <3> HIDE DEF e
    <3> QED BY <1>0, <1>2, <2>0, <3>1, <3>2 DEF WorldType
  <2>3. IdsOf(w, Records) = IdsOf(t, Records)
    BY <2>1 DEF IdsOf
  <2>4. ASSUME NEW m \in IdsOf(w, Records), NEW f \in Fields
        PROVE  w.gold[<<m, f>>] = t.gold[<<m, f>>]
    <3>1. <<m, f>> \in IdsOf(w, Records) \X Fields /\ m \in TruthIds
      BY <2>3 DEF TruthIds, IdsOf, At
    <3>2. e.golden[<<m, f>>] = w.gold[<<m, f>>] /\ <<m, f>> \in DOMAIN e.golden
      BY <1>2, <3>1, PartFields
    <3>3. e.golden[<<m, f>>] = provenance[<<m, f>>]
      <4> HIDE DEF e
      <4> QED BY <2>0, <3>2
    <3>4. provenance[<<m, f>>] = t.gold[<<m, f>>]
      BY <3>1 DEF IInv, ValuesMirror
    <3> QED BY <3>2, <3>3, <3>4
  <2>5. Candidates(w, Records, version) = Candidates(t, Records, version)
    <3> HIDE DEF t
    <3>1. ASSUME NEW c
          PROVE  c \in Candidates(w, Records, version) <=> c \in Candidates(t, Records, version)
      <4>1. \A p : PairIssue(w, version, p, c) <=> PairIssue(t, version, p, c)
        BY <2>2 DEF PairIssue
      <4>2. \A m \in IdsOf(w, Records), f \in Fields :
              GoldIssue(w, version, m, f, c) <=> GoldIssue(t, version, m, f, c)
        BY <2>4 DEF GoldIssue
      <4> QED BY <2>3, <4>1, <4>2, CandidateIs
    <3> QED BY <3>1
  <2> DEFINE current == Candidates(w, Records, version)
             Sem(row) == [r \in {"key", "occurrence", "status", "summary"} |-> row[r]]
  <2>6. /\ current \in SUBSET CandidateRows
        /\ \A c, d \in current : c.key = d.key => c = d
    BY <1>0, CandidatesAre
  <2>7. /\ {After(row, current, revision + 1) : row \in reviews} \subseteq e.reviews
        /\ {Open(c, NextOccurrence(reviews, c.key), revision + 1) : c \in Opening(reviews, current)}
             \subseteq e.reviews
        /\ e.loaded = reviews
    <3>1. e.reviews = Reconcile(reviews, current, revision + 1) /\ e.loaded = reviews
      BY <1>2, <2>0, PartFields
    <3> HIDE DEF e, current
    <3> QED BY <3>1 DEF Reconcile, After
  <2> HIDE DEF current, e
  <2>8. ASSUME NEW new \in e.reviews
        PROVE  \E row \in reviews : /\ row.key = new.key /\ row.occurrence = new.occurrence
                                    /\ row.status = new.status /\ row.summary = new.summary
    <3>1. Sem(new) \in {Sem(row) : row \in reviews}
      BY <2>0, <2>7 DEF Semantic
    <3>2. PICK row \in reviews : Sem(new) = Sem(row)
      BY <3>1
    <3>3. \A x : /\ Sem(x)["key"] = x.key /\ Sem(x)["occurrence"] = x.occurrence
                 /\ Sem(x)["status"] = x.status /\ Sem(x)["summary"] = x.summary
      OBVIOUS
    <3> HIDE DEF Sem
    <3> QED BY <3>2, <3>3
  <2>9. ASSUME NEW row \in reviews, row.status = "open"
        PROVE  [key |-> row.key, summary |-> row.summary] \in current
    <3> DEFINE new == After(row, current, revision + 1)
    <3>1. AfterOk(row, current, revision + 1, new) /\ new \in e.reviews
      BY <2>6, <2>7, AfterIs DEF IInv, TypeOK
    <3> HIDE DEF new
    <3>2. PICK old \in reviews : /\ old.key = new.key /\ old.occurrence = new.occurrence
                                 /\ old.status = new.status /\ old.summary = new.summary
      BY <2>8, <3>1
    <3>3. old = row
      BY <3>1, <3>2 DEF AfterOk, SameReview, IInv, OneRow
    <3> QED BY <2>9, <3>1, <3>2, <3>3 DEF AfterOk
  <2>10. ASSUME NEW c \in current
         PROVE  \E row \in reviews : /\ row.status = "open"
                                     /\ c = [key |-> row.key, summary |-> row.summary]
    <3>1. c \notin Opening(reviews, current)
      <4>1. SUFFICES ASSUME c \in Opening(reviews, current) PROVE FALSE
        OBVIOUS
      <4> DEFINE n == NextOccurrence(reviews, c.key)
                 new == Open(c, n, revision + 1)
      <4>2. new \in e.reviews
        BY <2>7, <4>1
      <4>3. new.key = c.key /\ new.occurrence = n
        BY DEF Open
      <4>4. NextOk(c.key, n)
        BY NextIs
      <4> HIDE DEF new, n
      <4>5. PICK old \in reviews : old.key = c.key /\ old.occurrence = n
        BY <2>8, <4>2, <4>3
      <4> QED BY <4>4, <4>5 DEF NextOk, RowOf
    <3>2. PICK row \in Latest(reviews, c.key) : row.status = "open"
      BY <3>1 DEF Opening
    <3>3. row \in reviews /\ row.key = c.key
      BY DEF Latest
    <3>4. [key |-> row.key, summary |-> row.summary] \in current
      BY <2>9, <3>2, <3>3
    <3>5. c = [key |-> row.key, summary |-> row.summary]
      BY <2>6, <3>3, <3>4
    <3> QED BY <3>2, <3>3, <3>5
  <2>11. OpenOf(reviews) = current
    BY <2>9, <2>10 DEF OpenOf
  <2> QED BY <2>5, <2>11 DEF current
<1> QED BY <1>1, <1>2

LEMMA QuietCases ==
  ASSUME IInv, NEW w, NEW S, Quiet(w, S)
  PROVE  /\ CasesMirror' /\ \A c \in DOMAIN cases' : cases'[c] \in CaseRows
         /\ DOMAIN cases' = DOMAIN cases
         /\ \A c \in DOMAIN cases : Counted(cases[c], cases'[c])
<1> DEFINE of(c) == {row \in reviews : CaseOf(row) = c}
<1>0. /\ revision \in 1 .. MaxRevision /\ reviews \subseteq ReviewRows /\ reviews' = reviews
      /\ \A c \in DOMAIN cases : cases[c] \in CaseRows
  BY DEF Quiet, Differs, stored, IInv, TypeOK
<1>1. /\ DOMAIN cases = {CaseOf(row) : row \in reviews}
      /\ \A row \in reviews : CaseOk(cases[CaseOf(row)], row)
  BY DEF IInv, CasesMirror, CaseOk, Pinned
<1>2. DOMAIN cases' = DOMAIN cases
  BY <1>1 DEF Quiet, ProjectCases
<1>3. ASSUME NEW row \in reviews
      PROVE  cases'[CaseOf(row)] = Projected(cases[CaseOf(row)], row, revision)
  <2>1. of(CaseOf(row)) = {row}
    BY DEF IInv, OneRow, SameReview, CaseOf
  <2>2. CaseOf(row) \in DOMAIN cases
    BY <1>1
  <2>3. cases'[CaseOf(row)] =
          LET c == CaseOf(row)
          IN  IF of(c) = {} THEN Cleared(cases[c])
              ELSE LET x == CHOOSE x \in of(c) : TRUE
                   IN  IF c \in DOMAIN cases THEN Projected(cases[c], x, revision)
                       ELSE NewCase(x, revision)
    BY <1>1, <2>2 DEF Quiet, ProjectCases
  <2> HIDE DEF of
  <2> QED BY <2>1, <2>2, <2>3
<1>4. ASSUME NEW row \in reviews
      PROVE  LET new == cases'[CaseOf(row)]
             IN  new \in CaseRows /\ CaseOk(new, row) /\ Counted(cases[CaseOf(row)], new)
  <2> DEFINE case == cases[CaseOf(row)]
  <2>1. case \in CaseRows /\ Pinned(case, row) /\ row \in ReviewRows
    BY <1>0, <1>1 DEF CaseOk
  <2>2. cases'[CaseOf(row)] = Projected(case, row, revision)
    BY <1>3
  <2> HIDE DEF case
  <2>3. LET new == Projected(case, row, revision)
        IN  new \in CaseRows /\ CaseOk(new, row) /\ Counted(case, new)
    BY <1>0, <2>1, ProjectedIs
  <2> QED BY <2>2, <2>3 DEF case
<1>5. CasesMirror'
  BY <1>0, <1>1, <1>2, <1>4 DEF CasesMirror, CaseOk, Pinned, CaseOf
<1> QED BY <1>1, <1>2, <1>4, <1>5

\* The parts of the invariant that say nothing of the entity row, of the last
\* observation and of the cases.
Ledger ==
  /\ IsFiniteSet(reviews)
  /\ OpenOf(reviews) = Candidates(truth.world, Records, truth.version)
  /\ Timed(reviews, revision, registry) /\ OneRow(reviews)
  /\ Ordered(reviews) /\ Gapless(reviews)
  /\ MembersMirror /\ EntityMirror /\ ValuesMirror /\ RowsMirror

LEMMA LedgerKept ==
  ASSUME Ledger,
         UNCHANGED <<revision, memberships, registry, provenance, facts, reviews, outputs, truth>>
  PROVE  Ledger'
<1>0. /\ revision' = revision /\ memberships' = memberships /\ registry' = registry
      /\ provenance' = provenance /\ facts' = facts /\ reviews' = reviews /\ truth' = truth
      /\ outEntity' = outEntity /\ outMembers' = outMembers /\ outReviews' = outReviews
  BY DEF outputs
<1>1. IsFiniteSet(reviews')
      /\ OpenOf(reviews') = Candidates(truth'.world, Records, truth'.version)
  BY <1>0 DEF Ledger
<1>2. /\ Timed(reviews', revision', registry') /\ OneRow(reviews')
      /\ Ordered(reviews') /\ Gapless(reviews')
  BY <1>0 DEF Ledger
<1>3. MembersMirror'
  BY <1>0 DEF Ledger, MembersMirror
<1>4. EntityMirror'
  <2>1. TruthIds' = TruthIds /\ At' = At
    BY <1>0 DEF TruthIds, At
  <2>2. EntityMirror
    BY DEF Ledger
  <2> DEFINE flag == \E row \in reviews : row.status = "open"
  <2>3. flag' <=> flag
    BY <1>0
  <2>4. /\ DOMAIN outEntity = TruthIds
        /\ \A m \in TruthIds :
             /\ DOMAIN outEntity[m] = {"gold", "count", "has_review", "changed"}
             /\ outEntity[m].gold = [f \in Fields |-> truth.world.gold[<<m, f>>]]
             /\ outEntity[m].count = Cardinality({r \in Records : At[r] = m})
             /\ outEntity[m].has_review = flag
    BY <2>2 DEF EntityMirror
  <2>5. flag' = flag
    BY <1>0
  <2> HIDE DEF flag
  <2>6. /\ DOMAIN outEntity' = TruthIds'
        /\ \A m \in TruthIds' :
             /\ DOMAIN outEntity'[m] = {"gold", "count", "has_review", "changed"}
             /\ outEntity'[m].gold = [f \in Fields |-> truth'.world.gold[<<m, f>>]]
             /\ outEntity'[m].count = Cardinality({r \in Records : At'[r] = m})
             /\ outEntity'[m].has_review = flag'
    BY <1>0, <2>1, <2>4, <2>5
  <2> QED BY <2>6 DEF EntityMirror, flag
<1>5. ValuesMirror'
  BY <1>0 DEF Ledger, ValuesMirror, TruthIds, At
<1>6. RowsMirror'
  BY <1>0 DEF Ledger, RowsMirror, Shape
<1>7. (IsFiniteSet(reviews) /\ OpenOf(reviews) = Candidates(truth.world, Records, truth.version))'
  BY <1>1 DEF OpenOf, Candidates, Within, Pairs, PairKey, GoldenKey
<1>8. (Timed(reviews, revision, registry) /\ OneRow(reviews) /\ Ordered(reviews) /\ Gapless(reviews))'
  BY <1>2 DEF Timed, OneRow, SameReview, Ordered, Gapless
<1> QED BY <1>3, <1>4, <1>5, <1>6, <1>7, <1>8 DEF Ledger

LEMMA QuietKeeps ==
  ASSUME IInv, NEW w, NEW S, Quiet(w, S)
  PROVE  IInv'
<1>1. UNCHANGED <<stored, outputs, truth, entity>> /\ seen' = [version |-> version, epoch |-> epoch]
  BY DEF Quiet
<1>2. Ledger'
  <2>1. Ledger
    BY DEF IInv, OpenIs, Ledger
  <2> QED BY <1>1, <2>1, LedgerKept DEF stored
<1>3. CasesMirror' /\ \A c \in DOMAIN cases' : cases'[c] \in CaseRows
  BY QuietCases
<1>4. OpenIs'
  <2>1. OpenOf(reviews) = Candidates(truth.world, Records, version)
    BY QuietOpen
  <2>2. OpenOf(reviews) = Candidates(truth.world, Records, truth.version)
    BY DEF IInv, OpenIs
  <2>3. reviews' = reviews /\ truth' = truth /\ seen'.version = version
    BY <1>1 DEF stored
  <2> QED BY <2>1, <2>2, <2>3 DEF OpenIs, OpenOf, Candidates
<1>5. TypeOK'
  <2>1. seen' \in [version : 0 .. MaxVersion, epoch : 0 .. MaxEpoch]
    <3>1. version \in 0 .. MaxVersion /\ epoch \in 0 .. MaxEpoch
      BY BoundsAssumption DEF IInv, TypeOK
    <3> QED BY <1>1, <3>1
  <2> QED BY <1>1, <1>3, <2>1 DEF IInv, TypeOK, stored, outputs, entity, Pairs
<1>6. nil' \subseteq {CaseOf(row) : row \in reviews'}
  BY <1>1 DEF IInv, stored
<1> QED BY <1>2, <1>3, <1>4, <1>5, <1>6 DEF IInv, Ledger, CaseOf

\* A refresh whose reviews have one id changes nothing.
LEMMA FailedKeeps ==
  ASSUME IInv, refused' \in BOOLEAN,
         UNCHANGED <<revision, memberships, registry, provenance, facts, nil,
                     reviews, outputs, cases, truth, seen, entity>>
  PROVE  IInv'
<1>1. Ledger'
  <2>1. Ledger
    BY DEF IInv, OpenIs, Ledger
  <2> QED BY <2>1, LedgerKept
<1>2. TypeOK'
  BY DEF IInv, TypeOK, outputs, entity, Pairs
<1>3. OpenIs'
  <2>1. reviews' = reviews /\ truth' = truth /\ seen' = seen
    OBVIOUS
  <2>2. OpenOf(reviews') = Candidates(truth'.world, Records, truth'.version)
        /\ OpenOf(reviews') = Candidates(truth'.world, Records, seen'.version)
    BY <2>1 DEF IInv, OpenIs
  <2> QED BY <2>2 DEF OpenIs, OpenOf, Candidates
<1>4. CasesMirror'
  BY DEF IInv, CasesMirror, CaseOf
<1>5. nil' \subseteq {CaseOf(row) : row \in reviews'}
  BY DEF IInv
<1> QED BY <1>1, <1>2, <1>3, <1>4, <1>5 DEF IInv, Ledger, CaseOf

LEMMA RefreshIs ==
  ASSUME IInv, NEW w \in Worlds, NEW S \in SUBSET Records, Refresh(w, S)
  PROVE  \/ Writes(w, S)
         \/ Overwrites(w, S)
         \/ Quiet(w, S)
         \/ /\ refused' = TRUE
            /\ UNCHANGED <<revision, memberships, registry, provenance, facts, nil,
                           reviews, outputs, cases, truth, seen, entity>>
<1> DEFINE e == Part(w, S)
           quiet == /\ cases' = ProjectCases(reviews, revision)
                    /\ seen' = [version |-> version, epoch |-> epoch]
                    /\ UNCHANGED <<stored, outputs, truth>>
           failed == /\ refused' = TRUE
                     /\ UNCHANGED <<revision, memberships, registry, provenance, facts,
                                    reviews, nil, outputs, cases, truth, seen>>
           same(late) == {row \in e.reviews : CaseOf(row) \in nil \cup late}
           earlier == {row \in reviews \ e.loaded : CaseOf(row) \in nil}
           over(late) == \E old \in earlier, row \in same(late) :
                           OverwriteReview(e, revision + 1, old, row)
<1>0. /\ w \in WorldType /\ Possible(w) /\ Scoped(w, S) /\ UNCHANGED entity
      /\ IF Differs(e, S)
         THEN /\ revision < MaxRevision
              /\ \E late \in SUBSET e.opening :
                   IF \E a, b \in same(late) : a # b
                   THEN failed
                   ELSE /\ Publish(w, S, e) /\ nil' = nil \cup late
                        /\ seen' = [version |-> version, epoch |-> epoch]
                        /\ UNCHANGED refused
                        /\ IF late = {} \/ earlier = {} THEN WriteReviews(e, revision + 1)
                           ELSE over(late)
         ELSE quiet
  BY WorldsAssumption DEF Refresh, Part
<1>1. PartOk(w, S)
  BY <1>0, PartIs
<1> HIDE DEF e, same, earlier, over, quiet, failed
<1>2. CASE ~Differs(e, S)
  <2>1. quiet
    BY <1>0, <1>2
  <2> QED BY <1>0, <1>1, <1>2, <2>1 DEF Quiet, e, quiet
<1>3. CASE Differs(e, S)
  <2>1. PICK late \in SUBSET e.opening :
          IF \E a, b \in same(late) : a # b
          THEN failed
          ELSE /\ Publish(w, S, e) /\ nil' = nil \cup late
               /\ seen' = [version |-> version, epoch |-> epoch]
               /\ UNCHANGED refused
               /\ IF late = {} \/ earlier = {} THEN WriteReviews(e, revision + 1)
                  ELSE over(late)
    BY <1>0, <1>3
  <2>2. CASE \E a, b \in same(late) : a # b
    <3>1. failed
      BY <2>1, <2>2
    <3> QED BY <1>0, <3>1 DEF failed
  <2>3. CASE ~(\E a, b \in same(late) : a # b)
    <3>1. Publishes(w, S)
      BY <1>0, <1>1, <1>3, <2>1, <2>3 DEF Publishes, e
    <3>2. CASE late = {} \/ earlier = {}
      <4>1. WriteReviews(e, revision + 1)
        BY <2>1, <2>3, <3>2
      <4> QED BY <3>1, <4>1 DEF Writes, e
    <3>3. CASE ~(late = {} \/ earlier = {})
      <4>1. over(late) /\ nil' = nil \cup late
        BY <2>1, <2>3, <3>3
      <4>2. PICK old \in earlier, row \in same(late) : OverwriteReview(e, revision + 1, old, row)
        BY <4>1 DEF over
      <4>3. e.opening = {CaseOf(Opened(c)) : c \in NewIssues(w)} /\ e.loaded = LoadedOf(S)
        BY <3>1, PartRows, PartFields DEF e
      <4>4. PICK c \in NewIssues(w) : CaseOf(Opened(c)) \in late
        BY <3>3, <4>3
      <4>5. Opened(c) \in e.reviews
        BY <3>1, MadeAre DEF e
      <4>6. row = Opened(c)
        BY <2>3, <4>4, <4>5 DEF same
      <4>7. old \in reviews \ LoadedOf(S) /\ CaseOf(old) \in nil /\ CaseOf(row) \in nil'
        BY <4>1, <4>3, <4>4, <4>6 DEF earlier
      <4> QED BY <3>1, <4>2, <4>6, <4>7 DEF Overwrites, e
    <3> QED BY <3>2, <3>3
  <2> QED BY <2>2, <2>3
<1> QED BY <1>2, <1>3

LEMMA DecideKeeps ==
  ASSUME IInv, Decide
  PROVE  /\ IInv' /\ DOMAIN cases' = DOMAIN cases
         /\ \A c \in DOMAIN cases : Counted(cases[c], cases'[c])
<1>0. /\ epoch < MaxEpoch /\ epoch' = epoch + 1
      /\ DOMAIN cases' = DOMAIN cases
      /\ \A c \in DOMAIN cases :
           cases'[c] = IF cases[c].status = "open" /\ ~cases[c].pending
                       THEN [cases[c] EXCEPT !.pending = TRUE, !.action_revision = @ + 1]
                       ELSE cases[c]
      /\ UNCHANGED <<version, seen, stored, outputs, truth>>
  BY DEF Decide
<1>1. ASSUME NEW c \in DOMAIN cases
      PROVE  /\ cases'[c] \in CaseRows /\ Counted(cases[c], cases'[c])
             /\ \A row : CaseOk(cases[c], row) => CaseOk(cases'[c], row)
  <2> DEFINE case == cases[c]
             marked == [case EXCEPT !.pending = TRUE, !.action_revision = @ + 1]
             new == cases'[c]
  <2>1. case \in CaseRows /\ TRUE \in BOOLEAN
    BY DEF IInv, TypeOK
  <2>2. case.action_revision \in Nat \ {0}
    BY <2>1 DEF CaseRows
  <2>3. CASE case.status = "open" /\ ~case.pending
    <3>1. new = marked
      BY <1>0, <2>3
    <3> HIDE DEF case, new
    <3>2. /\ marked \in CaseRows /\ marked.status = case.status /\ marked.pending = TRUE
          /\ marked.review_version = case.review_version /\ marked.revision = case.revision
          /\ marked.action_revision = case.action_revision + 1
      BY <2>1, CaseMarked, Zenon
    <3> HIDE DEF marked
    <3>3. Token(marked) # Token(case)
      <4>1. Token(marked) = Token(case) => marked.pending = case.pending
        BY <2>1, <3>2, TokenIs
      <4> QED BY <2>3, <3>2, <4>1, Zenon
    <3>4. \A row : CaseOk(case, row) => CaseOk(new, row)
      BY <3>1, <3>2 DEF CaseOk, Pinned
    <3>5. new \in CaseRows /\ Counted(case, new)
      BY <2>2, <3>1, <3>2, <3>3 DEF Counted
    <3> QED BY <3>4, <3>5 DEF case, new
  <2>4. CASE ~(case.status = "open" /\ ~case.pending)
    <3>1. new = case
      BY <1>0, <2>4
    <3> HIDE DEF case, new
    <3>2. new \in CaseRows /\ Counted(case, new) /\ \A row : CaseOk(case, row) => CaseOk(new, row)
      BY <2>1, <2>2, <3>1 DEF Counted
    <3> QED BY <3>2 DEF case, new
  <2> QED BY <2>3, <2>4
<1>2. Ledger'
  <2>1. Ledger
    BY DEF IInv, OpenIs, Ledger
  <2> QED BY <1>0, <2>1, LedgerKept DEF stored
<1>3. CasesMirror'
  <2>1. reviews' = reviews
    BY <1>0 DEF stored
  <2>2. /\ DOMAIN cases = {CaseOf(row) : row \in reviews}
        /\ \A row \in reviews : CaseOk(cases[CaseOf(row)], row)
    BY DEF IInv, CasesMirror, CaseOk, Pinned
  <2>3. DOMAIN cases' = {CaseOf(row) : row \in reviews'}
    BY <1>0, <2>1, <2>2
  <2>4. \A row \in reviews' : CaseOk(cases'[CaseOf(row)], row)
    <3>1. \A row \in reviews : CaseOf(row) \in DOMAIN cases
      BY <2>2
    <3> QED BY <1>1, <2>1, <2>2, <3>1
  <2> QED BY <2>3, <2>4 DEF CasesMirror, CaseOk, Pinned, CaseOf
<1>4. OpenIs'
  <2>1. reviews' = reviews /\ truth' = truth /\ seen' = seen
    BY <1>0 DEF stored
  <2>2. OpenOf(reviews') = Candidates(truth'.world, Records, truth'.version)
        /\ OpenOf(reviews') = Candidates(truth'.world, Records, seen'.version)
    BY <2>1 DEF IInv, OpenIs
  <2> QED BY <2>2 DEF OpenIs, OpenOf, Candidates
<1>5. TypeOK'
  <2>1. epoch' \in 0 .. MaxEpoch
    <3>1. epoch \in 0 .. MaxEpoch
      BY DEF IInv, TypeOK
    <3>2. epoch < MaxEpoch /\ epoch' = epoch + 1
      BY DEF Decide
    <3> QED BY <3>1, <3>2, BoundsAssumption
  <2> QED BY <1>0, <1>1, <2>1 DEF IInv, TypeOK, stored, outputs, Pairs
<1>6. nil' \subseteq {CaseOf(row) : row \in reviews'}
  BY <1>0 DEF IInv, stored
<1> QED BY <1>0, <1>1, <1>2, <1>3, <1>4, <1>5, <1>6 DEF IInv, Ledger, CaseOf

LEMMA RedefineKeeps ==
  ASSUME IInv, Redefine
  PROVE  IInv' /\ cases' = cases
<1>1. Ledger'
  <2>1. Ledger
    BY DEF IInv, OpenIs, Ledger
  <2> QED BY <2>1, LedgerKept DEF Redefine, stored
<1>2. TypeOK'
  BY BoundsAssumption DEF Redefine, IInv, TypeOK, stored, outputs, Pairs
<1>3. OpenIs' /\ CasesMirror' /\ cases' = cases
  BY DEF Redefine, IInv, OpenIs, OpenOf, Candidates, CasesMirror, stored
<1>4. nil' \subseteq {CaseOf(row) : row \in reviews'}
  BY DEF Redefine, IInv, stored
<1> QED BY <1>1, <1>2, <1>3, <1>4 DEF IInv, Ledger, CaseOf

LEMMA StutterKeeps ==
  ASSUME IInv, UNCHANGED vars
  PROVE  IInv'
BY FailedKeeps DEF vars, stored, IInv, TypeOK

\* Decisions and definitions are accepted whatever was overwritten.
LEMMA TypeKept ==
  ASSUME TypeOK, Decide \/ Redefine \/ UNCHANGED vars
  PROVE  TypeOK' /\ nil' = nil
<1>1. CASE Decide
  <2>1. epoch' \in 0 .. MaxEpoch
    <3>1. epoch \in 0 .. MaxEpoch /\ epoch < MaxEpoch /\ epoch' = epoch + 1
      BY <1>1 DEF TypeOK, Decide
    <3> QED BY <3>1, BoundsAssumption
  <2>2. ASSUME NEW c \in DOMAIN cases
        PROVE  [cases[c] EXCEPT !.pending = TRUE, !.action_revision = @ + 1] \in CaseRows
    <3>1. cases[c] \in CaseRows /\ TRUE \in BOOLEAN
      BY DEF TypeOK
    <3> QED BY <3>1, CaseMarked
  <2>3. \A c \in DOMAIN cases' : cases'[c] \in CaseRows
    BY <1>1, <2>2 DEF TypeOK, Decide
  <2> QED BY <1>1, <2>1, <2>3 DEF Decide, TypeOK, stored, outputs, Pairs
<1>2. CASE Redefine
  BY <1>2, BoundsAssumption DEF Redefine, TypeOK, stored, outputs, Pairs
<1>3. CASE UNCHANGED vars
  BY <1>3 DEF vars, entity, TypeOK, stored, outputs, Pairs
<1> QED BY <1>1, <1>2, <1>3

LEMMA NextKeeps ==
  ASSUME SInv, [Next]_vars
  PROVE  SInv'
<1>1. ASSUME NEW w \in Worlds, NEW S \in SUBSET Records, Refresh(w, S)
      PROVE  SInv'
  <2>1. IInv
    BY <1>1 DEF SInv, Refresh
  <2>2. CASE Overwrites(w, S)
    BY <2>1, <2>2, OverwritesKeeps DEF SInv
  <2>3. CASE ~Overwrites(w, S)
    <3>1. IInv'
      BY <1>1, <2>1, <2>3, RefreshIs, WritesKeeps, QuietKeeps, FailedKeeps
    <3> QED BY <3>1 DEF SInv, IInv
  <2> QED BY <2>2, <2>3
<1>2. ASSUME Decide \/ Redefine \/ UNCHANGED vars
      PROVE  SInv'
  <2>1. TypeOK' /\ nil' = nil
    BY <1>2, TypeKept DEF SInv
  <2>2. CASE IInv
    <3>1. IInv'
      BY <1>2, <2>2, DecideKeeps, RedefineKeeps, StutterKeeps
    <3> QED BY <2>1, <3>1 DEF SInv
  <2>3. CASE ~IInv
    BY <2>1, <2>3 DEF SInv, IdsSufficed
  <2> QED BY <2>2, <2>3
<1> QED BY <1>1, <1>2 DEF Next

LEMMA InitInv == Init => IInv
<1> SUFFICES ASSUME Init PROVE IInv
  OBVIOUS
<1> DEFINE none == [at |-> [r \in Records |-> 0], facts |-> NoFacts,
                    gold |-> [pos \in Ids \X Fields |-> 1]]
<1>1. /\ version = 1 /\ epoch = 0 /\ revision = 0 /\ seen = [version |-> 0, epoch |-> 0]
      /\ memberships = [r \in Records |-> NoRow] /\ registry = {}
      /\ provenance = [pos \in {} |-> 0] /\ facts = NoFacts
      /\ reviews = {} /\ nil = {} /\ refused = FALSE
      /\ outEntity = [m \in {} |-> 0] /\ outMembers = [r \in {} |-> NoRow] /\ outReviews = {}
      /\ cases = [c \in {} |-> 0]
      /\ truth = [world |-> none, version |-> 1]
  BY DEF Init
<1>2. /\ none \in WorldType /\ none.at = [r \in Records |-> 0] /\ none.facts = NoFacts
      /\ none.gold = [pos \in Ids \X Fields |-> 1]
  BY DEF WorldType, NoFacts
<1>3. truth.world = none /\ truth.version = 1 /\ seen.version = 0
  BY <1>1
<1> HIDE DEF none
<1>4. TypeOK
  <2>1. version \in 1 .. MaxVersion /\ epoch \in 0 .. MaxEpoch /\ revision \in 0 .. MaxRevision
    BY <1>1, BoundsAssumption
  <2>2. seen \in [version : 0 .. MaxVersion, epoch : 0 .. MaxEpoch]
    BY <1>1, BoundsAssumption
  <2>3. memberships \in [Records -> MembershipRows]
    <3>1. NoRow \in MembershipRows
      BY BoundsAssumption DEF NoRow, MembershipRows
    <3> QED BY <1>1, <3>1
  <2>4. truth \in [world : WorldType, version : 1 .. MaxVersion]
    BY <1>1, <1>2, <2>1
  <2>5. facts \in [Pairs -> Summaries \cup {"none", "accepted"}]
    BY <1>1 DEF NoFacts
  <2>6. registry \subseteq Ids /\ DOMAIN provenance \subseteq Ids \X Fields
        /\ reviews \subseteq ReviewRows /\ outReviews \subseteq ReviewRows
        /\ nil \subseteq [key : IssueKeys, occurrence : Nat \ {0}] /\ refused \in BOOLEAN
        /\ (\A row \in reviews : row.resolved # 0 <=> row.status = "resolved")
        /\ DOMAIN outEntity \subseteq registry /\ DOMAIN outMembers \subseteq Records
        /\ \A c \in DOMAIN cases : cases[c] \in CaseRows
    BY <1>1
  <2> QED BY <2>1, <2>2, <2>3, <2>4, <2>5, <2>6 DEF TypeOK
<1>5. ASSUME NEW v
      PROVE  Candidates(truth.world, Records, v) = {}
  <2>1. \A p \in Within(Records) : none.facts[p] = "none"
    BY <1>2 DEF NoFacts, Within
  <2>2. "none" \notin Summaries
    BY WorldsAssumption
  <2>3. \A c : \A p \in Within(Records) : ~PairIssue(none, v, p, c)
    BY <2>1, <2>2 DEF PairIssue
  <2>4. IdsOf(none, Records) = {}
    BY <1>2 DEF IdsOf
  <2> QED BY <1>3, <2>3, <2>4, CandidateIs
<1>6. OpenIs
  BY <1>1, <1>5 DEF OpenIs, OpenOf
<1>7. MembersMirror
  BY <1>1, <1>2, <1>3 DEF MembersMirror, NoRow
<1>8. TruthIds = {}
  BY <1>2, <1>3 DEF TruthIds, At
<1>9. EntityMirror
  BY <1>1, <1>8 DEF EntityMirror
<1>10. ValuesMirror
  <2>1. provenance = [pos \in TruthIds \X Fields |-> truth.world.gold[pos]]
    BY <1>1, <1>8
  <2> QED BY <1>1, <1>2, <1>3, <2>1 DEF ValuesMirror
<1>11. RowsMirror
  <2>1. {q \in Records : memberships[q] # NoRow} = {}
    BY <1>1
  <2>2. outMembers = [r \in {q \in Records : memberships[q] # NoRow} |-> memberships[r]]
    BY <1>1, <2>1
  <2> QED BY <1>1, <2>2 DEF RowsMirror
<1>12. CasesMirror
  BY <1>1 DEF CasesMirror
<1>13. nil \subseteq {CaseOf(row) : row \in reviews}
  BY <1>1
<1>14. IsFiniteSet(reviews) /\ Timed(reviews, revision, registry) /\ OneRow(reviews)
       /\ Ordered(reviews) /\ Gapless(reviews)
  BY <1>1, FS_EmptySet DEF Timed, OneRow, Ordered, Gapless
<1> QED BY <1>4, <1>6, <1>7, <1>9, <1>10, <1>11, <1>12, <1>13, <1>14 DEF IInv

LEMMA Invariant == Spec => []SInv
<1>1. Init => SInv
  BY InitInv DEF SInv, IInv
<1> QED BY <1>1, NextKeeps, PTL DEF Spec

-----------------------------------------------------------------------------
(* The theorems.                                                           *)

\* Every table, ledger row and case has its type, and a review has a resolved
\* revision exactly if it is resolved, in every reachable state.
THEOREM TypeCorrect == Spec => []TypeOK
<1>1. SInv => TypeOK
  BY DEF SInv
<1> QED BY <1>1, Invariant, PTL

\* After any sequence of full and affected publications the open reviews are
\* the issues of everything that was evaluated, each once: evaluating a part
\* never loses, keeps or repeats an issue of the rest, as long as no two reviews
\* were given the nil id.
THEOREM OpenAreIssues == Spec => []OpenAreCurrent
<1>1. ASSUME IInv
      PROVE  OpenAreCurrent
  <2> DEFINE open == {row \in reviews : row.status = "open"}
  <2>1. {[key |-> row.key, summary |-> row.summary] : row \in open}
          = Candidates(truth.world, Records, truth.version)
    BY <1>1 DEF IInv, OpenIs, OpenOf
  <2>2. \A a, b \in open : a.key = b.key => a = b
    <3>1. \A a, b \in open : a.occurrence \in Nat /\ b.occurrence \in Nat
      BY <1>1 DEF IInv, TypeOK, ReviewRows
    <3>2. \A a, b \in open : a.key = b.key /\ b.occurrence >= a.occurrence => a = b
      BY <1>1 DEF IInv, Ordered
    <3> QED BY <3>1, <3>2
  <2> QED BY <2>1, <2>2 DEF OpenAreCurrent
<1>2. SInv => OpenAreCurrent
  BY <1>1 DEF SInv, OpenAreCurrent
<1> QED BY <1>2, Invariant, PTL

\* The occurrences of an issue are numbered without a gap, and one opens only
\* after all before it were resolved, as long as no two reviews were given the
\* nil id.
THEOREM OccurrencesChain == Spec => []OccurrenceChain
<1>1. SInv => OccurrenceChain
  BY DEF SInv, IInv, Ordered, Gapless, OccurrenceChain
<1> QED BY <1>1, Invariant, PTL

\* The tables for consumers, the golden values, the facts and the cases say
\* what the last publication found, of everything and not only of the part
\* that it evaluated, as long as no two reviews were given the nil id.
THEOREM OutputsAreMirror == Spec => []OutputsMirror
<1>1. ASSUME IInv
      PROVE  OutputsMirror
  <2> DEFINE at == truth.world.at
             ids == {at[r] : r \in Records} \ {0}
             shape(rows) == {[row EXCEPT !.summary = "issue"] : row \in rows}
  <2>1. ids = TruthIds
    BY DEF TruthIds, At
  <2>2. /\ DOMAIN outEntity = ids
        /\ \A m \in ids :
             /\ outEntity[m].gold = [f \in Fields |-> truth.world.gold[<<m, f>>]]
             /\ outEntity[m].count = Cardinality({r \in Records : at[r] = m})
             /\ outEntity[m].has_review = \E row \in reviews : row.status = "open"
    BY <1>1, <2>1 DEF IInv, EntityMirror, At
  <2>3. /\ provenance = [pos \in ids \X Fields |-> truth.world.gold[pos]]
        /\ facts = truth.world.facts
    BY <1>1, <2>1 DEF IInv, ValuesMirror
  <2>4. /\ outMembers = [r \in {q \in Records : memberships[q] # NoRow} |-> memberships[r]]
        /\ shape(outReviews) = shape(reviews)
    BY <1>1 DEF IInv, RowsMirror, Shape
  <2>5. DOMAIN cases = {CaseOf(row) : row \in reviews}
    BY <1>1 DEF IInv, CasesMirror
  <2>6. ASSUME NEW row \in outReviews
        PROVE  LET case == cases[CaseOf(row)]
               IN  /\ case.status = row.status
                   /\ case.review_version = row.version /\ case.revision = row.changed
    <3>1. Alike(outReviews, reviews)
      BY <1>1, ShapeIs DEF IInv, RowsMirror
    <3>2. PICK r \in reviews : Blank(row) = Blank(r)
      BY <3>1 DEF Alike
    <3>3. row \in ReviewRows /\ r \in ReviewRows
      BY <1>1 DEF IInv, TypeOK
    <3>4. SameReview(row, r) /\ row.status = r.status /\ row.version = r.version
          /\ row.changed = r.changed
      BY <3>2, <3>3, BlankIs
    <3>5. CaseOf(row) = CaseOf(r)
      BY <3>4 DEF CaseOf, SameReview
    <3>6. LET case == cases[CaseOf(r)]
          IN  /\ case.status = r.status
              /\ case.review_version = r.version /\ case.revision = r.changed
      BY <1>1 DEF IInv, CasesMirror
    <3> QED BY <3>4, <3>5, <3>6
  <2> HIDE DEF at, ids, shape
  <2>7. OutputsMirror
    BY <2>2, <2>3, <2>4, <2>5, <2>6 DEF OutputsMirror, at, ids, shape
  <2> QED BY <2>7
<1>2. SInv => OutputsMirror
  BY <1>1 DEF SInv, OutputsMirror
<1> QED BY <1>2, Invariant, PTL

\* No step changes a review or a case without counting it, or counts a change
\* that did not happen, and none touches a resolved review, unless it gives a
\* second review the nil id.
THEOREM ChangesAreCounted == Spec => ChangesCounted
<1>1. ASSUME IInv, [Next]_vars
      PROVE  [ChangesCountedStep]_vars
  <2> DEFINE Change(row, new) ==
        /\ row.status = "open" /\ new.opened = row.opened
        /\ new.version = row.version + 1 /\ new.changed = revision'
        /\ new.status = "resolved" \/ new.summary # row.summary
  <2>1. ASSUME \A row \in reviews : \E new \in reviews' :
                 SameReview(row, new) /\ (new = row \/ Change(row, new)),
               \A c \in DOMAIN cases : Counted(cases[c], cases'[c])
        PROVE  ChangesCountedStep
    BY <2>1 DEF ChangesCountedStep, Counted, Token
  <2>2. ASSUME reviews' = reviews
        PROVE  \A row \in reviews : \E new \in reviews' :
                 SameReview(row, new) /\ (new = row \/ Change(row, new))
    BY <2>2 DEF SameReview
  <2>3. ASSUME cases' = cases
        PROVE  \A c \in DOMAIN cases : Counted(cases[c], cases'[c])
    BY <1>1, <2>3 DEF Counted, IInv, TypeOK, CaseRows
  <2>4. ASSUME NEW w, NEW S, Writes(w, S)
        PROVE  ChangesCountedStep
    <3>1. ASSUME NEW row \in reviews
          PROVE  \E new \in reviews' : SameReview(row, new) /\ (new = row \/ Change(row, new))
      <4> DEFINE new == Moved(w, S, row)
      <4>1. AfterOk(row, Whole(w), revision + 1, new)
        BY <1>1, <2>4, WholeIs DEF Writes, Publishes
      <4>2. reviews' = RowsAfter(w, S) /\ revision' = revision + 1
        BY <1>1, <2>4, PublishReviews, PublishWorld
      <4>3. new \in reviews'
        BY <4>2 DEF RowsAfter
      <4> HIDE DEF new
      <4>4. SameReview(row, new) /\ (new = row \/ Change(row, new))
        BY <4>1, <4>2 DEF AfterOk
      <4> QED BY <4>3, <4>4
    <3>2. \A c \in DOMAIN cases : Counted(cases[c], cases'[c])
      BY <1>1, <2>4, PublishCases
    <3> HIDE DEF Change
    <3> QED BY <2>1, <3>1, <3>2
  <2> HIDE DEF Change
  <2>5. ASSUME NEW w \in Worlds, NEW S \in SUBSET Records, Refresh(w, S)
        PROVE  ChangesCountedStep
    <3>1. ASSUME Quiet(w, S) PROVE ChangesCountedStep
      <4>1. reviews' = reviews
        BY <3>1 DEF Quiet, stored
      <4>2. \A c \in DOMAIN cases : Counted(cases[c], cases'[c])
        BY <1>1, <3>1, QuietCases
      <4> QED BY <2>1, <2>2, <4>1, <4>2
    <3>2. ASSUME Overwrites(w, S) PROVE ChangesCountedStep
      BY <1>1, <3>2, OverwritesKeeps DEF ChangesCountedStep
    <3>3. ASSUME reviews' = reviews, cases' = cases PROVE ChangesCountedStep
      BY <2>1, <2>2, <2>3, <3>3
    <3> QED BY <1>1, <2>4, <2>5, <3>1, <3>2, <3>3, RefreshIs
  <2>6. ASSUME Decide PROVE ChangesCountedStep
    <3>1. reviews' = reviews
      BY <2>6 DEF Decide, stored
    <3>2. \A c \in DOMAIN cases : Counted(cases[c], cases'[c])
      BY <1>1, <2>6, DecideKeeps
    <3> QED BY <2>1, <2>2, <3>1, <3>2
  <2>7. ASSUME Redefine PROVE ChangesCountedStep
    <3>1. reviews' = reviews /\ cases' = cases
      BY <2>7 DEF Redefine, stored
    <3> QED BY <2>1, <2>2, <2>3, <3>1
  <2> QED BY <1>1, <2>5, <2>6, <2>7 DEF Next
<1>2. ASSUME SInv, [Next]_vars
      PROVE  [ChangesCountedStep]_vars
  <2>1. CASE IInv
    BY <1>1, <1>2, <2>1
  <2>2. CASE ~IInv
    <3>1. ~IdsSufficed
      BY <1>2, <2>2 DEF SInv
    <3>2. \A w, S : ~Refresh(w, S)
      BY <3>1 DEF Refresh
    <3>3. TypeOK' /\ nil' = nil
      BY <1>2, <3>2, TypeKept DEF SInv, Next
    <3> QED BY <3>1, <3>3 DEF IdsSufficed, ChangesCountedStep
  <2> QED BY <2>1, <2>2
<1> QED BY <1>2, Invariant, PTL DEF Spec, ChangesCounted
=============================================================================
