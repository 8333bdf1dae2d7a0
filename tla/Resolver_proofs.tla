--------------------------- MODULE Resolver_proofs ---------------------------
(***************************************************************************)
(* Theorems about Resolver, for every set of records, every definition and *)
(* every call.                                                             *)
(***************************************************************************)
EXTENDS Resolver, FiniteSetTheorems, TLAPS

-----------------------------------------------------------------------------
(* Facts about the operators.                                              *)

LEMMA PairType ==
  ASSUME NEW p \in Pairs
  PROVE  /\ p[1] \in Records
         /\ p[2] \in Records
         /\ p[1] # p[2]
  <1>1. p \in Records \X Records /\ p[1] < p[2]
    BY DEF Pairs
  <1>2. p[1] \in Records /\ p[2] \in Records
    BY <1>1
  <1>3. \A m, n \in Nat : m < n => m # n
    OBVIOUS
  <1>4. p[1] # p[2]
    BY <1>1, <1>2, <1>3, RecordsAssumption, Zenon
  <1> QED BY <1>2, <1>4

\* Merge unites exactly the two components it is given.
LEMMA MergeUnites ==
  ASSUME comp \in [Records -> Records], NEW a, NEW b, Merge(a, b),
         NEW r \in Records, NEW s \in Records
  PROVE  comp'[r] = comp'[s] <=>
           comp[r] = comp[s] \/ (comp[r] \in {a, b} /\ comp[s] \in {a, b})
  BY DEF Merge

\* Merge keeps the key of every component the least of its members.
LEMMA MergeKeys ==
  ASSUME comp \in [Records -> Records],
         \A r \in Records : comp[comp[r]] = comp[r] /\ comp[r] <= r,
         NEW a \in Records, NEW b \in Records, comp[a] = a, comp[b] = b,
         Merge(a, b)
  PROVE  /\ comp' \in [Records -> Records]
         /\ \A r \in Records : comp'[comp'[r]] = comp'[r] /\ comp'[r] <= r
  <1>1. comp' \in [Records -> Records]
    BY DEF Merge
  <1>2. ASSUME NEW r \in Records
        PROVE  comp'[comp'[r]] = comp'[r] /\ comp'[r] <= r
    BY <1>1, RecordsAssumption DEF Merge
  <1> QED BY <1>1, <1>2

LEMMA LinkedReflexive ==
  ASSUME NEW E, NEW r \in Records
  PROVE  Linked(E, r, r)
  BY DEF Linked

LEMMA LinkedTransitive ==
  ASSUME NEW E, NEW r \in Records, NEW s \in Records, NEW t \in Records,
         Linked(E, r, s), Linked(E, s, t)
  PROVE  Linked(E, r, t)
  BY DEF Linked

\* The complement of a closed set is closed, so links have no direction.
LEMMA LinkedSymmetric ==
  ASSUME NEW E, E \subseteq Pairs, NEW r \in Records, NEW s \in Records,
         Linked(E, r, s)
  PROVE  Linked(E, s, r)
  <1> SUFFICES ASSUME NEW S \in SUBSET Records, s \in S, ClosedUnder(S, E),
                      r \notin S
               PROVE  FALSE
    BY DEF Linked
  <1>1. ClosedUnder(Records \ S, E)
    BY PairType DEF ClosedUnder
  <1>2. s \in Records \ S
    BY <1>1 DEF Linked
  <1> QED BY <1>2

LEMMA EdgeLinks ==
  ASSUME NEW E, NEW p \in E
  PROVE  Linked(E, p[1], p[2])
  BY DEF Linked, ClosedUnder

\* If every edge lies inside a component, so does everything linked.
LEMMA LinkedInside ==
  ASSUME comp \in [Records -> Records], NEW E, E \subseteq Pairs,
         \A p \in E : SameComponent(p[1], p[2]),
         NEW r \in Records, NEW s \in Records, Linked(E, r, s)
  PROVE  SameComponent(r, s)
  <1> DEFINE S == {t \in Records : comp[t] = comp[r]}
  <1>1. ClosedUnder(S, E)
    BY PairType DEF ClosedUnder, SameComponent
  <1>2. s \in S
    BY <1>1 DEF Linked
  <1> QED BY <1>2 DEF SameComponent

LEMMA VerdictType ==
  ASSUME NEW p, NEW a, NEW b
  PROVE  Verdict(p, a, b) \in Reasons \cup {Admitted}
  BY DEF Verdict, EstablishedReason, Reasons, Admitted

LEMMA ConflictsSymmetric ==
  ASSUME NEW r, NEW s, Conflicts(r, s)
  PROVE  Conflicts(s, r)
  BY DEF Conflicts, Differ

\* Two components conflict exactly if two of their members do.
LEMMA ComponentConflict ==
  ASSUME NEW a, NEW b
  PROVE  AuthorityConflict(a, b) <=>
           \E r \in Members(a), s \in Members(b) : Conflicts(r, s)
  BY DEF AuthorityConflict, Authority, Conflicts, Differ

-----------------------------------------------------------------------------
(* The inductive invariant.                                                *)

\* What is pending belongs to the phase, and nothing is united or rejected
\* before the phase that does it.
PhaseInv ==
  /\ pc = "validate" => comp = [r \in Records |-> r]
  /\ pc = "manual" => pending \subseteq input.matches
  /\ pc = "automatic" => pending \subseteq AutomaticEdges
  /\ pc \in {"validate", "manual"} => rejected = {}

\* In the manual phase components are inside MATCH closures and every MATCH
\* already taken is honoured; afterwards all of them are.
StewardInv ==
  /\ pc \in {"validate", "manual"} =>
       \A r, s \in Records : SameComponent(r, s) => MustLinked(r, s)
  /\ pc = "manual" =>
       \A p \in input.matches \ pending : SameComponent(p[1], p[2])
  /\ pc \in {"automatic", "done"} \/ rejected # {} =>
       \A p \in input.matches : SameComponent(p[1], p[2])

\* Why a hard rejection stands: a pair that may never be united sits across
\* the two components of its endpoints.
RejectionInv ==
  \A f \in rejected :
    /\ f.reason = "CANNOT_LINK" =>
         \E p \in input.notMatches :
           \/ SameComponent(p[1], f.pair[1]) /\ SameComponent(p[2], f.pair[2])
           \/ SameComponent(p[2], f.pair[1]) /\ SameComponent(p[1], f.pair[2])
    /\ f.reason = "AUTHORITATIVE_CONFLICT" =>
         \E r, s \in Records :
           /\ SameComponent(r, f.pair[1]) /\ SameComponent(s, f.pair[2])
           /\ Conflicts(r, s) /\ ~MustLinked(r, s)

IInv ==
  /\ TypeOK
  /\ PhaseInv
  /\ NoCannotLinkInside
  /\ StewardInv
  /\ ContradictionExact
  /\ AuthorityOnlyBySteward
  /\ RejectionInv

\* No action changes the call's arguments, so notions that depend on them
\* alone are the same in the next state.
LEMMA InputStable ==
  ASSUME UNCHANGED input
  PROVE  /\ \A r, s : Conflicts(r, s)' <=> Conflicts(r, s)
         /\ \A r, s : MustLinked(r, s)' <=> MustLinked(r, s)
         /\ AutomaticEdges' = AutomaticEdges
  BY DEF Conflicts, Differ, AuthorityOf, MustLinked, Linked, ClosedUnder,
         AutomaticEdges, PairResult, Agreeing

\* The parts of the type invariant that the steps use most: the manual facts
\* are pairs, and comp maps every record to the key of its component.
LEMMA InputFacts ==
  ASSUME TypeOK
  PROVE  /\ input.matches \subseteq Pairs
         /\ input.notMatches \subseteq Pairs
         /\ comp \in [Records -> Records]
         /\ \A r \in Records : comp[comp[r]] = comp[r] /\ comp[r] <= r
  BY DEF TypeOK, InputType

LEMMA InitIInv == Init => IInv
  <1> SUFFICES ASSUME Init PROVE IInv
    OBVIOUS
  <1>1. comp = [r \in Records |-> r] /\ comp \in [Records -> Records]
    BY DEF Init
  <1>2. TypeOK
    BY <1>1, InputsAssumption, RecordsAssumption DEF Init, TypeOK
  <1>3. \A r, s \in Records : SameComponent(r, s) => r = s
    BY <1>1 DEF SameComponent
  <1>4. NoCannotLinkInside
    BY <1>2, <1>3, InputFacts, PairType DEF NoCannotLinkInside
  <1>5. \A r, s \in Records : SameComponent(r, s) => MustLinked(r, s)
    BY <1>3, LinkedReflexive DEF MustLinked
  <1> QED
    BY <1>1, <1>2, <1>4, <1>5
    DEF Init, IInv, PhaseInv, StewardInv, ContradictionExact,
        AuthorityOnlyBySteward, RejectionInv

-----------------------------------------------------------------------------
(* Every step keeps the invariant.                                         *)

Contradiction == \E p \in input.notMatches : MustLinked(p[1], p[2])

LEMMA FailStep ==
  ASSUME IInv, pc \in {"validate", "manual", "automatic"},
         NEW e \in {"DecisionContradiction", "ResolverLimit", "ResolverInvariant"},
         e = "DecisionContradiction" => Contradiction,
         Fail(e)
  PROVE  IInv'
  <1> USE DEF Fail, IInv
  <1>1. TypeOK'
    BY DEF TypeOK
  <1>2. PhaseInv' /\ NoCannotLinkInside'
    BY DEF PhaseInv, NoCannotLinkInside, SameComponent
  <1>3. StewardInv'
    BY InputStable DEF StewardInv, SameComponent
  <1>4. ContradictionExact'
    BY InputStable DEF ContradictionExact, Contradiction, SameComponent
  <1>5. AuthorityOnlyBySteward' /\ RejectionInv'
    BY InputStable DEF AuthorityOnlyBySteward, RejectionInv, SameComponent
  <1> QED BY <1>1, <1>2, <1>3, <1>4, <1>5

\* A union that no cannot-link crosses puts no cannot-link inside.
LEMMA UniteKeepsCannotLinks ==
  ASSUME TypeOK, NoCannotLinkInside, NEW a, NEW b, a # b,
         ~CannotCross(a, b), Merge(a, b), UNCHANGED input
  PROVE  NoCannotLinkInside'
  <1> SUFFICES ASSUME NEW p \in input.notMatches, comp'[p[1]] = comp'[p[2]]
               PROVE  FALSE
    BY DEF NoCannotLinkInside, SameComponent
  <1>1. p \in Pairs /\ p[1] \in Records /\ p[2] \in Records
    BY InputFacts, PairType
  <1>2. comp[p[1]] # comp[p[2]]
    BY DEF NoCannotLinkInside, SameComponent
  <1>3. comp[p[1]] \in {a, b} /\ comp[p[2]] \in {a, b}
    BY <1>1, <1>2, InputFacts, MergeUnites
  <1>4. p = <<p[1], p[2]>>
    BY <1>1 DEF Pairs
  <1> QED
    BY <1>1, <1>2, <1>3, <1>4 DEF CannotCross, Members

\* Components only grow: what is together stays together.
LEMMA UniteKeepsTogether ==
  ASSUME TypeOK, NEW a, NEW b, Merge(a, b),
         NEW r \in Records, NEW s \in Records, SameComponent(r, s)
  PROVE  SameComponent(r, s)'
  BY InputFacts, MergeUnites DEF SameComponent

\* A rejection's reason survives a union.
LEMMA UniteKeepsRejections ==
  ASSUME TypeOK, RejectionInv, NEW a, NEW b, Merge(a, b),
         UNCHANGED <<input, rejected>>
  PROVE  RejectionInv'
  <1> SUFFICES ASSUME NEW f \in rejected
               PROVE  /\ f.reason = "CANNOT_LINK" =>
                           \E p \in input.notMatches :
                             \/ /\ SameComponent(p[1], f.pair[1])'
                                /\ SameComponent(p[2], f.pair[2])'
                             \/ /\ SameComponent(p[2], f.pair[1])'
                                /\ SameComponent(p[1], f.pair[2])'
                      /\ f.reason = "AUTHORITATIVE_CONFLICT" =>
                           \E r, s \in Records :
                             /\ SameComponent(r, f.pair[1])'
                             /\ SameComponent(s, f.pair[2])'
                             /\ Conflicts(r, s) /\ ~MustLinked(r, s)
    BY InputStable DEF RejectionInv, SameComponent
  <1>1. f.pair[1] \in Records /\ f.pair[2] \in Records
    BY PairType DEF TypeOK
  <1>2. CASE f.reason = "CANNOT_LINK"
    <2>1. PICK p \in input.notMatches :
             \/ SameComponent(p[1], f.pair[1]) /\ SameComponent(p[2], f.pair[2])
             \/ SameComponent(p[2], f.pair[1]) /\ SameComponent(p[1], f.pair[2])
      BY <1>2 DEF RejectionInv
    <2>2. p[1] \in Records /\ p[2] \in Records
      BY InputFacts, PairType
    <2> QED BY <1>1, <1>2, <2>1, <2>2, UniteKeepsTogether
  <1>3. CASE f.reason = "AUTHORITATIVE_CONFLICT"
    <2>1. PICK r, s \in Records :
             /\ SameComponent(r, f.pair[1]) /\ SameComponent(s, f.pair[2])
             /\ Conflicts(r, s) /\ ~MustLinked(r, s)
      BY <1>3 DEF RejectionInv
    <2> QED BY <1>1, <1>3, <2>1, UniteKeepsTogether
  <1> QED BY <1>2, <1>3

LEMMA ValidateStep ==
  ASSUME IInv, Validate
  PROVE  IInv'
  <1>1. CASE Cardinality(Records) > input.limits.max_active_records
    BY <1>1, FailStep DEF Validate
  <1>2. CASE ~(Cardinality(Records) > input.limits.max_active_records)
    <2> USE <1>2 DEF Validate, IInv
    <2>1. TypeOK'
      BY InputFacts DEF TypeOK
    <2>2. PhaseInv' /\ NoCannotLinkInside'
      BY DEF PhaseInv, NoCannotLinkInside, SameComponent
    <2>3. StewardInv'
      BY InputStable DEF StewardInv, SameComponent, PhaseInv
    <2>4. ContradictionExact'
      BY InputStable DEF ContradictionExact, SameComponent
    <2>5. AuthorityOnlyBySteward' /\ RejectionInv'
      BY InputStable DEF AuthorityOnlyBySteward, RejectionInv, SameComponent
    <2> QED BY <2>1, <2>2, <2>3, <2>4, <2>5
  <1> QED BY <1>1, <1>2

LEMMA ApplyManualStep ==
  ASSUME IInv, ApplyManual
  PROVE  IInv'
  <1> PICK p \in pending : ApplyManual!2!(p)
    BY DEF ApplyManual
  <1> DEFINE a == comp[p[1]]
             b == comp[p[2]]
  <1>1. pc = "manual" /\ p \in input.matches /\ p \in Pairs
    BY InputFacts DEF ApplyManual, IInv, PhaseInv
  <1>2. p[1] \in Records /\ p[2] \in Records /\ a \in Records /\ b \in Records
    BY <1>1, PairType, InputFacts DEF IInv
  <1>3. MustLinked(p[1], p[2])
    BY <1>1, EdgeLinks DEF MustLinked
  <1>4. CASE a # b /\ CannotCross(a, b)
    <2>1. PICK r \in Members(a), s \in Members(b) :
            <<r, s>> \in input.notMatches \/ <<s, r>> \in input.notMatches
      BY <1>4 DEF CannotCross
    <2>2. r \in Records /\ s \in Records
          /\ SameComponent(r, p[1]) /\ SameComponent(p[2], s)
      BY DEF Members, SameComponent
    <2>3. MustLinked(r, p[1]) /\ MustLinked(p[2], s)
      BY <1>1, <1>2, <2>2 DEF IInv, StewardInv
    <2>4. MustLinked(r, s)
      BY <1>2, <1>3, <2>2, <2>3, LinkedTransitive DEF MustLinked
    <2>5. MustLinked(s, r)
      BY <2>2, <2>4, InputFacts, LinkedSymmetric DEF MustLinked, IInv
    <2>6. Contradiction
      BY <2>1, <2>4, <2>5 DEF Contradiction
    <2> QED BY <1>1, <1>4, <2>6, FailStep
  <1>5. CASE a = b
    <2> USE <1>1, <1>5 DEF IInv
    <2>1. TypeOK'
      BY DEF TypeOK
    <2>2. PhaseInv' /\ NoCannotLinkInside'
      BY DEF PhaseInv, NoCannotLinkInside, SameComponent
    <2>3. StewardInv'
      BY InputStable DEF StewardInv, SameComponent, PhaseInv
    <2>4. ContradictionExact'
      BY InputStable DEF ContradictionExact, SameComponent
    <2>5. AuthorityOnlyBySteward' /\ RejectionInv'
      BY InputStable DEF AuthorityOnlyBySteward, RejectionInv, SameComponent
    <2> QED BY <2>1, <2>2, <2>3, <2>4, <2>5
  <1>6. CASE a # b /\ ~CannotCross(a, b)
    <2>1. /\ Merge(a, b)
          /\ pending' = pending \ {p}
          /\ accepted' = accepted \cup {Fact(p, "MANUAL_MATCH")}
          /\ UNCHANGED <<input, pc, checks, rejected, error>>
      BY <1>6
    <2>2. /\ comp' \in [Records -> Records]
          /\ \A r \in Records : comp'[comp'[r]] = comp'[r] /\ comp'[r] <= r
      BY <1>2, <2>1, InputFacts, MergeKeys DEF IInv
    <2>3. TypeOK'
      BY <1>1, <2>1, <2>2 DEF TypeOK, Fact, IInv
    <2>4. NoCannotLinkInside'
      BY <1>6, <2>1, UniteKeepsCannotLinks DEF IInv
    <2>5. ASSUME NEW r \in Records, NEW s \in Records, SameComponent(r, s)'
          PROVE  MustLinked(r, s)
      <3>1. \A x, y \in Records : SameComponent(x, y) => MustLinked(x, y)
        BY <1>1 DEF IInv, StewardInv
      <3>2. CASE SameComponent(r, s)
        BY <3>1, <3>2
      <3>3. CASE SameComponent(r, p[1]) /\ SameComponent(p[2], s)
        BY <1>2, <1>3, <3>1, <3>3, LinkedTransitive DEF MustLinked
      <3>4. CASE SameComponent(s, p[1]) /\ SameComponent(p[2], r)
        <4>1. MustLinked(s, r)
          BY <1>2, <1>3, <3>1, <3>4, LinkedTransitive DEF MustLinked
        <4> QED BY <4>1, InputFacts, LinkedSymmetric DEF MustLinked, IInv
      <3>5. comp[r] = comp[s] \/ (comp[r] \in {a, b} /\ comp[s] \in {a, b})
        BY <2>1, <2>5, InputFacts, MergeUnites DEF SameComponent, IInv
      <3> QED BY <3>2, <3>3, <3>4, <3>5 DEF SameComponent
    <2>6. SameComponent(p[1], p[2])'
      BY <1>2, <2>1, InputFacts, MergeUnites DEF SameComponent, IInv
    <2>7. ASSUME NEW q \in input.matches \ pending' PROVE SameComponent(q[1], q[2])'
      <3>1. q = p \/ q \in input.matches \ pending
        BY <2>1, <2>7
      <3>2. q[1] \in Records /\ q[2] \in Records
        BY InputFacts, PairType DEF IInv
      <3>3. q # p => SameComponent(q[1], q[2])
        BY <1>1, <3>1 DEF IInv, StewardInv
      <3> QED BY <2>1, <2>6, <3>2, <3>3, UniteKeepsTogether DEF IInv
    <2>8. PhaseInv' /\ StewardInv'
      BY <1>1, <2>1, <2>5, <2>7, InputStable DEF IInv, PhaseInv, StewardInv
    <2>9. ContradictionExact'
      BY <1>1, <2>1, InputStable DEF IInv, ContradictionExact
    <2>10. AuthorityOnlyBySteward'
      BY <2>1, <2>5, InputStable DEF AuthorityOnlyBySteward
    <2>11. RejectionInv'
      BY <2>1, UniteKeepsRejections DEF IInv
    <2> QED BY <2>3, <2>4, <2>8, <2>9, <2>10, <2>11 DEF IInv
  <1> QED BY <1>4, <1>5, <1>6

LEMMA CloseManualStep ==
  ASSUME IInv, CloseManual
  PROVE  IInv'
  <1>1. pc = "manual" /\ pending = {}
    BY DEF CloseManual
  <1>2. ~\E p \in input.notMatches : comp[p[1]] = comp[p[2]]
    BY DEF IInv, NoCannotLinkInside, SameComponent
  <1>3. CASE Cardinality(AutomaticEdges) > input.limits.max_automatic_edges
    BY <1>1, <1>2, <1>3, FailStep DEF CloseManual
  <1>4. CASE ~(Cardinality(AutomaticEdges) > input.limits.max_automatic_edges)
    <2>1. /\ pc' = "automatic"
          /\ pending' = AutomaticEdges
          /\ UNCHANGED <<input, comp, checks, accepted, rejected, error>>
      BY <1>2, <1>4 DEF CloseManual
    <2>2. \A p \in input.matches : SameComponent(p[1], p[2])
      BY <1>1 DEF IInv, StewardInv
    <2>3. ~Contradiction
      <3> SUFFICES ASSUME NEW p \in input.notMatches, MustLinked(p[1], p[2])
                   PROVE  FALSE
        BY DEF Contradiction
      <3>1. p[1] \in Records /\ p[2] \in Records
        BY InputFacts, PairType DEF IInv
      <3>2. SameComponent(p[1], p[2])
        BY <2>2, <3>1, InputFacts, LinkedInside DEF MustLinked, IInv
      <3> QED BY <1>2, <3>2 DEF SameComponent
    <2>4. TypeOK' /\ PhaseInv'
      BY <1>1, <2>1, InputStable DEF IInv, TypeOK, PhaseInv, AutomaticEdges
    <2>5. NoCannotLinkInside'
      BY <2>1 DEF IInv, NoCannotLinkInside, SameComponent
    <2>6. StewardInv'
      BY <2>1, <2>2 DEF StewardInv, SameComponent
    <2>7. ContradictionExact'
      BY <1>1, <2>1, <2>2, <2>3, InputStable
      DEF IInv, ContradictionExact, SameComponent, Contradiction
    <2>8. AuthorityOnlyBySteward' /\ RejectionInv'
      BY <2>1, InputStable
      DEF IInv, AuthorityOnlyBySteward, RejectionInv, SameComponent
    <2> QED BY <2>4, <2>5, <2>6, <2>7, <2>8 DEF IInv
  <1> QED BY <1>3, <1>4

\* The invariants of a step that changes no component.
LEMMA SameComponentsStep ==
  ASSUME IInv, UNCHANGED <<input, comp, error>>, pc = "automatic",
         pc' \in {"automatic", "done"}, TypeOK', PhaseInv', RejectionInv'
  PROVE  IInv'
  <1>1. NoCannotLinkInside'
    BY DEF IInv, NoCannotLinkInside, SameComponent
  <1>2. StewardInv'
    BY DEF IInv, StewardInv, SameComponent
  <1>3. ContradictionExact'
    BY InputStable DEF IInv, ContradictionExact, SameComponent
  <1>4. AuthorityOnlyBySteward'
    BY InputStable DEF IInv, AuthorityOnlyBySteward, SameComponent
  <1> QED BY <1>1, <1>2, <1>3, <1>4 DEF IInv

LEMMA FinishStep ==
  ASSUME IInv, Finish
  PROVE  IInv'
  <1>1. ~\E p \in input.notMatches : comp[p[1]] = comp[p[2]]
    BY DEF IInv, NoCannotLinkInside, SameComponent
  <1>2. /\ pc = "automatic" /\ pc' = "done"
        /\ UNCHANGED <<input, comp, pending, checks, accepted, rejected, error>>
    BY <1>1 DEF Finish
  <1>3. TypeOK' /\ PhaseInv' /\ RejectionInv'
    BY <1>2, InputStable DEF IInv, TypeOK, PhaseInv, RejectionInv, SameComponent
  <1> QED BY <1>2, <1>3, SameComponentsStep

LEMMA ApplyAutomaticStep ==
  ASSUME IInv, ApplyAutomatic
  PROVE  IInv'
  <1> PICK p \in pending : ApplyAutomatic!2!(p)
    BY DEF ApplyAutomatic
  <1> DEFINE a == comp[p[1]]
             b == comp[p[2]]
             verdict == Verdict(p, a, b)
  <1>1. pc = "automatic" /\ p \in AutomaticEdges /\ p \in Pairs
    BY DEF ApplyAutomatic, IInv, PhaseInv, AutomaticEdges
  <1>2. p[1] \in Records /\ p[2] \in Records /\ a \in Records /\ b \in Records
    BY <1>1, PairType, InputFacts DEF IInv
  <1>3. PairResult(p) \in {"AUTOMATIC_IDENTITY", "AUTOMATIC_STRONG"}
    BY <1>1 DEF AutomaticEdges
  <1>4. \A q \in input.matches : SameComponent(q[1], q[2])
    BY <1>1 DEF IInv, StewardInv
  <1>5. CASE \/ checks + 1 > input.limits.max_component_checks
             \/ a # b /\ verdict = Admitted /\ ExceedsSize(a, b)
    BY <1>1, <1>5, FailStep
  <1>6. ASSUME ~(\/ checks + 1 > input.limits.max_component_checks
                 \/ a # b /\ verdict = Admitted /\ ExceedsSize(a, b))
        PROVE  IInv'
    <2>1. /\ checks' = checks + 1
          /\ pending' = pending \ {p}
          /\ UNCHANGED <<input, pc, error>>
      BY <1>6
    <2>2. checks' \in Nat /\ pending' \in SUBSET Pairs
      BY <2>1 DEF IInv, TypeOK
    <2>3. PhaseInv'
      BY <1>1, <2>1, InputStable DEF IInv, PhaseInv
    <2>4. CASE a = b
      <3>1. /\ accepted' = accepted \cup {Fact(p, "ALREADY_CONNECTED")}
            /\ UNCHANGED <<comp, rejected>>
        BY <1>6, <2>4
      <3>2. TypeOK'
        BY <1>1, <2>1, <2>2, <3>1 DEF IInv, TypeOK, Fact
      <3>3. RejectionInv'
        BY <2>1, <3>1, InputStable DEF IInv, RejectionInv, SameComponent
      <3> QED BY <1>1, <2>1, <2>3, <3>1, <3>2, <3>3, SameComponentsStep
    <2>5. CASE a # b /\ verdict = Admitted
      <3>1. /\ Merge(a, b)
            /\ accepted' = accepted \cup {Fact(p, PairResult(p))}
            /\ UNCHANGED rejected
        BY <1>6, <2>5
      <3>2. ~CannotCross(a, b) /\ ~AuthorityConflict(a, b)
        BY <2>5 DEF Verdict, Admitted
      <3>3. /\ comp' \in [Records -> Records]
            /\ \A r \in Records : comp'[comp'[r]] = comp'[r] /\ comp'[r] <= r
        BY <1>2, <3>1, InputFacts, MergeKeys DEF IInv
      <3>4. TypeOK'
        BY <1>1, <1>3, <2>1, <2>2, <3>1, <3>3 DEF IInv, TypeOK, Fact
      <3>5. NoCannotLinkInside'
        BY <2>1, <2>5, <3>1, <3>2, UniteKeepsCannotLinks DEF IInv
      <3>6. \A q \in input.matches : SameComponent(q[1], q[2])'
        BY <1>4, <3>1, InputFacts, PairType, UniteKeepsTogether DEF IInv
      <3>7. StewardInv'
        BY <1>1, <2>1, <3>6 DEF StewardInv
      <3>8. ContradictionExact'
        BY <1>1, <2>1, <3>6, InputStable DEF IInv, ContradictionExact
      <3>9. AuthorityOnlyBySteward'
        <4> SUFFICES ASSUME NEW r \in Records, NEW s \in Records,
                            SameComponent(r, s)', Conflicts(r, s)
                     PROVE  MustLinked(r, s)
          BY <2>1, InputStable DEF AuthorityOnlyBySteward
        <4>1. CASE SameComponent(r, s)
          BY <4>1 DEF IInv, AuthorityOnlyBySteward
        <4>2. CASE ~SameComponent(r, s)
          <5>1. comp[r] \in {a, b} /\ comp[s] \in {a, b}
            BY <3>1, <4>2, InputFacts, MergeUnites DEF SameComponent, IInv
          <5>2. AuthorityConflict(a, b)
            BY <4>2, <5>1, ComponentConflict, ConflictsSymmetric
            DEF SameComponent, Members
          <5> QED BY <3>2, <5>2
        <4> QED BY <4>1, <4>2
      <3>10. RejectionInv'
        BY <2>1, <3>1, UniteKeepsRejections DEF IInv
      <3> QED BY <2>3, <3>4, <3>5, <3>7, <3>8, <3>9, <3>10 DEF IInv
    <2>6. CASE a # b /\ verdict # Admitted
      <3>1. /\ rejected' = rejected \cup {Fact(p, verdict)}
            /\ UNCHANGED <<comp, accepted>>
        BY <1>6, <2>6
      <3>2. verdict \in Reasons
        BY <2>6, VerdictType
      <3>3. TypeOK'
        BY <1>1, <2>1, <2>2, <3>1, <3>2 DEF IInv, TypeOK, Fact
      <3>4. ASSUME verdict = "CANNOT_LINK"
            PROVE  \E q \in input.notMatches :
                     \/ SameComponent(q[1], p[1]) /\ SameComponent(q[2], p[2])
                     \/ SameComponent(q[2], p[1]) /\ SameComponent(q[1], p[2])
        <4>1. CannotCross(a, b)
          BY <3>4 DEF Verdict, EstablishedReason, Admitted
        <4>2. PICK r \in Members(a), s \in Members(b) :
                <<r, s>> \in input.notMatches \/ <<s, r>> \in input.notMatches
          BY <4>1 DEF CannotCross
        <4> QED BY <4>2 DEF SameComponent, Members
      <3>5. ASSUME verdict = "AUTHORITATIVE_CONFLICT"
            PROVE  \E r, s \in Records :
                     /\ SameComponent(r, p[1]) /\ SameComponent(s, p[2])
                     /\ Conflicts(r, s) /\ ~MustLinked(r, s)
        <4>1. AuthorityConflict(a, b)
          BY <3>5 DEF Verdict, EstablishedReason, Admitted
        <4>2. PICK r \in Members(a), s \in Members(b) : Conflicts(r, s)
          BY <4>1, ComponentConflict
        <4>3. r \in Records /\ s \in Records /\ comp[r] = a /\ comp[s] = b
          BY DEF Members
        <4>4. ~MustLinked(r, s)
          BY <1>4, <2>6, <4>3, InputFacts, LinkedInside
          DEF MustLinked, SameComponent, IInv
        <4> QED BY <4>2, <4>3, <4>4 DEF SameComponent
      <3>6. RejectionInv'
        <4>1. \A f \in rejected' : f \in rejected \/ f = Fact(p, verdict)
          BY <3>1
        <4>2. /\ Fact(p, verdict).pair = p
              /\ Fact(p, verdict).reason = verdict
          BY DEF Fact
        <4> QED
          BY <2>1, <3>1, <3>4, <3>5, <4>1, <4>2, InputStable
          DEF IInv, RejectionInv, SameComponent
      <3> QED BY <1>1, <2>1, <2>3, <3>1, <3>3, <3>6, SameComponentsStep
    <2> QED BY <2>4, <2>5, <2>6
  <1> QED BY <1>5, <1>6

LEMMA StepIInv == IInv /\ [Next]_vars => IInv'
  <1>1. ASSUME IInv, UNCHANGED vars PROVE IInv'
    BY <1>1, InputStable
    DEF vars, IInv, TypeOK, PhaseInv, NoCannotLinkInside, StewardInv,
        ContradictionExact, AuthorityOnlyBySteward, RejectionInv, SameComponent
  <1> QED
    BY <1>1, ValidateStep, ApplyManualStep, CloseManualStep,
       ApplyAutomaticStep, FinishStep
    DEF Next

\* The inductive invariant holds in every state of every call.
LEMMA Invariance == Spec => []IInv
  BY InitIInv, StepIInv, PTL DEF Spec

-----------------------------------------------------------------------------
(* What a step does to the components.                                     *)

\* An edge that may unite the components of its endpoints.
MayUnite(p) ==
  \/ p \in input.matches
  \/ p \in AutomaticEdges /\ Verdict(p, comp[p[1]], comp[p[2]]) = Admitted

LEMMA StepIs ==
  ASSUME IInv, [Next]_vars
  PROVE  /\ input' = input
         /\ \/ comp' = comp /\ accepted' = accepted
            \/ \E p \in Pairs : \E f :
                 /\ f.pair = p /\ accepted' = accepted \cup {f}
                 /\ \/ comp' = comp /\ SameComponent(p[1], p[2])
                    \/ /\ ~SameComponent(p[1], p[2]) /\ MayUnite(p)
                       /\ Merge(comp[p[1]], comp[p[2]])
<1>1. \A p, reason : Fact(p, reason).pair = p
  BY DEF Fact
<1>2. CASE ApplyManual
  <2>1. PICK p \in pending : ApplyManual!2!(p)
    BY <1>2 DEF ApplyManual
  <2>2. p \in input.matches /\ p \in Pairs
    BY <1>2, InputFacts DEF ApplyManual, IInv, PhaseInv
  <2>3. CASE comp[p[1]] # comp[p[2]] /\ CannotCross(comp[p[1]], comp[p[2]])
    BY <2>1, <2>3 DEF Fail
  <2>4. CASE comp[p[1]] = comp[p[2]]
    BY <2>1, <2>4
  <2>5. CASE comp[p[1]] # comp[p[2]] /\ ~CannotCross(comp[p[1]], comp[p[2]])
    BY <1>1, <2>1, <2>2, <2>5 DEF SameComponent, MayUnite
  <2> QED BY <2>3, <2>4, <2>5
<1>3. CASE ApplyAutomatic
  <2>1. PICK p \in pending : ApplyAutomatic!2!(p)
    BY <1>3 DEF ApplyAutomatic
  <2>2. p \in AutomaticEdges /\ p \in Pairs
    BY <1>3 DEF ApplyAutomatic, IInv, PhaseInv, AutomaticEdges
  <2> DEFINE stop == \/ checks + 1 > input.limits.max_component_checks
                     \/ /\ comp[p[1]] # comp[p[2]]
                        /\ Verdict(p, comp[p[1]], comp[p[2]]) = Admitted
                        /\ ExceedsSize(comp[p[1]], comp[p[2]])
  <2>3. CASE stop
    BY <2>1, <2>3 DEF Fail
  <2>4. CASE ~stop /\ comp[p[1]] = comp[p[2]]
    BY <1>1, <2>1, <2>2, <2>4 DEF SameComponent
  <2>5. CASE ~stop /\ comp[p[1]] # comp[p[2]] /\ Verdict(p, comp[p[1]], comp[p[2]]) = Admitted
    BY <1>1, <2>1, <2>2, <2>5 DEF SameComponent, MayUnite
  <2>6. CASE ~stop /\ comp[p[1]] # comp[p[2]] /\ Verdict(p, comp[p[1]], comp[p[2]]) # Admitted
    BY <2>1, <2>6
  <2> QED BY <2>3, <2>4, <2>5, <2>6
<1>4. CASE Validate
  BY <1>4 DEF Validate, Fail
<1>5. CASE CloseManual
  BY <1>5 DEF CloseManual, Fail
<1>6. CASE Finish
  BY <1>6 DEF Finish, Fail
<1>7. CASE UNCHANGED vars
  BY <1>7 DEF vars
<1> QED BY <1>2, <1>3, <1>4, <1>5, <1>6, <1>7 DEF Next

\* What is linked stays linked by more edges.
LEMMA LinkedGrows ==
  ASSUME NEW E, NEW F, E \subseteq F, NEW r \in Records, NEW s \in Records, Linked(E, r, s)
  PROVE  Linked(F, r, s)
  BY DEF Linked, ClosedUnder

\* An edge that is accepted connects what it unites, or what is connected.
LEMMA ExplainedStep ==
  ASSUME IInv, IInv', ExplainedByFacts, [Next]_vars
  PROVE  ExplainedByFacts'
<1> DEFINE E == AcceptedEdges
           F == AcceptedEdges'
<1>1. /\ comp \in [Records -> Records] /\ comp' \in [Records -> Records]
      /\ E \subseteq Pairs /\ F \subseteq Pairs
  BY DEF IInv, TypeOK, AcceptedEdges
<1>2. \A r, s \in Records : SameComponent(r, s) <=> Linked(E, r, s)
  BY DEF ExplainedByFacts
<1>3. CASE comp' = comp /\ accepted' = accepted
  BY <1>2, <1>3 DEF ExplainedByFacts, SameComponent, AcceptedEdges
<1>4. ASSUME NEW p \in Pairs, NEW f, f.pair = p, accepted' = accepted \cup {f},
             \/ comp' = comp /\ SameComponent(p[1], p[2])
             \/ Merge(comp[p[1]], comp[p[2]])
      PROVE  \A r, s \in Records : SameComponent(r, s)' <=> Linked(F, r, s)
  <2>1. F = E \cup {p}
    BY <1>4 DEF AcceptedEdges
  <2>2. p[1] \in Records /\ p[2] \in Records
    BY PairType
  <2>3. \A r, s \in Records :
          SameComponent(r, s)' <=>
            \/ SameComponent(r, s)
            \/ SameComponent(r, p[1]) /\ SameComponent(p[2], s)
            \/ SameComponent(r, p[2]) /\ SameComponent(p[1], s)
    <3>1. CASE comp' = comp /\ SameComponent(p[1], p[2])
      BY <3>1 DEF SameComponent
    <3>2. CASE Merge(comp[p[1]], comp[p[2]])
      BY <1>1, <3>2, MergeUnites DEF SameComponent
    <3> QED BY <1>4, <3>1, <3>2
  <2>4. \A r, s \in Records : SameComponent(r, s) => Linked(F, r, s)
    BY <1>2, <2>1, LinkedGrows
  <2>5. Linked(F, p[1], p[2]) /\ Linked(F, p[2], p[1])
    <3>1. Linked(F, p[1], p[2])
      BY <2>1, EdgeLinks
    <3> QED BY <1>1, <2>2, <3>1, LinkedSymmetric
  <2>6. ASSUME NEW r \in Records, NEW s \in Records, SameComponent(r, s)'
        PROVE  Linked(F, r, s)
    <3>1. CASE SameComponent(r, s)
      BY <2>4, <3>1
    <3>2. ASSUME NEW x \in Records, NEW y \in Records,
                 SameComponent(r, x), SameComponent(y, s), Linked(F, x, y)
          PROVE  Linked(F, r, s)
      <4>1. Linked(F, r, x) /\ Linked(F, y, s)
        BY <2>4, <3>2
      <4>2. Linked(F, r, y)
        BY <3>2, <4>1, LinkedTransitive
      <4> QED BY <4>1, <4>2, LinkedTransitive
    <3> QED BY <2>2, <2>3, <2>5, <2>6, <3>1, <3>2
  <2>7. ASSUME NEW r \in Records, NEW s \in Records, Linked(F, r, s)
        PROVE  SameComponent(r, s)'
    <3> DEFINE S == {t \in Records : comp'[t] = comp'[r]}
    <3>1. \A q \in F : q[1] \in Records /\ q[2] \in Records /\ comp'[q[1]] = comp'[q[2]]
      <4> SUFFICES ASSUME NEW q \in F
                   PROVE  q[1] \in Records /\ q[2] \in Records /\ comp'[q[1]] = comp'[q[2]]
        OBVIOUS
      <4>1. q[1] \in Records /\ q[2] \in Records
        BY <1>1, PairType
      <4>2. CASE q = p
        BY <2>2, <2>3, <4>2 DEF SameComponent
      <4>3. CASE q \in E
        BY <1>2, <2>3, <4>1, <4>3, EdgeLinks DEF SameComponent
      <4> QED BY <2>1, <4>1, <4>2, <4>3
    <3>2. S \in SUBSET Records /\ r \in S /\ ClosedUnder(S, F)
      BY <3>1 DEF ClosedUnder
    <3>3. s \in S
      BY <2>7, <3>2 DEF Linked
    <3> QED BY <3>3 DEF SameComponent
  <2> QED BY <2>6, <2>7
<1> QED BY <1>3, <1>4, StepIs DEF ExplainedByFacts

-----------------------------------------------------------------------------
(* What a component of three or more rests on.                             *)

InsideOf(M) == {p \in Pairs : p[1] \in M /\ p[2] \in M}
SupportOf(M) == UNION {Groups(p) : p \in InsideOf(M)}

\* NoWeakChain of one component, the set M of its records.
Founded(M) ==
  Cardinality(M) >= 3 =>
    \/ InsideOf(M) \cap input.matches # {}
    \/ \E p \in InsideOf(M) : PairResult(p) = "AUTOMATIC_IDENTITY"
    \/ \E p \in InsideOf(M) : AuthorityOf(p[1]) \cap AuthorityOf(p[2]) # {}
    \/ Cardinality(SupportOf(M)) >= 2

\* A finite set with two elements has at least two.
LEMMA TwoAreTwo ==
  ASSUME NEW S, IsFiniteSet(S), NEW x \in S, NEW y \in S, x # y
  PROVE  Cardinality(S) >= 2
<1>1. Cardinality(S) \in Nat
  BY FS_CardinalityType
<1>2. Cardinality(S) # 0
  BY FS_EmptySet
<1>3. Cardinality(S) # 1
  <2> SUFFICES ASSUME Cardinality(S) = 1 PROVE FALSE
    OBVIOUS
  <2>1. PICK z : S = {z}
    BY FS_Singleton
  <2> QED BY <2>1
<1> QED BY <1>1, <1>2, <1>3

LEMMA OneAndOne ==
  ASSUME NEW M, NEW x, NEW y, M \subseteq {x, y}
  PROVE  ~(Cardinality(M) >= 3)
<1>1. IsFiniteSet({x}) /\ Cardinality({x}) = 1
  BY FS_Singleton
<1>2. IsFiniteSet({x} \cup {y}) /\ Cardinality({x} \cup {y}) <= 2
  <2>1. IsFiniteSet({x} \cup {y})
        /\ Cardinality({x} \cup {y}) = IF y \in {x} THEN Cardinality({x}) ELSE Cardinality({x}) + 1
    BY <1>1, FS_AddElement
  <2> QED BY <1>1, <2>1
<1>3. M \subseteq {x} \cup {y}
  OBVIOUS
<1>4. Cardinality(M) <= Cardinality({x} \cup {y}) /\ Cardinality(M) \in Nat
      /\ Cardinality({x} \cup {y}) \in Nat
  <2>1. IsFiniteSet(M) /\ Cardinality(M) <= Cardinality({x} \cup {y})
    BY <1>2, <1>3, FS_Subset
  <2> QED BY <1>2, <2>1, FS_CardinalityType
<1> QED BY <1>2, <1>4

\* The groups of a pair are finitely many, and an automatic edge has one.
LEMMA GroupsAre ==
  ASSUME TypeOK
  PROVE  /\ \A M : IsFiniteSet(SupportOf(M))
         /\ \A p \in Pairs : IsFiniteSet(Groups(p))
         /\ \A p \in Pairs :
              PairResult(p) \in {"AUTOMATIC_IDENTITY", "AUTOMATIC_STRONG"} => Groups(p) # {}
<1> DEFINE groups == {RuleGroup[rule] : rule \in Rules}
     grouping == [rule \in Rules |-> RuleGroup[rule]]
<1>1. IsFiniteSet(groups)
  <2>1. grouping \in [Rules -> groups] /\ \A g \in groups : \E rule \in Rules : grouping[rule] = g
    OBVIOUS
  <2> HIDE DEF groups, grouping
  <2>2. grouping \in Surjection(Rules, groups)
    BY <2>1 DEF Surjection
  <2> QED BY <2>2, RulesAssumption, FS_Surjection
<1>2. \A p \in Pairs : input.evidence[p] \subseteq Rules
  BY DEF TypeOK, InputType
<1>3. \A p \in Pairs : Groups(p) \subseteq groups
  BY <1>2 DEF Groups
<1> HIDE DEF groups
<1>4. \A M : SupportOf(M) \subseteq groups
  BY <1>3 DEF SupportOf, InsideOf
<1>5. \A p \in Pairs :
        PairResult(p) \in {"AUTOMATIC_IDENTITY", "AUTOMATIC_STRONG"} => Groups(p) # {}
  <2> SUFFICES ASSUME NEW p \in Pairs,
                      PairResult(p) \in {"AUTOMATIC_IDENTITY", "AUTOMATIC_STRONG"}
               PROVE  Groups(p) # {}
    OBVIOUS
  <2>1. Agreeing(p, "identity") # {} \/ Agreeing(p, "strong") # {}
    BY DEF PairResult
  <2> QED BY <2>1 DEF Agreeing, Groups
<1> QED BY <1>1, <1>3, <1>4, <1>5, FS_Subset

\* Two groups inside a component are enough.
LEMMA TwoGroups ==
  ASSUME TypeOK, NEW M, NEW p \in InsideOf(M), NEW q \in InsideOf(M),
         NEW g \in Groups(p), NEW h \in Groups(q), g # h
  PROVE  Founded(M)
<1>1. g \in SupportOf(M) /\ h \in SupportOf(M)
  BY DEF SupportOf
<1>2. Cardinality(SupportOf(M)) >= 2
  BY <1>1, GroupsAre, TwoAreTwo
<1> QED BY <1>2 DEF Founded

LEMMA ManyGroups ==
  ASSUME TypeOK, NEW M, NEW p \in InsideOf(M), Cardinality(Groups(p)) > 1
  PROVE  Founded(M)
<1>1. IsFiniteSet(Groups(p))
  BY GroupsAre DEF InsideOf
<1>2. Groups(p) # {}
  BY <1>1, FS_EmptySet
<1>3. PICK g : g \in Groups(p)
  BY <1>2
<1>4. Groups(p) # {g}
  BY FS_Singleton
<1>5. PICK h \in Groups(p) : h # g
  BY <1>3, <1>4
<1> QED BY <1>3, <1>5, TwoGroups

LEMMA PairOfIs ==
  ASSUME NEW M, M \subseteq Records, NEW r \in M, NEW s \in M, r # s
  PROVE  /\ PairOf(r, s) \in InsideOf(M)
         /\ \/ PairOf(r, s)[1] = r /\ PairOf(r, s)[2] = s
            \/ PairOf(r, s)[1] = s /\ PairOf(r, s)[2] = r
<1>1. r \in Nat /\ s \in Nat /\ r \in Records /\ s \in Records
  BY RecordsAssumption
<1> QED BY <1>1 DEF PairOf, InsideOf, Pairs

\* An edge that is admitted between a record and a component founds the union.
LEMMA AdmittedSingle ==
  ASSUME TypeOK, NEW M, M \subseteq Records, NEW p \in InsideOf(M), p \in AutomaticEdges,
         NEW x \in M, NEW k, Members(k) \subseteq M, x \notin Members(k),
         SingletonAdmission(p, x, k)
  PROVE  Founded(M)
<1>1. CASE PairResult(p) = "AUTOMATIC_IDENTITY"
  BY <1>1 DEF Founded
<1>2. CASE Cardinality(Groups(p)) > 1
  BY <1>2, ManyGroups
<1>3. CASE \E m \in Members(k) : Groups(PairOf(x, m)) \ Groups(p) # {}
  <2>1. PICK m \in Members(k) : Groups(PairOf(x, m)) \ Groups(p) # {}
    BY <1>3
  <2>2. PICK h : h \in Groups(PairOf(x, m)) /\ h \notin Groups(p)
    BY <2>1
  <2>3. PICK g : g \in Groups(p)
    BY GroupsAre DEF AutomaticEdges
  <2>4. m \in M /\ m # x
    OBVIOUS
  <2>5. PairOf(x, m) \in InsideOf(M)
    BY <2>4, PairOfIs
  <2> QED BY <2>2, <2>3, <2>5, TwoGroups
<1> QED BY <1>1, <1>2, <1>3 DEF SingletonAdmission

LEMMA AdmittedEstablished ==
  ASSUME TypeOK, NEW M, M \subseteq Records, NEW a, NEW b, a # b,
         Members(a) \subseteq M, Members(b) \subseteq M, EstablishedAdmission(a, b)
  PROVE  Founded(M)
<1>1. \A r \in Members(a), s \in Members(b) : r \in M /\ s \in M /\ r # s
  BY DEF Members
<1>2. CASE SharedAuthority(a, b)
  <2>1. PICK r \in Members(a), s \in Members(b) : AuthorityOf(r) \cap AuthorityOf(s) # {}
    BY <1>2 DEF SharedAuthority, Authority
  <2>2. /\ PairOf(r, s) \in InsideOf(M)
        /\ AuthorityOf(PairOf(r, s)[1]) \cap AuthorityOf(PairOf(r, s)[2]) # {}
    BY <1>1, <2>1, PairOfIs
  <2> QED BY <2>2 DEF Founded
<1>3. CASE \E c, d \in Connections(a, b) : c # d /\ Groups(c) \cap Groups(d) = {}
  <2>1. PICK c, d \in Connections(a, b) : Groups(c) \cap Groups(d) = {}
    BY <1>3
  <2>2. \A e \in Connections(a, b) : e \in InsideOf(M) /\ PairResult(e) = "AUTOMATIC_STRONG"
    <3> SUFFICES ASSUME NEW e \in Connections(a, b)
                 PROVE  e \in InsideOf(M) /\ PairResult(e) = "AUTOMATIC_STRONG"
      OBVIOUS
    <3>1. PICK r \in Members(a), s \in Members(b) :
            e = PairOf(r, s) /\ PairResult(PairOf(r, s)) = "AUTOMATIC_STRONG"
      BY DEF Connections
    <3> QED BY <1>1, <3>1, PairOfIs
  <2>3. Groups(c) # {} /\ Groups(d) # {}
    BY <2>2, GroupsAre DEF InsideOf
  <2>4. PICK g, h : g \in Groups(c) /\ h \in Groups(d)
    BY <2>3
  <2> QED BY <2>1, <2>2, <2>4, TwoGroups
<1> QED BY <1>2, <1>3 DEF EstablishedAdmission

\* A union that is allowed founds what it makes.
LEMMA UnionFounded ==
  ASSUME TypeOK, NEW p \in Pairs, ~SameComponent(p[1], p[2]), MayUnite(p)
  PROVE  Founded(Members(comp[p[1]]) \cup Members(comp[p[2]]))
<1> DEFINE a == comp[p[1]]
           b == comp[p[2]]
           M == Members(a) \cup Members(b)
<1>1. M \subseteq Records /\ a # b /\ p[1] \in Members(a) /\ p[2] \in Members(b)
  BY PairType DEF Members, SameComponent
<1>2. p \in InsideOf(M)
  BY <1>1 DEF InsideOf
<1>3. p[1] \notin Members(b) /\ p[2] \notin Members(a)
  BY <1>1 DEF Members
<1>4. CASE p \in input.matches
  BY <1>2, <1>4 DEF Founded
<1>5. CASE p \in AutomaticEdges /\ Verdict(p, a, b) = Admitted
  <2>1. \/ IsSingleton(a) /\ IsSingleton(b)
        \/ SingletonAdmission(p, p[1], b)
        \/ SingletonAdmission(p, p[2], a)
        \/ EstablishedAdmission(a, b)
    BY <1>5 DEF Verdict, EstablishedReason, Admitted
  <2>2. CASE IsSingleton(a) /\ IsSingleton(b)
    <3>1. M \subseteq {p[1], p[2]}
      BY <1>1, <2>2 DEF IsSingleton
    <3> HIDE DEF M
    <3>2. ~(Cardinality(M) >= 3)
      BY <3>1, OneAndOne
    <3> QED BY <3>2 DEF Founded, M
  <2>3. CASE SingletonAdmission(p, p[1], b)
    <3>1. Members(b) \subseteq M /\ p[1] \in M
      BY <1>1
    <3> HIDE DEF M, a, b
    <3> QED BY <1>1, <1>2, <1>3, <1>5, <2>3, <3>1, AdmittedSingle DEF M, a, b
  <2>4. CASE SingletonAdmission(p, p[2], a)
    <3>1. Members(a) \subseteq M /\ p[2] \in M
      BY <1>1
    <3> HIDE DEF M, a, b
    <3> QED BY <1>1, <1>2, <1>3, <1>5, <2>4, <3>1, AdmittedSingle DEF M, a, b
  <2>5. CASE EstablishedAdmission(a, b)
    <3>1. Members(a) \subseteq M /\ Members(b) \subseteq M
      OBVIOUS
    <3> QED BY <1>1, <2>5, <3>1, AdmittedEstablished
  <2> QED BY <2>1, <2>2, <2>3, <2>4, <2>5
<1> QED BY <1>4, <1>5 DEF MayUnite

LEMMA FoundedStable ==
  ASSUME UNCHANGED input, NEW M
  PROVE  Founded(M)' <=> Founded(M)
  BY DEF Founded, SupportOf, InsideOf, Groups, PairResult, Agreeing, Conflicts, Differ,
         AuthorityOf

\* The same of every component, with the component a value of its own.
EveryComponentFounded ==
  \A r \in Records : \A M \in SUBSET Records : M = Members(comp[r]) => Founded(M)

LEMMA ComponentsFounded == EveryComponentFounded <=> NoWeakChain
<1>1. \A r \in Records : Members(comp[r]) \in SUBSET Records
  BY DEF Members
<1>2. EveryComponentFounded <=> \A r \in Records : Founded(Members(comp[r]))
  BY <1>1 DEF EveryComponentFounded
<1>3. NoWeakChain <=> \A r \in Records : Founded(Members(comp[r]))
  BY DEF NoWeakChain, Founded, InsideOf, SupportOf
<1> QED BY <1>2, <1>3

LEMMA ChainStep ==
  ASSUME IInv, IInv', NoWeakChain, [Next]_vars
  PROVE  NoWeakChain'
<1>1. \A r \in Records : Founded(Members(comp[r]))
  BY DEF NoWeakChain, Founded, InsideOf, SupportOf
<1>2. ASSUME NEW r \in Records
      PROVE  Founded({s \in Records : comp'[s] = comp'[r]})
  <2>1. comp \in [Records -> Records] /\ input' = input
    BY StepIs DEF IInv, TypeOK
  <2>2. CASE comp' = comp
    BY <1>1, <2>2 DEF Members
  <2>3. ASSUME NEW p \in Pairs, ~SameComponent(p[1], p[2]), MayUnite(p),
               Merge(comp[p[1]], comp[p[2]])
        PROVE  Founded({s \in Records : comp'[s] = comp'[r]})
    <3> DEFINE a == comp[p[1]]
               b == comp[p[2]]
    <3>1. \A s \in Records : comp'[s] = comp'[r] <=>
            comp[s] = comp[r] \/ (comp[s] \in {a, b} /\ comp[r] \in {a, b})
      BY <2>1, <2>3, MergeUnites
    <3>2. CASE comp[r] \in {a, b}
      <4>1. {s \in Records : comp'[s] = comp'[r]} = Members(a) \cup Members(b)
        BY <3>1, <3>2 DEF Members
      <4> QED BY <2>3, <4>1, UnionFounded DEF IInv
    <3>3. CASE comp[r] \notin {a, b}
      <4>1. {s \in Records : comp'[s] = comp'[r]} = Members(comp[r])
        BY <3>1, <3>3 DEF Members
      <4> QED BY <1>1, <4>1
    <3> QED BY <3>2, <3>3
  <2> QED BY <2>2, <2>3, StepIs
<1>3. EveryComponentFounded'
  <2> SUFFICES ASSUME NEW r \in Records, NEW M \in SUBSET Records, M = Members(comp[r])'
               PROVE  Founded(M)'
    BY DEF EveryComponentFounded
  <2>1. M = {s \in Records : comp'[s] = comp'[r]}
    BY DEF Members
  <2>2. Founded(M)
    BY <1>2, <2>1
  <2> QED BY <2>2, StepIs, FoundedStable
<1>4. (EveryComponentFounded <=> NoWeakChain)'
  BY ComponentsFounded, PTL
<1> QED BY <1>3, <1>4

-----------------------------------------------------------------------------
(* The theorems.                                                           *)

\* Every variable keeps its type, and the key of a component is the least of
\* its members however the unions were ordered (union_find.rs, component.rs).
THEOREM TypeCorrect == Spec => []TypeOK
  BY Invariance, PTL DEF IInv

\* No component ever holds two records declared NOT_MATCH, so the checks
\* after the manual phase and at the end of resolve can never fail.
THEOREM CannotLinkSafety == Spec => []NoCannotLinkInside
  BY Invariance, PTL DEF IInv

\* resolve reports DecisionContradiction exactly for decisions whose MATCH
\* closure contains a NOT_MATCH, whatever the order of the manual loop.
THEOREM ContradictionVerdict == Spec => []ContradictionExact
  BY Invariance, PTL DEF IInv

\* Some assignment of records to components honours every decision.
Satisfiable ==
  \E f \in [Records -> Records] :
    /\ \A p \in input.matches : f[p[1]] = f[p[2]]
    /\ \A p \in input.notMatches : f[p[1]] # f[p[2]]

\* A pass over decisions that can be met together never fails with
\* DecisionContradiction.  The stewards' writes keep them so for every set of
\* active records (Steward!AlwaysSatisfiable), whichever records come or go.
THEOREM NoContradictionReported ==
  Spec => [](Satisfiable => error # "DecisionContradiction")
<1>1. IInv => (Satisfiable => error # "DecisionContradiction")
  <2> SUFFICES ASSUME IInv, Satisfiable, error = "DecisionContradiction"
               PROVE  FALSE
    OBVIOUS
  <2>1. PICK f \in [Records -> Records] :
          /\ \A p \in input.matches : f[p[1]] = f[p[2]]
          /\ \A p \in input.notMatches : f[p[1]] # f[p[2]]
    BY DEF Satisfiable
  <2>2. PICK p \in input.notMatches : MustLinked(p[1], p[2])
    BY DEF IInv, ContradictionExact
  <2>3. /\ input.matches \in SUBSET Pairs
        /\ p[1] \in Records /\ p[2] \in Records
    BY DEF IInv, TypeOK, InputType, Pairs
  <2> DEFINE S == {r \in Records : f[r] = f[p[1]]}
  <2>4. ClosedUnder(S, input.matches)
    BY <2>1, <2>3 DEF ClosedUnder, Pairs
  <2>5. p[2] \in S
    BY <2>2, <2>3, <2>4 DEF MustLinked, Linked
  <2> QED BY <2>1, <2>5
<1> QED BY <1>1, Invariance, PTL

\* Records of sources that label a field differently share a component only
\* inside a MATCH closure.
THEOREM AuthoritySafety == Spec => []AuthorityOnlyBySteward
  BY Invariance, PTL DEF IInv

\* An edge rejected for a cannot-link or an authority conflict has its
\* endpoints in different components for the rest of the pass, so its review
\* never contradicts the published memberships.
THEOREM RejectionSafety == Spec => []HardRejectionStands
  <1>1. IInv => HardRejectionStands
    <2> SUFFICES ASSUME IInv, NEW f \in rejected, SameComponent(f.pair[1], f.pair[2])
                 PROVE  f.reason \notin {"CANNOT_LINK", "AUTHORITATIVE_CONFLICT"}
      BY DEF HardRejectionStands
    <2>1. ASSUME f.reason = "CANNOT_LINK" PROVE FALSE
      BY <2>1 DEF IInv, RejectionInv, NoCannotLinkInside, SameComponent
    <2>2. ASSUME f.reason = "AUTHORITATIVE_CONFLICT" PROVE FALSE
      BY <2>2 DEF IInv, RejectionInv, AuthorityOnlyBySteward, SameComponent
    <2> QED BY <2>1, <2>2
  <1> QED BY <1>1, Invariance, PTL

\* explain can justify every membership: two records share a component exactly
\* if accepted facts connect them, after every step of the pass.
THEOREM FactsExplain == Spec => []ExplainedByFacts
<1>1. Init => ExplainedByFacts
  <2> SUFFICES ASSUME Init, NEW r \in Records, NEW s \in Records
               PROVE  SameComponent(r, s) <=> Linked(AcceptedEdges, r, s)
    BY DEF ExplainedByFacts
  <2>1. AcceptedEdges = {} /\ (SameComponent(r, s) <=> r = s)
    BY DEF Init, AcceptedEdges, SameComponent
  <2>2. Linked({}, r, s) => r = s
    <3>1. {r} \in SUBSET Records /\ r \in {r} /\ ClosedUnder({r}, {})
      BY DEF ClosedUnder
    <3> QED BY <3>1 DEF Linked
  <2> QED BY <2>1, <2>2, LinkedReflexive
<1>2. IInv /\ IInv' /\ ExplainedByFacts /\ [Next]_vars => ExplainedByFacts'
  BY ExplainedStep
<1> QED BY <1>1, <1>2, Invariance, PTL DEF Spec

\* One kind of evidence never chains three records: a component of three or
\* more without a MATCH, an identity edge or a shared authority rests on two
\* evidence groups, in whatever order the edges are taken.
THEOREM ChainsAreFounded == Spec => []NoWeakChain
<1>1. Init => NoWeakChain
  <2> SUFFICES ASSUME Init PROVE NoWeakChain
    OBVIOUS
  <2>1. \A k \in {comp[r] : r \in Records} : ~(Cardinality(Members(k)) >= 3)
    <3> SUFFICES ASSUME NEW k \in {comp[r] : r \in Records}
                 PROVE  ~(Cardinality(Members(k)) >= 3)
      OBVIOUS
    <3>1. Members(k) \subseteq {k, k}
      BY DEF Init, Members
    <3> QED BY <3>1, OneAndOne
  <2> QED BY <2>1 DEF NoWeakChain
<1>2. IInv /\ IInv' /\ NoWeakChain /\ [Next]_vars => NoWeakChain'
  BY ChainStep
<1> QED BY <1>1, <1>2, Invariance, PTL DEF Spec
=============================================================================
