------------------------------ MODULE Resolver ------------------------------
(***************************************************************************)
(* One call of the deterministic clustering pass, resolver::resolve.       *)
(*                                                                         *)
(* The pass starts from one component per active source record, applies    *)
(* the stewards' MATCH decisions, checks that the result contains no       *)
(* NOT_MATCH, and then takes the automatic pair edges one at a time in a   *)
(* total order, uniting or rejecting each.  Every step is one action, so   *)
(* that the invariants speak of every intermediate partition.              *)
(*                                                                         *)
(* A record is the position of its source sort key (keys are unique), so   *)
(* `<' on records is the order on sort keys.  What a pair of records shows *)
(* is the set of match rules that agree on it.                             *)
(***************************************************************************)
EXTENDS Integers, FiniteSets

CONSTANTS
  Records,       \* the active source records of the call
  Rules,         \* the match rules of the entity definition
  RuleStrength,  \* rule -> "identity", "strong" or "supporting"
  RuleGroup,     \* rule -> its evidence group
  SourceLabels,  \* source -> its declared authority, a set of <<field, label>>
  Inputs         \* the calls considered: see InputType

Sources == DOMAIN SourceLabels

Pairs == {p \in Records \X Records : p[1] < p[2]}

\* ResolverLimits, all of which are positive (validate; its ceilings are left out).
Positive == Nat \ {0}
Limits ==
  [max_active_records : Positive, max_automatic_edges : Positive,
   max_records_per_component : Positive, max_component_checks : Positive]

InputType ==
  [sourceOf   : [Records -> Sources],
   matches    : SUBSET Pairs,          \* current MATCH decisions
   notMatches : SUBSET Pairs,          \* current NOT_MATCH decisions
   evidence   : [Pairs -> SUBSET Rules],
   rank       : [Pairs -> Nat],        \* order of the score vectors and of
                                       \* the length-prefixed sort keys
   limits     : Limits]

ASSUME RecordsAssumption == Records \subseteq Nat /\ IsFiniteSet(Records)
ASSUME InputsAssumption == Inputs \subseteq InputType
ASSUME RulesAssumption ==
  IsFiniteSet(Rules) /\ RuleStrength \in [Rules -> {"identity", "strong", "supporting"}]

VARIABLES
  input,     \* the call's arguments
  pc,        \* where the pass is
  comp,      \* record -> key of its component (the root of the union-find)
  pending,   \* edges of the current phase not looked at yet
  checks,    \* component_checks
  accepted,  \* accepted union facts
  rejected,  \* rejected union facts
  error      \* the error of a failed call

vars == <<input, pc, comp, pending, checks, accepted, rejected, error>>

-----------------------------------------------------------------------------
(* Pair decisions.                                                         *)

\* The authority of a record is what its source declares, not a value of
\* the record: source_authority looks up the source by name.
AuthorityOf(r) == SourceLabels[input.sourceOf[r]]

Differ(A, B) == \E a \in A, b \in B : a[1] = b[1] /\ a[2] # b[2]

Conflicts(r, s) == Differ(AuthorityOf(r), AuthorityOf(s))

Agreeing(p, strength) ==
  {rule \in input.evidence[p] : RuleStrength[rule] = strength}

Groups(p) == {RuleGroup[rule] : rule \in input.evidence[p]}

\* decide_pair_for_rules as load_pair_decisions calls it (no manual decision:
\* MATCH and NOT_MATCH reach the resolver as edges of their own).
PairResult(p) ==
  IF Conflicts(p[1], p[2]) THEN "AUTHORITATIVE_CONFLICT"
  ELSE IF Agreeing(p, "identity") # {} THEN "AUTOMATIC_IDENTITY"
  ELSE IF Agreeing(p, "strong") # {} THEN "AUTOMATIC_STRONG"
  ELSE IF Agreeing(p, "supporting") # {} THEN "REVIEW"
  ELSE "NO_EDGE"

AutomaticEdges ==
  {p \in Pairs : PairResult(p) \in {"AUTOMATIC_IDENTITY", "AUTOMATIC_STRONG"}}

PairOf(r, s) == IF r < s THEN <<r, s>> ELSE <<s, r>>

-----------------------------------------------------------------------------
(* The orders in which edges are taken.                                    *)

PairBefore(p, q) == p[1] < q[1] \/ (p[1] = q[1] /\ p[2] < q[2])

EdgeClass(p) == IF PairResult(p) = "AUTOMATIC_IDENTITY" THEN 0 ELSE 1

\* Identity before strong, more evidence groups first, then the score
\* vectors, then the canonical pair.
EdgeBefore(p, q) ==
  LET gp == Cardinality(Groups(p))
      gq == Cardinality(Groups(q))
  IN  \/ EdgeClass(p) < EdgeClass(q)
      \/ /\ EdgeClass(p) = EdgeClass(q)
         /\ \/ gp > gq
            \/ /\ gp = gq
               /\ \/ input.rank[p] < input.rank[q]
                  \/ input.rank[p] = input.rank[q] /\ PairBefore(p, q)

FirstMatch(p) == p \in pending /\ \A q \in pending \ {p} : PairBefore(p, q)
FirstEdge(p)  == p \in pending /\ \A q \in pending \ {p} : EdgeBefore(p, q)

-----------------------------------------------------------------------------
(* Components.                                                             *)

Members(k) == {r \in Records : comp[r] = k}
IsSingleton(k) == \A r, s \in Members(k) : r = s
Authority(k) == UNION {AuthorityOf(r) : r \in Members(k)}

\* Mutation: the larger root survives the union.
MergeLargerRoot(a, b) ==
  LET root == IF a <= b THEN b ELSE a
  IN  comp' = [r \in Records |-> IF comp[r] \in {a, b} THEN root ELSE comp[r]]

\* Mutation: the absorbed root moves, its other members stay behind.
MergeRootOnly(a, b) ==
  LET root == IF a <= b THEN a ELSE b
  IN  comp' = [r \in Records |-> IF r \in {a, b} THEN root ELSE comp[r]]

\* merge_components: the smaller root survives and is the component's key.
Merge(a, b) ==
  LET root == IF a <= b THEN a ELSE b
  IN  comp' = [r \in Records |-> IF comp[r] \in {a, b} THEN root ELSE comp[r]]

\* Mutation: only the two roots are looked up, not every pair of members.
CannotCrossRoots(a, b) ==
  <<a, b>> \in input.notMatches \/ <<b, a>> \in input.notMatches

CannotCross(a, b) ==
  \E r \in Members(a), s \in Members(b) :
    <<r, s>> \in input.notMatches \/ <<s, r>> \in input.notMatches

\* Mutation: the authority of a component is that of its root alone.
AuthorityConflictRoots(a, b) == Differ(AuthorityOf(a), AuthorityOf(b))

AuthorityConflict(a, b) == Differ(Authority(a), Authority(b))
SharedAuthority(a, b) == Authority(a) \cap Authority(b) # {}

-----------------------------------------------------------------------------
(* Admission of an automatic edge p between two different components.      *)

\* Mutation: any supported member admits, its group need not be a new one.
SingletonAdmissionAnyGroup(p, singleton, k) ==
  \/ PairResult(p) = "AUTOMATIC_IDENTITY"
  \/ Cardinality(Groups(p)) > 1
  \/ \E m \in Members(k) :
       /\ PairResult(PairOf(singleton, m)) \in {"AUTOMATIC_STRONG", "REVIEW"}
       /\ Groups(PairOf(singleton, m)) # {}

SingletonAdmission(p, singleton, k) ==
  \/ PairResult(p) = "AUTOMATIC_IDENTITY"
  \/ Cardinality(Groups(p)) > 1
  \/ \E m \in Members(k) :
       /\ PairResult(PairOf(singleton, m)) \in {"AUTOMATIC_STRONG", "REVIEW"}
       /\ Groups(PairOf(singleton, m)) \ Groups(p) # {}

\* The strong connections between two established components.
Connections(a, b) ==
  {PairOf(c[1], c[2]) : c \in {c \in Members(a) \X Members(b) :
                         PairResult(PairOf(c[1], c[2])) = "AUTOMATIC_STRONG"}}

EstablishedAdmission(a, b) ==
  \/ SharedAuthority(a, b)
  \/ \E c, d \in Connections(a, b) : c # d /\ Groups(c) \cap Groups(d) = {}

EstablishedReason(a, b) ==
  IF \A c, d \in Connections(a, b) : c = d
  THEN IF \E c \in Connections(a, b) : Cardinality(Groups(c)) > 1
       THEN "ESTABLISHED_STRONG_CONNECTIONS_REUSE_PAIR"
       ELSE "ESTABLISHED_NEEDS_TWO_STRONG_CONNECTIONS"
  ELSE "ESTABLISHED_STRONG_CONNECTIONS_NOT_INDEPENDENT"

Admitted == "ADMITTED"

\* The reason to reject edge p between the components a of p[1] and b of p[2].
Verdict(p, a, b) ==
  IF CannotCross(a, b) THEN "CANNOT_LINK"
  ELSE IF AuthorityConflict(a, b) THEN "AUTHORITATIVE_CONFLICT"
  ELSE IF IsSingleton(a) /\ IsSingleton(b) THEN Admitted
  ELSE IF IsSingleton(a)
       THEN IF SingletonAdmission(p, p[1], b) THEN Admitted
            ELSE "SINGLETON_NEEDS_INDEPENDENT_GROUP"
  ELSE IF IsSingleton(b)
       THEN IF SingletonAdmission(p, p[2], a) THEN Admitted
            ELSE "SINGLETON_NEEDS_INDEPENDENT_GROUP"
  ELSE IF EstablishedAdmission(a, b) THEN Admitted ELSE EstablishedReason(a, b)

-----------------------------------------------------------------------------
(* The pass.                                                               *)

Init ==
  /\ input \in Inputs
  /\ pc = "validate"
  /\ comp = [r \in Records |-> r]
  /\ pending = {}
  /\ checks = 0
  /\ accepted = {}
  /\ rejected = {}
  /\ error = "none"

Fail(e) ==
  /\ pc' = "failed"
  /\ error' = e
  /\ UNCHANGED <<input, comp, pending, checks, accepted, rejected>>

Fact(p, reason) == [pair |-> p, reason |-> reason]

Validate ==
  /\ pc = "validate"
  /\ IF Cardinality(Records) > input.limits.max_active_records
     THEN Fail("ResolverLimit")
     ELSE /\ pc' = "manual"
          /\ pending' = input.matches
          /\ UNCHANGED <<input, comp, checks, accepted, rejected, error>>

\* One turn of the loop over the canonical MATCH edges.
ApplyManual ==
  /\ pc = "manual"
  /\ \E p \in pending :
       /\ FirstMatch(p)
       /\ LET a == comp[p[1]]
              b == comp[p[2]]
          IN  IF a # b /\ CannotCross(a, b)
              THEN Fail("DecisionContradiction")
              ELSE /\ pending' = pending \ {p}
                   /\ IF a = b
                      THEN UNCHANGED <<comp, accepted>>
                      ELSE /\ Merge(a, b)
                           /\ accepted' = accepted \cup {Fact(p, "MANUAL_MATCH")}
                   /\ UNCHANGED <<input, pc, checks, rejected, error>>

\* No cannot-link may lie inside the MATCH closure; then the automatic edges
\* are counted and sorted.
CloseManual ==
  /\ pc = "manual"
  /\ pending = {}
  /\ IF \E p \in input.notMatches : comp[p[1]] = comp[p[2]]
     THEN Fail("DecisionContradiction")
     ELSE IF Cardinality(AutomaticEdges) > input.limits.max_automatic_edges
     THEN Fail("ResolverLimit")
     ELSE /\ pc' = "automatic"
          /\ pending' = AutomaticEdges
          /\ UNCHANGED <<input, comp, checks, accepted, rejected, error>>

ExceedsSize(a, b) ==
  Cardinality(Members(a)) + Cardinality(Members(b)) > input.limits.max_records_per_component

\* One turn of the loop over the sorted automatic edges.
ApplyAutomatic ==
  /\ pc = "automatic"
  /\ \E p \in pending :
       /\ FirstEdge(p)
       /\ LET a == comp[p[1]]
              b == comp[p[2]]
              verdict == Verdict(p, a, b)
          IN  IF \/ checks + 1 > input.limits.max_component_checks
                 \/ a # b /\ verdict = Admitted /\ ExceedsSize(a, b)
              THEN Fail("ResolverLimit")
              ELSE /\ checks' = checks + 1
                   /\ pending' = pending \ {p}
                   /\ IF a = b
                      THEN /\ accepted' = accepted \cup {Fact(p, "ALREADY_CONNECTED")}
                           /\ UNCHANGED <<comp, rejected>>
                      ELSE IF verdict = Admitted
                      THEN /\ Merge(a, b)
                           /\ accepted' = accepted \cup {Fact(p, PairResult(p))}
                           /\ UNCHANGED rejected
                      ELSE /\ rejected' = rejected \cup {Fact(p, verdict)}
                           /\ UNCHANGED <<comp, accepted>>
                   /\ UNCHANGED <<input, pc, error>>

\* The memberships are built and checked once more against the cannot-links.
Finish ==
  /\ pc = "automatic"
  /\ pending = {}
  /\ IF \E p \in input.notMatches : comp[p[1]] = comp[p[2]]
     THEN Fail("ResolverInvariant")
     ELSE /\ pc' = "done"
          /\ UNCHANGED <<input, comp, pending, checks, accepted, rejected, error>>

Next == Validate \/ ApplyManual \/ CloseManual \/ ApplyAutomatic \/ Finish

Spec == Init /\ [][Next]_vars

-----------------------------------------------------------------------------
(* Reference notions: the partition a set of edges generates, said without *)
(* an algorithm.                                                           *)

ClosedUnder(S, E) == \A p \in E : p[1] \in S <=> p[2] \in S

Linked(E, r, s) ==
  \A S \in SUBSET Records : (r \in S /\ ClosedUnder(S, E)) => s \in S

MustLinked(r, s) == Linked(input.matches, r, s)

AcceptedEdges == {f.pair : f \in accepted}

SameComponent(r, s) == comp[r] = comp[s]

-----------------------------------------------------------------------------
(* Properties.                                                             *)

Reasons == {"CANNOT_LINK", "AUTHORITATIVE_CONFLICT",
            "SINGLETON_NEEDS_INDEPENDENT_GROUP",
            "ESTABLISHED_STRONG_CONNECTIONS_REUSE_PAIR",
            "ESTABLISHED_NEEDS_TWO_STRONG_CONNECTIONS",
            "ESTABLISHED_STRONG_CONNECTIONS_NOT_INDEPENDENT"}

\* The type of every variable; a component's key is one of its members and
\* the least of them (component.rs keeps it beside the union-find's root).
TypeOK ==
  /\ input \in InputType
  /\ pc \in {"validate", "manual", "automatic", "done", "failed"}
  /\ comp \in [Records -> Records]
  /\ \A r \in Records : comp[comp[r]] = comp[r] /\ comp[r] <= r
  /\ pending \in SUBSET Pairs
  /\ checks \in Nat
  /\ accepted \in SUBSET [pair : Pairs, reason : {"MANUAL_MATCH",
       "ALREADY_CONNECTED", "AUTOMATIC_IDENTITY", "AUTOMATIC_STRONG"}]
  /\ rejected \in SUBSET [pair : Pairs, reason : Reasons]
  /\ error \in {"none", "DecisionContradiction", "ResolverLimit",
                "ResolverInvariant"}

\* No sequence of manual and automatic unions ever puts two records a steward
\* declared NOT_MATCH in one component, not even between two steps of the pass.
NoCannotLinkInside ==
  \A p \in input.notMatches : ~SameComponent(p[1], p[2])

\* The contradiction verdict depends on the decisions alone, not on the order
\* of the loop: the pass fails with DecisionContradiction only if the MATCH
\* closure contains a NOT_MATCH, and gets past the manual phase only if it
\* contains none, and then every MATCH closure is inside one component.
ContradictionExact ==
  LET contradiction == \E p \in input.notMatches : MustLinked(p[1], p[2])
  IN  /\ error = "DecisionContradiction" => contradiction
      /\ pc \in {"automatic", "done"} =>
           /\ ~contradiction
           /\ \A p \in input.matches : SameComponent(p[1], p[2])

\* Records with differing authority share a component only where stewards
\* linked them: no chain of automatic edges brings them together.
AuthorityOnlyBySteward ==
  \A r, s \in Records :
    SameComponent(r, s) /\ Conflicts(r, s) => MustLinked(r, s)

\* An edge rejected for a cannot-link or an authority conflict stays rejected:
\* later unions never put its endpoints in one component.
HardRejectionStands ==
  \A f \in rejected :
    f.reason \in {"CANNOT_LINK", "AUTHORITATIVE_CONFLICT"} =>
      ~SameComponent(f.pair[1], f.pair[2])

\* Two records share a component exactly if accepted facts connect them, so
\* explain can justify every membership and every accepted fact is honoured.
ExplainedByFacts ==
  \A r, s \in Records : SameComponent(r, s) <=> Linked(AcceptedEdges, r, s)

\* One kind of shared evidence never chains three records: a component of
\* three or more without a MATCH, an identity edge or a shared authority
\* rests on at least two evidence groups.
NoWeakChain ==
  \A k \in {comp[r] : r \in Records} :
    LET inside == {p \in Pairs : p[1] \in Members(k) /\ p[2] \in Members(k)}
        support == UNION {Groups(p) : p \in inside}
    IN  Cardinality(Members(k)) >= 3 =>
          \/ inside \cap input.matches # {}
          \/ \E p \in inside : PairResult(p) = "AUTOMATIC_IDENTITY"
          \/ \E p \in inside : AuthorityOf(p[1]) \cap AuthorityOf(p[2]) # {}
          \/ Cardinality(support) >= 2
=============================================================================
