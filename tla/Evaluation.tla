----------------------------- MODULE Evaluation -----------------------------
(***************************************************************************)
(* What an evaluation makes of a set of source records: the components,    *)
(* the golden value of one field and the reviews.  One rule, one field and *)
(* one raw value for every override are enough for a refresh; Resolver has *)
(* the admission rules in full and Identity the ids of the components.     *)
(***************************************************************************)
EXTENDS Integers, Sequences, FiniteSets

CONSTANTS
  Records,   \* source records, in the order of their sort keys
  Values,    \* values of the field, positive; 0 marks an absent record
  Versions,  \* versions of the definition, positive
  Unites     \* the versions under which equal values are automatic evidence

ASSUME RecordsAssumption == Records \subseteq Nat /\ IsFiniteSet(Records)
ASSUME ValuesAssumption == Values \subseteq Nat \ {0}
ASSUME VersionsAssumption == Versions \subseteq Nat \ {0} /\ 1 \in Versions /\ Unites \subseteq Versions

Pairs == {p \in Records \X Records : p[1] < p[2]}
Within(A, pairs) == {p \in pairs : p[1] \in A /\ p[2] \in A}

\* What a result depends on: the rows of the sources, the stewards' current
\* decisions and the anchors of their overrides, the definition.
InputType ==
  [src     : [Records -> Values \cup {0}],
   decided : [Pairs -> {"NONE", "MATCH", "NOT_MATCH"}],
   anchors : SUBSET Records,
   version : Versions]

Active(src) == {r \in Records : src[r] # 0}

-----------------------------------------------------------------------------
(* The terminal relations of the graph, for the registered records A.      *)

EvidenceOf(src, A, version) ==
  {p \in Within(A, Pairs) : /\ version \in Unites
                            /\ src[p[1]] = src[p[2]] /\ src[p[1]] # 0}

GoldenOf(src, A) == [r \in Records |-> IF r \in A THEN src[r] ELSE 0]

-----------------------------------------------------------------------------
(* resolve_and_compare.                                                    *)

Merged(comp, p) ==
  LET a == comp[p[1]]
      b == comp[p[2]]
  IN  [r \in DOMAIN comp |->
         IF comp[r] \in {a, b} THEN IF a < b THEN a ELSE b ELSE comp[r]]

Before(p, q) == p[1] < q[1] \/ (p[1] = q[1] /\ p[2] < q[2])
Last(pairs) == CHOOSE p \in pairs : \A q \in pairs : q = p \/ Before(q, p)

\* A pair is merged except where it would bring the endpoints of one of the
\* prohibited pairs together.
Admitted(comp, p, cannots) ==
  IF \E q \in cannots : Merged(comp, p)[q[1]] = Merged(comp, p)[q[2]]
  THEN comp ELSE Merged(comp, p)

\* The components after the pairs have been tried in order.
Pass(start, pairs, cannots) ==
  LET After[tried \in SUBSET pairs] ==
        IF tried = {} THEN start
        ELSE Admitted(After[tried \ {Last(tried)}], Last(tried), cannots)
  IN  After[pairs]

\* MATCH decisions first, then the evidence.
Resolved(A, evidence, matches, cannots) ==
  Pass(Pass([r \in A |-> r], matches, {}), evidence, cannots)

Chosen(A, decided, kind) == {p \in Within(A, Pairs) : decided[p] = kind}

Components(A, evidence, decided) ==
  Resolved(A, evidence, Chosen(A, decided, "MATCH"), Chosen(A, decided, "NOT_MATCH"))

\* The rows of the records A, with the golden values `golden' and the override
\* directives on `anchors', some of which may be on other records.  A golden
\* issue and a rejected edge each make a review, and the key of a review
\* contains the version of the definition.
Evaluate(A, evidence, golden, decided, anchors, version) ==
  LET comp == Components(A, evidence, decided)
      members(r) == {s \in A : comp[s] = comp[r]}
      overridden(r) == anchors \cap members(r) # {}
  IN  [rows |-> [r \in A |->
         [members    |-> members(r),
          overridden |-> overridden(r),
          value      |-> IF overridden(r) THEN 0 ELSE golden[comp[r]],
          notice     |-> IF anchors \subseteq members(r) THEN 0 ELSE version]],
       rejected |->
         {[pair |-> p, version |-> version] :
            p \in {q \in evidence : comp[q[1]] # comp[q[2]]}}]

Nothing == [rows |-> [r \in {} |-> 0], rejected |-> {}]

\* The result of an input: a full evaluation of what the sources hold.
Result(input) ==
  LET A == Active(input.src)
  IN  Evaluate(A, EvidenceOf(input.src, A, input.version), GoldenOf(input.src, A),
               input.decided, input.anchors, input.version)

-----------------------------------------------------------------------------
(* What a refresh that evaluates a part relies on.                         *)

\* The decisions can be met together: see Steward.
Satisfiable(matches, cannots) ==
  \E comp \in [Records -> Records] :
    /\ \A p \in matches : comp[p[1]] = comp[p[2]]
    /\ \A p \in cannots : comp[p[1]] # comp[p[2]]

Uncut(S, pairs) == \A p \in pairs : p[1] \in S <=> p[2] \in S

\* The endpoints of a MATCH end in one component.  Records that no evidence and
\* no MATCH connects with others are resolved as if those did not exist.
ResolverLocal ==
  \A A \in SUBSET Records :
    \A evidence, matches, cannots \in SUBSET Within(A, Pairs) :
      Satisfiable(matches, cannots) =>
        LET whole == Resolved(A, evidence, matches, cannots)
        IN  /\ \A p \in matches : whole[p[1]] = whole[p[2]]
            /\ \A S \in SUBSET A : Uncut(S, evidence \cup matches) =>
                 LET part == Resolved(S, Within(S, evidence), Within(S, matches),
                                      Within(S, cannots))
                 IN  \A r \in S : part[r] = whole[r] /\ part[r] \in S
=============================================================================
