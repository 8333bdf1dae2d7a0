----------------------------- MODULE MCResolver -----------------------------
(***************************************************************************)
(* Instances of Resolver for TLC.  Four records, two sources that label    *)
(* the same field differently and a third that labels nothing, one rule of *)
(* each strength and a second strong one.                                  *)
(***************************************************************************)
EXTENDS Resolver

MCRecords == 1..4
MCPairs == {p \in MCRecords \X MCRecords : p[1] < p[2]}

MCRules == {"tax", "email", "phone", "name"}
MCRuleStrength ==
  [rule \in MCRules |-> CASE rule = "tax" -> "identity"
                          [] rule = "name" -> "supporting"
                          [] OTHER -> "strong"]
MCRuleGroup == [rule \in MCRules |-> rule]

MCSourceLabels ==
  [s \in {"crm", "registry", "plain"} |->
     CASE s = "crm" -> {<<"tax_id", "declared">>}
       [] s = "registry" -> {<<"tax_id", "authoritative">>}
       [] OTHER -> {}]

AllPlain == [r \in MCRecords |-> "plain"]

\* Every pair agrees on nothing or on one rule, one of each strength.
OneRuleEvidence == [MCPairs -> {{}, {"tax"}, {"email"}, {"name"}}]

\* Every pair agrees on nothing or on some of the strong and supporting rules.
StrongEvidence ==
  [MCPairs -> {{}, {"email"}, {"phone", "name"}, {"email", "phone"}}]

FlatRank == [p \in MCPairs |-> 0]
\* Score vectors that reverse the canonical order of the pairs.
ReverseRank == [p \in MCPairs |-> 9 - p[1] - p[2]]

\* Limits that the four records never reach, and limits they do.
Ample ==
  [max_active_records |-> 4, max_automatic_edges |-> 6,
   max_records_per_component |-> 4, max_component_checks |-> 6]
Tight ==
  [max_active_records |-> 4, max_automatic_edges |-> 5,
   max_records_per_component |-> 2, max_component_checks |-> 5]
TooFew == [Ample EXCEPT !.max_active_records = 3]

\* Automatic edges: every assignment of evidence, under a few sources and
\* decisions.
AutomaticInputs ==
  [sourceOf : {AllPlain, [AllPlain EXCEPT ![1] = "crm", ![3] = "registry"]},
   matches : {{}, {<<1, 4>>}}, notMatches : {{}, {<<2, 3>>}},
   evidence : OneRuleEvidence, rank : {FlatRank}, limits : {Ample}]

\* Strong evidence only, where a single shared value might chain records, in
\* two orders of the edges.
ChainInputs ==
  [sourceOf : {AllPlain, [AllPlain EXCEPT ![2] = "crm", ![4] = "crm"]},
   matches : {{}}, notMatches : {{}},
   evidence : StrongEvidence, rank : {FlatRank, ReverseRank}, limits : {Ample}]

\* Every set of MATCH decisions with up to two NOT_MATCH decisions and a
\* little evidence.
ManualInputs ==
  [sourceOf : {AllPlain, [r \in MCRecords |-> IF r <= 2 THEN "crm" ELSE "registry"]},
   matches : SUBSET MCPairs,
   notMatches : {n \in SUBSET MCPairs : Cardinality(n) <= 2},
   evidence : {[p \in MCPairs |-> {}],
               [p \in MCPairs |-> IF p[1] = 1 THEN {"tax"} ELSE {"email"}],
               [p \in MCPairs |-> IF p[1] = 1 THEN {"tax"} ELSE {}],
               [p \in MCPairs |-> IF p[2] - p[1] = 1 THEN {"phone"} ELSE {}]},
   rank : {FlatRank}, limits : {Tight, TooFew}]

AllInputs == AutomaticInputs \cup ChainInputs \cup ManualInputs
=============================================================================
