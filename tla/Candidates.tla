----------------------------- MODULE Candidates -----------------------------
(***************************************************************************)
(* Which pairs of records are compared, and what a refresh reads of them:  *)
(* the relations graph_spec.rs compiles (blocks, their sizes, the pairs of *)
(* the blocks, the evidence on the pairs), the limits a refresh enforces   *)
(* on them, and the reference algorithm of candidate.rs.  The graph is     *)
(* brought up to date by the refresh that reads it.  Records are numbers,  *)
(* in the order of their sort keys.  A text is a sequence of words, a word *)
(* is a number that is also its length, and a prefix is a number of words. *)
(***************************************************************************)
EXTENDS Integers, Sequences, FiniteSets, FiniteSetsExt, Functions

CONSTANTS
  SourceRecords,   \* keys of source rows
  Rows,            \* values of the fields of a row, each a text or Unusable
  Rules,           \* match rules: [name, fields, comparison, candidate]
  Similar(_, _),   \* texts the fuzzy comparator puts over its threshold
  MaxBlock,        \* max_block_records
  MaxPairs         \* max_candidate_pairs

RuleType ==
  [name : STRING, fields : Seq(STRING), comparison : {"exact", "fuzzy"}, length : Nat,
   candidate : {"none", "exact", "composite_exact", "prefix", "token"}]

ASSUME SourceRecordsAssumption == SourceRecords \subseteq Nat /\ IsFiniteSet(SourceRecords)
ASSUME RulesAssumption ==
  /\ Rules \subseteq RuleType /\ IsFiniteSet(Rules)
  /\ \A rule \in Rules : Len(rule.fields) > 0
  /\ \A a, b \in Rules : a.name = b.name => a = b
ASSUME RowsAssumption ==
  \A fields \in Rows : \A rule \in Rules : \A i \in DOMAIN rule.fields :
    fields[rule.fields[i]] \in Seq(Nat)
ASSUME LimitsAssumption == MaxBlock \in Nat /\ MaxPairs \in Nat

VARIABLES
  rows,            \* the rows of the sources, by their records
  outcome          \* what the last refresh of these rows read

vars == <<rows, outcome>>

\* A value that is missing, invalid or empty after normalization.
Unusable == <<>>

Present == DOMAIN rows

-----------------------------------------------------------------------------
(* The compiled plan and graph.                                            *)

\* A rule with a candidate owns a channel over its own fields; a supporting
\* rule, or an exact identity rule, may have none.
Channels == {c \in Rules : c.candidate # "none"}

\* Of the fields, each of which must have a value.
CompositeKey(c, fields) ==
  IF \E i \in DOMAIN c.fields : fields[c.fields[i]] = Unusable THEN {}
  ELSE {[i \in DOMAIN c.fields |-> fields[c.fields[i]]]}

\* The block keys of a row in a channel.
BlockKeys(c, fields) ==
  LET text == fields[c.fields[1]]
  IN  IF c.candidate = "composite_exact" THEN CompositeKey(c, fields)
      ELSE IF text = Unusable THEN {}
      ELSE CASE c.candidate = "exact"  -> {<<text>>}
             [] c.candidate = "prefix" -> {<<SubSeq(text, 1, Min({c.length, Len(text)}))>>}
             [] c.candidate = "token"  -> {<<<<w>>>> : w \in {v \in Range(text) : v >= c.length}}

\* blocks/<channel>
Block(c, key) == {r \in Present : key \in BlockKeys(c, rows[r])}

BlocksOf(c) == UNION {BlockKeys(c, rows[r]) : r \in Present}

\* block-overflow/<channel>
Overflowing(c) == {key \in BlocksOf(c) : Cardinality(Block(c, key)) > MaxBlock}

PairsIn(block) == {p \in block \X block : p[1] < p[2]}

\* candidate-raw: one row for each channel and block that holds the pair.
RawPairs ==
  UNION {UNION {{[channel |-> c.name, key |-> key, pair |-> p] : p \in PairsIn(Block(c, key))} :
    key \in BlocksOf(c) \ Overflowing(c)} : c \in Channels}

\* candidate-set and pair-stats
CandidateSet == {raw.pair : raw \in RawPairs}

PairCount == Cardinality(CandidateSet)

\* pairs: empty when pair-overflow holds a row
Pairs == IF PairCount > MaxPairs THEN {} ELSE CandidateSet

\* The class of a rule on a pair, as the joined columns compute it.
Class(rule, p) ==
  LET left(i)  == rows[p[1]][rule.fields[i]]
      right(i) == rows[p[2]][rule.fields[i]]
      all      == DOMAIN rule.fields
  IN  IF \E i \in all : Unusable \in {left(i), right(i)} THEN "no_evidence"
      ELSE IF IF rule.comparison = "exact" THEN \A i \in all : left(i) = right(i)
              ELSE Similar([i \in all |-> left(i)], [i \in all |-> right(i)])
      THEN "agree" ELSE "disagree"

\* evidence
Evidence ==
  {[pair |-> p, rule |-> rule.name, class |-> Class(rule, p)] : p \in Pairs, rule \in Rules}

-----------------------------------------------------------------------------
(* The refresh.                                                            *)

NotRun == [verdict |-> "none", scope |-> {}, evidence |-> {}]

Refused(resource) == [NotRun EXCEPT !.verdict = resource]

\* Mutation: the sizes of the blocks are left to the graph.
BlockLimitUnchecked == FALSE

\* validate_graph_block_limits
BlockLimitExceeded == \E c \in Channels : Overflowing(c) # {}

\* The checks of a refresh in their order, then load_pair_decisions: the
\* evidence with an endpoint in the scope, unless it has more rows than the
\* limits allow.
Reading(scope) ==
  LET read == {e \in Evidence : e.pair[1] \in scope \/ e.pair[2] \in scope}
  IN  IF BlockLimitExceeded THEN Refused("max_block_records")
      ELSE IF PairCount > MaxPairs THEN Refused("max_candidate_pairs")
      ELSE IF Cardinality(read) > MaxPairs * Max({1, Cardinality(Rules)})
      THEN Refused("max_pair_evidence_rows")
      ELSE [verdict |-> "evaluated", scope |-> scope, evidence |-> read]

\* A row is inserted or changed at a source.
Write(r, fields) ==
  /\ r \in Present => rows[r] # fields
  /\ rows' = [s \in Present \cup {r} |-> IF s = r THEN fields ELSE rows[s]]
  /\ outcome' = NotRun

Delete(r) ==
  /\ r \in Present
  /\ rows' = Restrict(rows, Present \ {r})
  /\ outcome' = NotRun

RefreshFull ==
  /\ outcome = NotRun
  /\ outcome' = Reading(SourceRecords)
  /\ UNCHANGED rows

\* An affected evaluation reads the pairs of its part.
RefreshAffected(scope) ==
  /\ outcome = NotRun
  /\ outcome' = Reading(scope)
  /\ UNCHANGED rows

Init ==
  /\ rows = <<>>
  /\ outcome = NotRun

Next ==
  \/ RefreshFull
  \/ \E r \in SourceRecords :
       \/ \E fields \in Rows : Write(r, fields)
       \/ Delete(r)
       \/ RefreshAffected({r})

Spec == Init /\ [][Next]_vars

-----------------------------------------------------------------------------
(* The reference: generate_candidates, and the oracle of its tests.        *)

\* Whether the reference algorithm, taking the channels in any order, ends
\* with a candidate set rather than with one of its limit errors.
Generated ==
  LET Found[C \in SUBSET Channels] ==
        UNION {UNION {PairsIn(Block(c, key)) : key \in BlocksOf(c)} : c \in C}
  IN  \A c \in Channels :
        /\ \A key \in BlocksOf(c) :
             LET n == Cardinality(Block(c, key))
             IN  n <= MaxBlock /\ (n * (n - 1)) \div 2 <= MaxPairs
        /\ Cardinality(Found[Channels]) <= MaxPairs

\* channel_matches: whether a channel discovers two rows, told from the rows.
Discovers(c, left, right) ==
  IF c.candidate = "composite_exact"
  THEN \A i \in DOMAIN c.fields :
         Unusable # left[c.fields[i]] /\ left[c.fields[i]] = right[c.fields[i]]
  ELSE LET l == left[c.fields[1]]
           r == right[c.fields[1]]
       IN  /\ l # Unusable /\ r # Unusable
           /\ CASE c.candidate = "exact"  -> l = r
                [] c.candidate = "prefix" ->
                     LET n == Min({c.length, Max({Len(l), Len(r)})})
                     IN  /\ Len(l) >= n /\ Len(r) >= n
                         /\ \A i \in 1..n : l[i] = r[i]
                [] c.candidate = "token"  ->
                     \E i \in DOMAIN l, j \in DOMAIN r : l[i] = r[j] /\ l[i] >= c.length

\* Complete or refused: a refresh that evaluates has the evidence of every
\* rule on every pair some channel discovers, of no other pair, and with the
\* class the values give; a refresh is refused exactly when the reference
\* algorithm is over a limit.  A pair that was not enumerated is never taken
\* for one that does not match.
EvaluatesCompletely ==
  /\ outcome.verdict = "evaluated" =>
       /\ Generated
       /\ \A p \in SourceRecords \X SourceRecords :
            LET found == /\ p[1] < p[2] /\ {p[1], p[2]} \subseteq Present
                         /\ p[1] \in outcome.scope \/ p[2] \in outcome.scope
                         /\ \E c \in Channels : Discovers(c, rows[p[1]], rows[p[2]])
            IN  {e.rule : e \in {f \in outcome.evidence : f.pair = p}}
                  = IF found THEN {rule.name : rule \in Rules} ELSE {}
       /\ \A c \in Channels, e \in outcome.evidence :
            c.comparison = "exact" /\ e.rule = c.name =>
              (e.class = "agree" <=> Discovers([c EXCEPT !.candidate = "composite_exact"],
                                               rows[e.pair[1]], rows[e.pair[2]]))
  /\ outcome.verdict \notin {"none", "evaluated"} => ~Generated
=============================================================================
