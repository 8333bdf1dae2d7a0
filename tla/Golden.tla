------------------------------- MODULE Golden -------------------------------
(***************************************************************************)
(* The value of one golden field: the four built-in policies of golden.rs, *)
(* the overrides of stewards on top of them, and what a refresh publishes  *)
(* for every identity (evaluation::select_golden).  Records are numbers,   *)
(* in the order of their sort keys; a source is the number of its place    *)
(* among the definition's sources, which canonical_definition orders by    *)
(* name; canonical bytes are numbers, in byte order.  Which component a    *)
(* record belongs to is decided elsewhere (Resolver, Identity): here any   *)
(* merge, split or departure may happen between two publications.          *)
(* A refresh reads the rows of the field less finely than they are stored  *)
(* (load_golden_rows_scope): the time of a change as a whole second, the   *)
(* text of a value as the JSON document it may be.  Instants are numbered  *)
(* in ticks, of which Second make a second, from a second before the       *)
(* earliest; 0 stands for NULL.                                            *)
(***************************************************************************)
EXTENDS Integers, Sequences, FiniteSets, FiniteSetsExt

CONSTANTS
  Records,       \* source records of the entity
  Identities,    \* identifiers of resolved entities
  Fields,        \* the field's definition and the rows that supply it:
                 \* [policy, sources, authority : SUBSET Nat, stored : Records ->
                 \*  [source, changed, state, text, bytes]]
  Second,        \* ticks of a second
  Documents,     \* texts that are JSON documents, with the value of each
  Homes,         \* memberships the first publication may find
  Raws,          \* values a steward may give
  MaxDirectives  \* bound on the directives a steward writes

ASSUME RecordsAssumption == Records \subseteq Nat /\ IsFiniteSet(Records)

ASSUME SecondAssumption == Second \in Nat \ {0}

ASSUME FieldsAssumption ==
  \A f \in Fields :
    /\ f.policy \in {"prefer_source", "latest", "first_non_null", "most_common"}
    /\ \A r \in Records :
         /\ f.stored[r].source \in Nat /\ f.stored[r].bytes \in Nat
         /\ f.stored[r].changed \in Nat
         /\ f.stored[r].changed = 0 \/ f.stored[r].changed >= Second

VARIABLES
  field,         \* one of Fields
  home,          \* the identity each record is an active member of, or None
  directives,    \* current SET directives of the field
  written,       \* how many directives were written so far: their order in time
  golden         \* the published selection of every active identity

goldenVars == <<field, home, directives, written, golden>>

None == "none"

\* extract(epoch FROM row_changed_at)::bigint: to the nearest second.
Seconds(ticks) == IF ticks = 0 THEN 0 ELSE (ticks + (Second \div 2)) \div Second

\* The value of a text: of the document it is, or the text as a string.  The
\* document null and an absent text are no value (usable).
Parsed(text) == IF text \in DOMAIN Documents THEN Documents[text] ELSE text

\* The stored rows of the field, and what a refresh reads of the row of r.
row == field.stored
RowChangedAt(r) == Seconds(row[r].changed)
RawValue(r) == Parsed(row[r].text)

-----------------------------------------------------------------------------
(* One field of one identity.                                              *)

\* Lexicographic order of tuples of numbers.
Precedes(a, b) ==
  \E i \in DOMAIN a : a[i] < b[i] /\ \A j \in 1..(i - 1) : a[j] = b[j]

First(S, Rank(_)) == CHOOSE x \in S : \A y \in S \ {x} : Precedes(Rank(x), Rank(y))

Usable(R) == {r \in R : row[r].state = "value" /\ RawValue(r) # None}

Authoritative(R) == {r \in R : row[r].source \in field.authority}

\* Records that carry a value with these canonical bytes.
Spelling(R, bytes) == {r \in R : row[r].bytes = bytes}

SourceOrder(r) == <<row[r].source, r>>

\* Mutation: the newest value wins only among the records of one source.
RankSourceBeforeTime(r) ==
  CASE field.policy = "first_non_null" -> SourceOrder(r)
    [] OTHER -> <<row[r].source, -RowChangedAt(r), r>>

\* The order of the records under a policy that prefers records: an absent
\* change time is 0 and comes last.
Rank(r) ==
  CASE field.policy = "prefer_source"  -> <<row[r].source, -RowChangedAt(r), r>>
    [] field.policy = "latest"         -> <<-RowChangedAt(r), row[r].source, r>>
    [] field.policy = "first_non_null" -> SourceOrder(r)

\* Records the policy chooses from.
Valid(R) ==
  IF field.policy = "latest" THEN {r \in Usable(R) : RowChangedAt(r) > 0} ELSE Usable(R)

\* The order of the values under most_common.
GroupRank(R, bytes) ==
  LET group == Spelling(R, bytes)
  IN  <<-Cardinality(group), -Cardinality(Authoritative(group)),
        Min({row[r].source : r \in group}), bytes>>

Values(R) == {row[r].bytes : r \in R}

Tied(R) ==
  \E v, w \in Values(R) :
    /\ v # w
    /\ Cardinality(Spelling(R, v)) = Cardinality(Spelling(R, w))
    /\ \A u \in Values(R) : Cardinality(Spelling(R, u)) <= Cardinality(Spelling(R, v))

NoValue ==
  [value |-> None, status |-> "no_value", winner |-> 0, contributors |-> {}, issues |-> {}]

Winner(R) ==
  IF field.policy = "most_common"
  THEN LET Best(v) == GroupRank(R, v)
       IN  First(Spelling(R, First(Values(R), Best)), SourceOrder)
  ELSE First(R, Rank)

\* Mutation: a field whose two most common values tie is left empty.
BuiltInWithholdsTies(R) ==
  LET valid  == Valid(R)
      tie    == field.policy = "most_common" /\ Tied(valid)
      winner == Winner(valid)
  IN  IF valid = {} \/ tie THEN NoValue
      ELSE [value |-> RawValue(winner), status |-> "selected", winner |-> winner,
            contributors |-> Spelling(valid, row[winner].bytes), issues |-> {}]

\* The selection of the policy from the records R of one identity.
BuiltIn(R) ==
  LET valid  == Valid(R)
      winner == Winner(valid)
      tie    == field.policy = "most_common" /\ Tied(valid)
      issues == (IF \E r \in Authoritative(R) : row[r].state = "invalid"
                 THEN {"INVALID_AUTHORITATIVE_VALUE"} ELSE {})
                \cup (IF tie THEN {"GOLDEN_TIE"} ELSE {})
  IN  IF valid = {} THEN [NoValue EXCEPT !.issues = issues]
      ELSE [value |-> RawValue(winner), status |-> "selected", winner |-> winner,
            contributors |-> Spelling(valid, row[winner].bytes), issues |-> issues]

\* Records of the identity with members M that may supply the field.
Considered(M) == {r \in M : row[r].source \in field.sources}

\* select_golden: the overrides whose anchor is among those records replace
\* the policy's selection, or empty it when they differ.
Select(M) ==
  LET R       == Considered(M)
      active  == {d \in directives : d.anchor \in R}
      anchors == {d.anchor : d \in active}
      oldest  == CHOOSE d \in active : \A e \in active : d.at <= e.at
      base    == BuiltIn(R)
      issues  == base.issues \cup
                 (IF active # directives THEN {"GOLDEN_OVERRIDE_ANCHOR_INACTIVE"} ELSE {})
  IN  IF active = {} THEN [base EXCEPT !.issues = issues]
      ELSE IF \E d, e \in active : d.raw # e.raw
      THEN [value |-> None, status |-> "override_conflict", winner |-> 0,
            contributors |-> anchors, issues |-> issues \cup {"GOLDEN_OVERRIDE_CONFLICT"}]
      ELSE [value |-> oldest.raw, status |-> "override", winner |-> oldest.anchor,
            contributors |-> anchors, issues |-> issues]

-----------------------------------------------------------------------------
(* Publications and stewards.                                              *)

Members(h, i) == {r \in Records : h[r] = i}

ActiveIn(h) == {i \in Identities : Members(h, i) # {}}

\* What the records may have become by the next publication.
Reached(h) ==
  {h} \cup {[h EXCEPT ![r] = i] : r \in Records, i \in Identities \ ActiveIn(h)}
      \cup {[h EXCEPT ![r] = None] : r \in Records}
      \cup {[r \in Records |-> IF h[r] = j THEN i ELSE h[r]] : i, j \in ActiveIn(h)}

\* A refresh publishes a selection for every active identity.
Publish ==
  \E h \in Reached(home) :
    /\ home' = h
    /\ golden' = [i \in ActiveIn(h) |-> Select(Members(h, i))]
    /\ UNCHANGED <<field, directives, written>>

\* A steward gives the field a value on a record: the directive replaces the
\* record's current one.
Override(r, raw) ==
  /\ written < MaxDirectives
  /\ written' = written + 1
  /\ directives' = {d \in directives : d.anchor # r}
                     \cup {[anchor |-> r, raw |-> raw, at |-> written + 1]}
  /\ UNCHANGED <<field, home, golden>>

ClearOverride(r) ==
  /\ \E d \in directives : d.anchor = r
  /\ directives' = {d \in directives : d.anchor # r}
  /\ UNCHANGED <<field, home, written, golden>>

GoldenInit ==
  /\ field \in Fields
  /\ home \in Homes
  /\ directives = {}
  /\ written = 0
  /\ golden = <<>>

GoldenNext ==
  \/ Publish
  \/ \E r \in Records : ClearOverride(r) \/ \E raw \in Raws : Override(r, raw)

GoldenSpec == GoldenInit /\ [][GoldenNext]_goldenVars

-----------------------------------------------------------------------------
(* Properties.                                                             *)

\* The records that remain when criteria are applied one after the other,
\* each keeping those with the least number.
Staged(R, criteria) ==
  LET Keep[n \in 0..Len(criteria)] ==
        IF n = 0 THEN R
        ELSE LET least == Min({criteria[n][r] : r \in Keep[n - 1]})
             IN  {r \in Keep[n - 1] : criteria[n][r] = least}
  IN  Keep[Len(criteria)]

\* The table of the policies: for each the records it accepts and its criteria,
\* where time gives the change time of a record and value what it supplies.
Accepted(R, time, value) ==
  {r \in R : /\ row[r].state = "value" /\ value[r] # None
             /\ field.policy = "latest" => time[r] # 0}

Criteria(R, time) ==
  LET alike  == [r \in R |-> {s \in R : row[s].bytes = row[r].bytes}]
      source == [r \in R |-> row[r].source]
      newest == [r \in R |-> -time[r]]
      key    == [r \in R |-> r]
  IN  CASE field.policy = "prefer_source"  -> <<source, newest, key>>
        [] field.policy = "latest"         -> <<newest, source, key>>
        [] field.policy = "first_non_null" -> <<source, key>>
        [] field.policy = "most_common"    ->
             <<[r \in R |-> -Cardinality(alike[r])],
               [r \in R |-> -Cardinality({s \in alike[r] : row[s].source \in field.authority})],
               [r \in R |-> Min({row[s].source : s \in alike[r]})],
               [r \in R |-> row[r].bytes], source, key>>

PublishedByTable(time, value) ==
  golden' # golden =>
    \A i \in DOMAIN golden' :
      LET R     == {r \in Records : home'[r] = i /\ row[r].source \in field.sources}
          given == {d.raw : d \in {e \in directives : e.anchor \in R}}
          fit   == Accepted(R, time, value)
          left  == Staged(fit, Criteria(fit, time))
      IN  IF given # {}
          THEN golden'[i].value = IF Cardinality(given) = 1
                                  THEN CHOOSE v \in given : TRUE ELSE None
          ELSE IF fit = {} THEN golden'[i].value = None
          ELSE \E r \in fit :
                 /\ left = {r} /\ golden'[i].winner = r
                 /\ golden'[i].value = value[r]
                 /\ golden'[i].contributors = {s \in fit : row[s].bytes = row[r].bytes}

WholeSeconds == [r \in Records |-> Seconds(row[r].changed)]
JsonValues == [r \in Records |-> Parsed(row[r].text)]

\* What is published for an identity is what the design's table of policies
\* (plans/v0.7.md, Golden-value selection) gives for its present members when
\* change times are compared by their whole seconds and a text stands for the
\* JSON value it reads as, which is how load_golden_rows_scope reads them: the
\* value of the one record left when the criteria are applied in turn, credited
\* to every member with that normalized value; unless a directive is anchored
\* at one of them, when it is the value all such directives agree on, or none.
\* The table itself has the greatest time and the spelling of the record, which
\* is something else within one second and for a text like 1.10.
SelectionBySeconds == [][PublishedByTable(WholeSeconds, JsonValues)]_goldenVars

\* A value does not change for want of a reason: when two entities with the
\* same value of the field merge, the merged entity keeps it, and when records
\* that did not contribute to a value leave, the value stays.  Two texts that
\* read as one value (1.1 and 1.10) may have different normalized forms: two
\* selected values are the same here when these are equal, too.
AgreementSurvives ==
  LET alive == {r \in Records : home[r] # None}
      cases == {[of |-> M, is |-> Select(M)] : M \in SUBSET alive}
      Keeps(M, v) == \E c \in cases : c.of = M /\ c.is.value = v
      Agree(c, d) ==
        /\ c.is.value = d.is.value
        /\ c.is.status = "selected" /\ d.is.status = "selected"
             => row[c.is.winner].bytes = row[d.is.winner].bytes
  IN  \A c \in cases :
        /\ \A r \in c.of \ c.is.contributors : Keeps(c.of \ {r}, c.is.value)
        /\ \A d \in cases :
             c.of # {} /\ d.of # {} /\ c.of \cap d.of = {} /\ Agree(c, d)
               => Keeps(c.of \cup d.of, c.is.value)
=============================================================================
