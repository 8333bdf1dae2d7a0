------------------------------ MODULE Reviews ------------------------------
(***************************************************************************)
(* What a publication writes: the review occurrences and their cases, the  *)
(* golden values and facts of the revision, and the three output tables.   *)
(*                                                                         *)
(* An evaluation finds a world: the id of every active record, the golden  *)
(* values and the facts on pairs.  A full publication evaluates all of it, *)
(* an affected one a closed part, and loads and writes that part only.     *)
(* Resolver and Identity say which worlds there are, Refresh what the      *)
(* parts are closed under; here a world is any member of Worlds.           *)
(*                                                                         *)
(* A refresh and a decision of a steward are transactions under the lock   *)
(* of the entity row, so each is one action.                               *)
(***************************************************************************)
EXTENDS Integers, FiniteSets

CONSTANTS
  Records,      \* source records, in the order of their sort keys
  Ids,          \* mdm_ids, positive
  Fields,       \* golden fields
  Summaries,    \* evidence groups of a rejected edge
  Worlds,       \* what evaluations may find (a bound)
  MaxRevision,  \* the last publication (a bound)
  MaxEpoch,     \* the last decision epoch (a bound)
  MaxVersion    \* the last version of the definition (a bound)

Pairs == {p \in Records \X Records : p[1] < p[2]}
Within(S) == {p \in Pairs : p[1] \in S /\ p[2] \in S}

\* A golden value of 0 is one that the evaluation raises an issue about.
WorldType ==
  [at    : [Records -> Ids \cup {0}],            \* 0: not active
   gold  : [Ids \X Fields -> Nat],
   facts : [Pairs -> Summaries \cup {"none", "accepted"}]]

ASSUME WorldsAssumption ==
  /\ Records \subseteq Nat \ {0} /\ Ids \subseteq Nat \ {0}
  /\ IsFiniteSet(Records) /\ IsFiniteSet(Ids) /\ IsFiniteSet(Fields)
  /\ Summaries \cap {"none", "accepted"} = {}
  /\ Worlds \subseteq WorldType
ASSUME BoundsAssumption == MaxRevision \in Nat /\ MaxEpoch \in Nat /\ MaxVersion \in Nat \ {0}

VARIABLES
  version, epoch,   \* entities.desired_version, decision_epoch
  revision,         \* entities.publication_revision
  seen,             \* version and epoch of the last observation
  memberships,      \* record -> row, of active records and of former ones
  registry,         \* every mdm_id ever given
  provenance,       \* the golden values of the current revision
  facts,            \* the resolution facts of the current revision
  reviews,          \* rows of reviews
  nil,              \* history: the reviews that were given the nil id
  refused,          \* history: two reviews of a refresh had one id
  outEntity, outMembers, outReviews,  \* the tables in mdm_out
  cases,            \* review -> its row of policy_cases_v1
  truth             \* history: what the last publication's evaluation found

entity == <<version, epoch>>
stored == <<revision, memberships, registry, provenance, facts, reviews, nil, refused>>
outputs == <<outEntity, outMembers, outReviews>>
vars == <<entity, seen, stored, outputs, cases, truth>>

-----------------------------------------------------------------------------
(* Issues.                                                                 *)

\* What an issue key hashes, a pair of records or a golden value; the reason
\* code goes with the kind of subject.
PairKey(v, p) == [version |-> v, records |-> {p[1], p[2]}, id |-> 0, field |-> "none"]
GoldenKey(v, m, f) == [version |-> v, records |-> {}, id |-> m, field |-> f]

\* The subjects of a review name one of the records or of the mdm_ids.
Mentions(key, S, ids) == key.records \cap S # {} \/ key.id \in ids

\* issue_candidates, of the part S of a world.
Candidates(w, S, v) ==
  LET ids == {w.at[r] : r \in S} \ {0}
  IN  {[key |-> PairKey(v, p), summary |-> w.facts[p]] :
         p \in {q \in Within(S) : w.facts[q] \in Summaries}}
      \cup
      {[key |-> GoldenKey(v, at[1], at[2]), summary |-> "issue"] :
         at \in {pos \in ids \X Fields : w.gold[pos] = 0}}

-----------------------------------------------------------------------------
(* review::reconcile.                                                      *)

Open(candidate, occurrence, rev) ==
  [key |-> candidate.key, occurrence |-> occurrence, status |-> "open",
   summary |-> candidate.summary, opened |-> rev, resolved |-> 0,
   changed |-> rev, version |-> 1]

\* Mutation: a changed summary is not counted as a change of the review.
UpdateUncounted(row, candidate, rev) ==
  [row EXCEPT !.summary = candidate.summary]

Update(row, candidate, rev) ==
  [row EXCEPT !.summary = candidate.summary, !.changed = rev,
              !.version = @ + 1]

\* Mutation: the revision in which the review was resolved is not set.
ResolveUndated(row, rev) ==
  [row EXCEPT !.status = "resolved", !.changed = rev, !.version = @ + 1]

Resolve(row, rev) ==
  [row EXCEPT !.status = "resolved", !.resolved = rev, !.changed = rev,
              !.version = @ + 1]

\* The latest occurrences of a key: one row, or none.
Latest(rows, key) ==
  {row \in rows :
     row.key = key /\ \A other \in rows : other.key = key => other.occurrence <= row.occurrence}

\* Mutation: a recurring issue starts over.
NextOccurrenceRestarts(rows, key) == 1

NextOccurrence(rows, key) ==
  IF Latest(rows, key) = {} THEN 1
  ELSE (CHOOSE row \in Latest(rows, key) : TRUE).occurrence + 1

\* Candidates without an open review.
Opening(rows, current) ==
  {c \in current : \A row \in Latest(rows, c.key) : row.status # "open"}

\* The reviews that take an id.
NewReviews(rows, current) ==
  {[key |-> c.key, occurrence |-> NextOccurrence(rows, c.key)] : c \in Opening(rows, current)}

Reconcile(rows, current, rev) ==
  {LET same == {c \in current : c.key = row.key}
   IN  IF row.status # "open" THEN row
       ELSE IF same = {} THEN Resolve(row, rev)
       ELSE LET c == CHOOSE c \in same : TRUE
            IN  IF c.summary = row.summary THEN row ELSE Update(row, c, rev) :
     row \in rows}
  \cup
  {Open(c, NextOccurrence(rows, c.key), rev) : c \in Opening(rows, current)}

-----------------------------------------------------------------------------
(* The parts of an evaluation: `S' is Records in a full one.               *)

NoRow == [id |-> 0, active |-> FALSE, changed |-> 0]

\* identity::reconcile, for a world that says the ids.
NextMembership(w, r, rev) ==
  LET old == memberships[r]
      new == IF w.at[r] # 0 THEN [old EXCEPT !.id = w.at[r], !.active = TRUE]
             ELSE [old EXCEPT !.active = FALSE]
  IN  IF new = old THEN old ELSE [new EXCEPT !.changed = rev]

ActiveIds(rows) == {rows[r].id : r \in {q \in Records : rows[q].active}}

\* selected_mdm_ids
SelectedIds(S) == {memberships[r].id : r \in S} \ {0}

\* Mutation: the reviews about an mdm_id are not loaded.
LoadPairReviews(S) == {row \in reviews : Mentions(row.key, S, {})}

\* load_reviews
LoadReviews(S) == {row \in reviews : Mentions(row.key, S, SelectedIds(S))}

\* evaluate_full, evaluate_affected and resolve_and_compare
Evaluation(w, S, rev) ==
  LET old == IF S = Records THEN reviews ELSE LoadReviews(S)
      current == Candidates(w, S, version)
  IN  [memberships |-> [r \in S |-> NextMembership(w, r, rev)],
       ids         |-> {w.at[r] : r \in S} \ {0},
       golden      |-> [pos \in ({w.at[r] : r \in S} \ {0}) \X Fields |-> w.gold[pos]],
       facts       |-> [p \in Within(S) |-> w.facts[p]],
       loaded      |-> old,
       reviews     |-> Reconcile(old, current, rev),
       opening     |-> NewReviews(old, current)]

\* The ids that are allocated before the evaluation, less those that new
\* components take: what is left for new reviews.
IdsLeft(w, S, e) ==
  Cardinality({r \in S : w.at[r] # 0}) + Cardinality(e.loaded)
    + Cardinality({p \in Within(S) : w.facts[p] # "none"}) + 1
    - Cardinality(e.ids \ registry)

\* How many reviews get the nil id, because no allocated one is left.
Short(w, S, e) ==
  IF Cardinality(e.opening) > IdsLeft(w, S, e) THEN Cardinality(e.opening) - IdsLeft(w, S, e)
  ELSE 0

\* Bookkeeping of revisions and versions is not a difference.
Semantic(rows) == {[r \in {"key", "occurrence", "status", "summary"} |-> row[r]] : row \in rows}

Differs(e, S) ==
  \/ revision = 0
  \/ \E r \in S : e.memberships[r] # memberships[r]
  \/ Semantic(e.reviews) # Semantic(e.loaded)
  \/ e.golden # [pos \in {q \in DOMAIN provenance : q[1] \in SelectedIds(S)} |-> provenance[pos]]
  \/ \E p \in Within(S) : e.facts[p] # facts[p]

-----------------------------------------------------------------------------
(* persist_publication_snapshots: the part of the scope is new, the rest   *)
(* is copied from the previous revision.                                   *)

Snapshot(e, scope) ==
  LET kept == {pos \in DOMAIN provenance : pos[1] \notin scope}
  IN  [pos \in kept \cup DOMAIN e.golden |->
         IF pos \in DOMAIN e.golden THEN e.golden[pos] ELSE provenance[pos]]

-----------------------------------------------------------------------------
(* persist_outputs.                                                        *)

\* delete_stale_output_rows, after the rows `desired' were written
Remaining(table, desired, scope) == (DOMAIN table \ scope) \cup desired

EntityRow(e, m, rev, flag) ==
  [gold   |-> [f \in Fields |-> e.golden[<<m, f>>]],
   count  |-> Cardinality({r \in DOMAIN e.memberships :
                             e.memberships[r].active /\ e.memberships[r].id = m}),
   has_review |-> flag,
   changed    |-> rev]

\* Mutation: the flag of the rows outside of the scope is left as it is.
EntityTableKeepsFlag(e, scope, rev, flag) ==
  [m \in Remaining(outEntity, e.ids, scope) |->
     IF m \in e.ids THEN EntityRow(e, m, rev, flag) ELSE outEntity[m]]

\* The flag says of every row whether the entity has an open review.
EntityTable(e, scope, rev, flag) ==
  [m \in Remaining(outEntity, e.ids, scope) |->
     IF m \in e.ids THEN EntityRow(e, m, rev, flag)
     ELSE IF outEntity[m].has_review # flag
     THEN [outEntity[m] EXCEPT !.has_review = flag, !.changed = rev]
     ELSE outEntity[m]]

MemberTable(e, S) ==
  LET known == {r \in S : e.memberships[r] # NoRow}
  IN  [r \in Remaining(outMembers, known, S) |->
         IF r \in known THEN e.memberships[r] ELSE outMembers[r]]

SameReview(a, b) == a.key = b.key /\ a.occurrence = b.occurrence

\* The upsert into the output table does not set the summary of a row that
\* exists.
Published(row) ==
  LET old == {o \in outReviews : SameReview(o, row)}
  IN  IF old = {} THEN row
      ELSE [row EXCEPT !.summary = (CHOOSE o \in old : TRUE).summary]

ReviewTable(e) ==
  {o \in outReviews : \A row \in e.loaded : ~SameReview(o, row)}
    \cup {Published(row) : row \in e.reviews}

-----------------------------------------------------------------------------
(* project_policy_cases.                                                   *)

CaseOf(row) == [key |-> row.key, occurrence |-> row.occurrence]

NewCase(row, rev) ==
  [status |-> row.status, review_version |-> row.version,
   definition_version |-> version, revision |-> rev, epoch |-> epoch,
   pending |-> FALSE, action_revision |-> 1]

Projected(case, row, rev) ==
  LET basis_changed == row.changed = rev /\ case.revision # rev
      basis == IF basis_changed
               THEN [case EXCEPT !.review_version = row.version,
                                 !.definition_version = version, !.revision = rev]
               ELSE case
      after == [basis EXCEPT !.status = row.status, !.epoch = epoch, !.pending = FALSE]
      tuple(c) == <<c.status, c.review_version, c.definition_version, c.epoch, c.pending>>
  IN  IF tuple(after) = tuple(case) THEN after
      ELSE [after EXCEPT !.action_revision = @ + 1]

Cleared(case) ==
  IF case.pending
  THEN [case EXCEPT !.pending = FALSE, !.action_revision = @ + 1] ELSE case

\* The reviews of the publication are projected, the mark of every case of
\* the entity is cleared.
ProjectCases(rows, rev) ==
  [c \in DOMAIN cases \cup {CaseOf(row) : row \in rows} |->
     LET of == {row \in rows : CaseOf(row) = c}
     IN  IF of = {} THEN Cleared(cases[c])
         ELSE LET row == CHOOSE row \in of : TRUE
              IN  IF c \in DOMAIN cases THEN Projected(cases[c], row, rev)
                  ELSE NewCase(row, rev)]

-----------------------------------------------------------------------------
(* Actions.                                                                *)

\* A world that differs from the last one within S only, where S cuts no
\* component and no pair with a fact, before or after.
Closed(S) ==
  \A r \in S, q \in Records :
    memberships[r].id # 0 /\ memberships[q].id = memberships[r].id => q \in S
Affects(w, S) ==
  /\ Closed(S)
  /\ \A r \in S, q \in Records : w.at[r] # 0 /\ w.at[q] = w.at[r] => q \in S
  /\ \A p \in Pairs : w.facts[p] # "none" \/ facts[p] # "none" => (p[1] \in S <=> p[2] \in S)
  /\ \A p \in Pairs \ Within(S) : w.facts[p] = facts[p]
  /\ \A r \in Records \ S :
       /\ w.at[r] = IF memberships[r].active THEN memberships[r].id ELSE 0
       /\ w.at[r] # 0 => \A f \in Fields : w.gold[<<w.at[r], f>>] = provenance[<<w.at[r], f>>]

\* A retired id does not return: see Identity.
Possible(w) ==
  {w.at[r] : r \in Records} \cap (registry \ ActiveIds(memberships)) = {}

\* Everything is evaluated, or the part S under the definition of the last
\* observation.
Scoped(w, S) ==
  S = Records \/ (revision > 0 /\ seen.version = version /\ Affects(w, S))

\* What does not depend on the ids of the reviews.
Publish(w, S, e) ==
  LET rev == revision + 1
      scope == IF S = Records THEN DOMAIN outEntity ELSE SelectedIds(S) \cup e.ids
      flag == \E row \in (reviews \ e.loaded) \cup e.reviews : row.status = "open"
  IN  /\ revision' = rev
      /\ memberships' = [r \in Records |-> IF r \in S THEN e.memberships[r] ELSE memberships[r]]
      /\ registry' = registry \cup e.ids
      /\ provenance' = Snapshot(e, SelectedIds(S) \cup e.ids)
      /\ facts' = [p \in Pairs |-> IF p \in Within(S) THEN e.facts[p] ELSE facts[p]]
      /\ outEntity' = EntityTable(e, scope, rev, flag)
      /\ outMembers' = MemberTable(e, S)
      /\ truth' = [world |-> w, version |-> version]

\* The reviews of the part, their output rows and their cases, each under an
\* id of its own.
WriteReviews(e, rev) ==
  /\ reviews' = (reviews \ e.loaded) \cup e.reviews
  /\ outReviews' = ReviewTable(e)
  /\ cases' = ProjectCases(e.reviews, rev)

\* The same where the new review `row' has the id of the review `old' of
\* another part: each of the three writes finds what `old' has under that id.
\* The ledger keeps the issue, the output and the case take the new one.
OverwriteReview(e, rev, old, row) ==
  LET rest == [e EXCEPT !.reviews = @ \ {row}]
      projected == ProjectCases(rest.reviews, rev)
      case == cases[CaseOf(old)]
  IN  /\ reviews' = ((reviews \ e.loaded) \ {old}) \cup rest.reviews
           \cup {[old EXCEPT !.status = row.status, !.summary = row.summary,
                             !.resolved = row.resolved, !.changed = row.changed,
                             !.version = row.version]}
      /\ outReviews' = {o \in ReviewTable(rest) : ~SameReview(o, old)}
           \cup {[row EXCEPT !.summary = o.summary] : o \in {o \in outReviews : SameReview(o, old)}}
      /\ cases' = [c \in (DOMAIN projected \ {CaseOf(old)}) \cup {CaseOf(row)} |->
           IF c = CaseOf(row)
           THEN [Projected(case, row, rev) EXCEPT !.action_revision = case.action_revision + 1]
           ELSE projected[c]]

\* No two reviews were given the nil id.
IdsSufficed == \A a, b \in nil : a = b

\* mdm.refresh.  Of the reviews of the part, `same' have the nil id, and
\* `earlier' is the review of another part that has it.  Two rows of one id in
\* a statement fail it, and with it the refresh; one row replaces the earlier
\* one.  Nothing is refreshed after that (a bound).
Refresh(w, S) ==
  LET e == Evaluation(w, S, revision + 1)
  IN  /\ IdsSufficed
      /\ Possible(w) /\ Scoped(w, S)
      /\ IF Differs(e, S)
         THEN /\ revision < MaxRevision
              /\ \E late \in {L \in SUBSET e.opening : Cardinality(L) = Short(w, S, e)} :
                   LET same == {row \in e.reviews : CaseOf(row) \in nil \cup late}
                       earlier == {row \in reviews \ e.loaded : CaseOf(row) \in nil}
                   IN  IF \E a, b \in same : a # b
                       THEN /\ refused' = TRUE
                            /\ UNCHANGED <<revision, memberships, registry, provenance, facts,
                                           reviews, nil, outputs, cases, truth, seen>>
                       ELSE /\ Publish(w, S, e)
                            /\ nil' = nil \cup late
                            /\ seen' = [version |-> version, epoch |-> epoch]
                            /\ UNCHANGED refused
                            /\ IF late = {} \/ earlier = {}
                               THEN WriteReviews(e, revision + 1)
                               ELSE \E old \in earlier, row \in same :
                                      OverwriteReview(e, revision + 1, old, row)
         ELSE /\ cases' = ProjectCases(reviews, revision)
              /\ seen' = [version |-> version, epoch |-> epoch]
              /\ UNCHANGED <<stored, outputs, truth>>
      /\ UNCHANGED entity

\* A steward decides: mark_pending_cases.
Decide ==
  /\ epoch < MaxEpoch
  /\ epoch' = epoch + 1
  /\ cases' = [c \in DOMAIN cases |->
       IF cases[c].status = "open" /\ ~cases[c].pending
       THEN [cases[c] EXCEPT !.pending = TRUE, !.action_revision = @ + 1] ELSE cases[c]]
  /\ UNCHANGED <<version, seen, stored, outputs, truth>>

\* The definition is replaced.
Redefine ==
  /\ version < MaxVersion
  /\ version' = version + 1
  /\ UNCHANGED <<epoch, seen, stored, outputs, cases, truth>>

NoFacts == [p \in Pairs |-> "none"]

Init ==
  /\ version = 1 /\ epoch = 0 /\ revision = 0
  /\ seen = [version |-> 0, epoch |-> 0]
  /\ memberships = [r \in Records |-> NoRow] /\ registry = {}
  /\ provenance = [pos \in {} |-> 0] /\ facts = NoFacts
  /\ reviews = {} /\ nil = {} /\ refused = FALSE
  /\ outEntity = [m \in {} |-> 0] /\ outMembers = [r \in {} |-> NoRow] /\ outReviews = {}
  /\ cases = [c \in {} |-> 0]
  /\ truth = [world |-> [at |-> [r \in Records |-> 0], facts |-> NoFacts,
                         gold |-> [pos \in Ids \X Fields |-> 1]], version |-> 1]

Next ==
  \/ \E w \in Worlds, S \in SUBSET Records : Refresh(w, S)
  \/ Decide
  \/ Redefine

Spec == Init /\ [][Next]_vars

-----------------------------------------------------------------------------
(* Properties.                                                             *)

IssueKeys ==
  [version : 1 .. MaxVersion, records : SUBSET Records, id : Ids \cup {0},
   field : Fields \cup {"none"}]

ReviewRows ==
  [key : IssueKeys, occurrence : Nat \ {0}, status : {"open", "resolved"},
   summary : Summaries \cup {"issue"}, opened : 1 .. MaxRevision,
   resolved : 0 .. MaxRevision, changed : 1 .. MaxRevision, version : Nat \ {0}]

MembershipRows == [id : Ids \cup {0}, active : BOOLEAN, changed : 0 .. MaxRevision]

CaseRows ==
  [status : {"open", "resolved"}, review_version : Nat \ {0},
   definition_version : 1 .. MaxVersion, revision : 1 .. MaxRevision,
   epoch : 0 .. MaxEpoch, pending : BOOLEAN, action_revision : Nat \ {0}]

\* The type of every variable, with the constraint of the schema that a review
\* has a resolved revision if and only if it is resolved.
TypeOK ==
  /\ version \in 1 .. MaxVersion /\ epoch \in 0 .. MaxEpoch
  /\ revision \in 0 .. MaxRevision
  /\ seen \in [version : 0 .. MaxVersion, epoch : 0 .. MaxEpoch]
  /\ memberships \in [Records -> MembershipRows]
  /\ registry \subseteq Ids
  /\ DOMAIN provenance \subseteq Ids \X Fields
  /\ facts \in [Pairs -> Summaries \cup {"none", "accepted"}]
  /\ reviews \subseteq ReviewRows /\ outReviews \subseteq ReviewRows
  /\ \A row \in reviews : row.resolved # 0 <=> row.status = "resolved"
  /\ nil \subseteq [key : IssueKeys, occurrence : Nat \ {0}] /\ refused \in BOOLEAN
  /\ DOMAIN outEntity \subseteq registry /\ DOMAIN outMembers \subseteq Records
  /\ \A c \in DOMAIN cases : cases[c] \in CaseRows
  /\ truth \in [world : WorldType, version : 1 .. MaxVersion]

\* After a publication, full or affected, the open reviews are the issues of
\* everything that was evaluated, each once and with its summary: a part never
\* loses, keeps or repeats an issue of the rest as long as the ids sufficed.
OpenAreCurrent ==
  IdsSufficed /\ revision > 0 =>
    LET open == {row \in reviews : row.status = "open"}
    IN  /\ {[key |-> row.key, summary |-> row.summary] : row \in open}
             = Candidates(truth.world, Records, truth.version)
        /\ \A a, b \in open : a.key = b.key => a = b

\* The occurrences of an issue are numbered from one without a gap, one opens
\* after the one before it was resolved, and only the last can be open, as long
\* as the ids sufficed.
OccurrenceChain ==
  IdsSufficed => \A row \in reviews :
    /\ \A n \in 1 .. row.occurrence :
         \E before \in reviews : before.key = row.key /\ before.occurrence = n
    /\ \A next \in reviews :
         next.key = row.key /\ next # row /\ next.occurrence >= row.occurrence =>
           row.status = "resolved" /\ row.resolved < next.opened

\* The tables in mdm_out, the golden values and the facts say of every record
\* and id what the last publication found, whichever part it evaluated; the flag
\* of every row says whether anything is open, and the rows of the reviews are
\* those of the ledger but for the summary.  The case of every review has its
\* status and pins the version that the published row of the review has.  All of
\* it as long as the ids sufficed.
OutputsMirror ==
  IdsSufficed /\ revision > 0 =>
    LET at == truth.world.at
        ids == {at[r] : r \in Records} \ {0}
        shape(rows) == {[row EXCEPT !.summary = "issue"] : row \in rows}
    IN  /\ DOMAIN outEntity = ids
        /\ \A m \in ids :
             /\ outEntity[m].gold = [f \in Fields |-> truth.world.gold[<<m, f>>]]
             /\ outEntity[m].count = Cardinality({r \in Records : at[r] = m})
             /\ outEntity[m].has_review = \E row \in reviews : row.status = "open"
        /\ provenance = [pos \in ids \X Fields |-> truth.world.gold[pos]]
        /\ facts = truth.world.facts
        /\ outMembers = [r \in {q \in Records : memberships[q] # NoRow} |-> memberships[r]]
        /\ shape(outReviews) = shape(reviews)
        /\ DOMAIN cases = {CaseOf(row) : row \in reviews}
        /\ \A row \in outReviews :
             LET case == cases[CaseOf(row)]
             IN  /\ case.status = row.status
                 /\ case.review_version = row.version /\ case.revision = row.changed

\* Whoever remembers a review's version or a case's action revision notices
\* every change of it, and none that did not happen; a resolved review is final.
\* No row is written over another one by a step after which the ids sufficed.
ChangesCountedStep == IdsSufficed' =>
  /\ \A row \in reviews : \E new \in reviews' :
       /\ SameReview(row, new)
       /\ \/ new = row
          \/ /\ row.status = "open" /\ new.opened = row.opened
             /\ new.version = row.version + 1 /\ new.changed = revision'
             /\ new.status = "resolved" \/ new.summary # row.summary
  /\ \A c \in DOMAIN cases :
       LET token(case) == <<case.status, case.review_version, case.definition_version,
                            case.epoch, case.pending>>
       IN  cases'[c].action_revision
             = cases[c].action_revision + (IF token(cases'[c]) = token(cases[c]) THEN 0 ELSE 1)

ChangesCounted == [][ChangesCountedStep]_vars

\* (Of the design.)  The review queue contains every issue that the evaluations
\* found.
QueueComplete ==
  revision > 0 =>
    \A c \in Candidates(truth.world, Records, truth.version) :
      \E row \in outReviews : row.key = c.key /\ row.status = "open"
=============================================================================
