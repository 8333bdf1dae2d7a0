# A verification project for pg_mdm

pg_mdm resolves source records into durable entities inside PostgreSQL.  This
directory holds TLA+ models of its stateful core, the TLC runs that check them
on small instances, and TLAPS proofs of the most important invariants for
every instance.  Line numbers below are those of the Rust sources.

## Inventory

| Part | State it keeps | Operations | What makes it hard |
|---|---|---|---|
| Resolver (`resolver.rs`, `pair.rs`) | the partition of one call, accepted and rejected facts | `resolve` | one edge at a time; component-level prohibitions; limits that fail the call |
| Identity ledger (`identity.rs`) | registry, memberships, aliases, splits | `reconcile` per publication | merges, splits, removals and returns over many publications |
| Affected scope (`affected.rs`, `api/refresh.rs`) | none | `load_affected_scope`, `build` | a part of the ledger must be enough |
| Policy cases (`api/policy.rs`) | one row per review occurrence | projection, pending mark, backfill | written by refreshes, stewards and automation; a part of the reviews is projected |
| Policy bindings and intents (`api/policy_intent.rs`, `policy.rs`, `lib.rs`) | bindings, runtime rows, receipts, server epoch | create, replace, set state, set controls, submit | row locks under READ COMMITTED, retries, restarts, restores |
| Steward decisions, overrides (`api/steward.rs`, `constraint.rs`, `decision.rs`) | decisions and directives, the decision epoch | decide, override | compare-and-set, global contradiction check |
| Refresh (`api/refresh.rs`, `evaluation.rs`, `output.rs`) | source records, publications, observations, outputs | refresh, rebuild | nothing, a part or everything must give the same result |
| Delta consumers (`api/refresh.rs`) | acknowledged token per graph member | ensure, read, finish | gaps, resnapshots, generations of the graph |
| Reviews (`review.rs`) | reviews and occurrences | reconcile | closing and recurring across publications of different parts |
| Output tables (`api/refresh.rs`) | the three tables in `mdm_out`, snapshots of a revision | persist, delete stale rows | only a part is written, flags concern every row |
| Golden records (`golden.rs`, `evaluation.rs`) | none | `select_golden` | tie breaks, overrides |
| Candidates (`candidate.rs`, `graph_spec.rs`) | generated relations: blocks, pairs, evidence | refresh of the graph, limits | overflow leaves pairs out; two implementations |
| Definitions and graphs (`api/create.rs`, `api/rebind.rs`, `api/lifecycle.rs`) | versions, artifacts, graph generations, bindings to roles and sources | create, recompile, rebind, drop | objects are replaced, lost and restored behind the bindings; what was read may be old |
| Cleaners, comparators, validation of definitions | none | pure functions | breadth of inputs |
| Preview, describe, explain | none | read-only | |

They meet in a refresh, one transaction under the lock of the entity row: the
delta consumers say which records changed, the affected scope closes that set,
the resolver partitions it under the steward's decisions, the ledger gives the
components their ids, reviews and golden rows follow, and the policy cases are
projected from the reviews.  Stewards take the same entity row to decide;
automation takes the binding's row and the case's row, and never the entity's.

## Modules

### Resolver

`Resolver` models one call of `resolver::resolve`.  `input` is the call's
argument; `Validate` is the checks before the loops, `ApplyManual` one turn of
the loop over MATCH decisions (448-482), `CloseManual` the check of the
cannot-links and the edge limit (484-507), `ApplyAutomatic` one turn of the
loop over automatic edges (547-663), `Finish` the memberships and the last
check (665-710).  `comp` maps a record to the key of its component: it stands for the
union-find and for the `Component` at its root, whose key is the least sort
key of its members.  A record is the position of its sort key; the evidence of
a pair is the set of rules that agree on it, which is all that
`decide_pair_with_strength` distinguishes; `rank` is the order the score
vectors and the length-prefixed sort keys give.  `AuthorityOf` is the label
declared by the source, as in `source_authority`.

`MCResolver` gives the instances, `Resolver_proofs` the proofs.

### Identity

`Identity` models the ledger over a sequence of publications.  `Assigned`,
`NextRegistry`, `NewAliases`, `NewSplits` and `NextMember` are the parts of
`reconcile` in its order; `Invalid` is every way it returns `IdentityInvalid`,
and then `error` is set and the publication is not made.  `PublishFull`
reconciles the whole ledger, `PublishAffected` any set of records that is
closed as `load_affected_scope` leaves it and outside which nothing is
resolved anew.  A resolution is any partition of any set of active records:
the ledger must not depend on what the resolver can do.  `Core`, `MinActive`
and `MaxRevision` bound who is active when; that there are finitely many records is
assumed.  `held` is a history variable.

### PolicyIntent

`PolicyIntent` models automation on one policy case.  A call of
`submit_policy_intent` is its own READ COMMITTED transaction of these steps:

| Action | Code |
|---|---|
| `Begin` | the first statement is sent; it reads the runtime row and waits for the binding's lock |
| `LockBinding` | the lock is granted: principal check with the row read *before* the wait, replay, second read (a statement of its own, with a new snapshot), second replay, epoch check |
| `LockCase` | `FOR UPDATE` of the case |
| `Commit` | the checks in their order, the update, the receipt of `terminal`, commit |
| `Abort` | the backend or its client goes away |

The first statement locks `policy_bindings_v1` only (`FOR UPDATE OF b`), so
what it returns of the runtime row is the snapshot from before the wait.  The
other writers (`CreateBinding`, `Replace`, `SetState`, `SetCaseControls`,
`MarkPending`, `ProjectReview`, `ProjectOthers`, `BackfillOpenedAt`) take one
of the two row locks as their first effect and are single steps that need it
free.  `Restart` draws a new server epoch and ends every call; `Restore` also
loses the runtime rows, which a logical dump does not hold.  `sent` and
`answers` are histories.

A request gives a due time as text, and the text is what is compared with the
row's (1335): `plain` says whether the client spelled the instant as its session
shows it.  An instant spelled otherwise (`Respelled`) counts as a change, as the
code has it.  All sessions are taken to show timestamps alike (one `TimeZone`
and `DateStyle`), and a text to name one instant, which `now` does not.

### Steward

`Steward` models the two tables of controls of an entity, `steward_decisions`
and `golden_override_directives`, and the decision epoch they share.  `Decide`
is `persist_decision` and `Override` is `persist_golden_override` (set and
clear): the expected version is compared with the current row's, all current
decisions are checked together (`Contradiction`, the forest of
`validate_proposed_decision`), the old row is retired and superseded, the new
one gets the next version and the next epoch.  A steward decides on what it
read earlier (`Read`, `seen`), under the lock of the entity row from the first
statement, so a call is one action.  `Publish` is what a refresh records of
the epoch and `ControlSeeds` and `Reconstructable` are what
`load_control_changes` rebuilds from the rows.  `Replace` is a new definition.
A record need not be active to be decided on.

### Evaluation, Publication and Refresh

`Evaluation` is what an evaluation makes of a set of records, reduced to one
rule (equal values), one field and one override value: the components, the
golden value, the notice of an override and the rejected edges, with the
version that the key of a review contains.  `Publication` is the abstract
specification of a refresh in four variables: the input, the input it last
observed, the published result, the revision.

`Refresh` models `refresh` and `rebuild` of one entity between all that can
happen to their input.  One action is right for a refresh: it is one
transaction that takes the entity's row lock first and, with its first graph
refresh, the producer's locks on the sources, which it holds to its end
(`refresh.rs`:841; the second graph refresh checks that no source changed
since); a failure rolls all of it back.  Its parts are operators in the order
of the code:

| Operator | Code |
|---|---|
| `Captures`, `Registered` | `capture_source_input`, the choice between scan and deltas in `grant_refresh_access`, `sync_source_records` |
| `Exact`, `DeltaSeeds` | `graph_generation_transition`, the range test of `persist_refresh_inner`, `read_delta_batches` |
| `ControlSeeds`, `edits` | `load_control_changes`, reduced to what `Steward` shows it rebuilds |
| `Scope`, `Closed` | `load_affected_scope`, by what the scope is closed under |
| `Outcomes` | skipped, affected or full; a limit that may be exceeded or a scope that does not close makes the choice of full, and is abstracted to that choice |
| `Publish`, `observed` | publication and observation |
| `Finished` | `finish_delta` |

`pg_trickle` is not part of the repository.  It is modelled as the refresh
relies on it: a refresh of a node appends one batch to the log of each active
consumer, a batch names the rows removed before those added, a recomputed
node's batch is marked `FULL_INVALIDATION` and has no rows, a node that was
never refreshed is recomputed first, a consumer can be lost and is
re-registered by a snapshot.  The tokens of batches are abstracted to the
completeness of the log: `validate_delta_batch` refuses a gap, and a refused
refresh leaves no trace.  Not modelled: a build without output deltas, in which
every refresh is full, and the memberships of inactive records (`Identity` has
them).  The comparison of graph generations turns out to be a second line of
defence: an installed graph also starts with new consumers and recomputed
nodes, so no property depends on it.

### Reviews

`Reviews` models what a publication writes.  `Refresh(w, S)` is a refresh that
finds the world `w` (ids, golden values, facts) and evaluates the part `S`, or
everything when `S` is `Records`; which parts are possible (`Affects`) is what
`Refresh` and `Identity` establish.  `Evaluation` is `resolve_and_compare` on
what is loaded for the part, `Reconcile` is `review::reconcile`, `Differs` the
comparison of the semantic projections.  `Snapshot`, `EntityTable`,
`MemberTable` and `ReviewTable` are the writes of
`persist_publication_snapshots` and `persist_outputs`, with what
`delete_stale_output_rows` leaves; `ProjectCases` is `project_policy_cases`,
which gets the reviews of the part after a publication and all of them after an
observation.  `Decide` is the mark a decision puts on every open case.  A
review is its issue key and its occurrence; the ids that are allocated in
advance are counted (`IdsLeft`), and a review that finds none left gets the nil
id (`Short`, `nil`).  Which reviews lack one depends on the order of their keys
and is left open.  The three writes of a review go by its id: two nil ids in one
publication are refused by the first of them (`refused`), and one of a part
finds the row, the output and the case of the review outside the part that was
given it before, and writes over them (`OverwriteReview`).  After that no refresh
is modelled.  The id is the primary key of `reviews` over all entities, of which
the model has one, so that the reviews of another entity are not overwritten in
it; and a publication is taken to write its reviews in one statement (up to 128
of them, `PUBLICATION_BATCH_SIZE`).  `truth` is a history of what was evaluated.

### Lifecycle

`Lifecycle` models one entity name over creates, recompiles, rebinds, drops and
refreshes.  The first three read the definition and the sources with the rights
of the caller (`Prepare`, `PrepareRebind`) and change the entity later, under
the lock of its row (`Persist`, `Rebind`); a drop and a refresh hold that lock
throughout.  In between, sources and the role are replaced, graph relations are
lost or altered, the library is upgraded, a logical dump is restored: these are
the environment's actions, `MaxEvents` of them.  An object's OID is a counter,
so that a recreated object is told from the old one.  `CanRefresh` collects
what `refresh_access`, `load_context`, `validate_source_bindings`,
`refresh_graph` and `ensure_output` require.  Assumed of the environment: the
contract of a graph names the relations it reads, so that replacing a source
changes it; a restore gives every object a new OID; and graph relations come
back from a dump as plain tables.  A graph is one relation, whose delta
consumers are there or not.

### Candidates and Golden

`Candidates` models the relations that `graph_spec.rs` generates, from the
normalized rows to the evidence, and what a refresh reads of them under its
limits (`Reading`).  `Generated` is the reference algorithm of `candidate.rs`
and `Discovers` the oracle of its tests; neither runs in production, so that
they serve as the specification.  A text is a sequence of words.

`Golden` models the selection of one field: `BuiltIn` is the four policies by
the order in which each prefers records (`Rank`, `GroupRank`), `Select` adds the
overrides.  `Publish` may find any merge, split or departure of one step.
`Staged` and `Criteria` say the same order as a table of criteria applied one
after the other, which is how `plans/v0.7.md` documents it.

A refresh reads the rows of a field less finely than they are stored
(`load_golden_rows_scope`), and both are in the model.  `field.stored` is what
`graph_spec.rs` (278-288) generates: the text, the time of the change, the state
and the normalized bytes.  `RowChangedAt` is the whole second nearest to the
time (`refresh.rs`:2061): times are ticks, of which `Second` make a second, so
that two changes may fall into one.  `RawValue` is the text read as a JSON
document where it is one (2085): `Documents` says which texts are, and as which
value each reads, so that `1.1` and `1.10` are one number and `null` is no value.
Bytes are of the text as it is stored.  Instants before 1970, where halves round
the other way, are not distinguished.

`MCValues` runs both; they do not interact.  `Values_proofs` has the proofs.

## Runs

| Run | Instance | Shows |
|---|---|---|
| `resolver_pass` | 4 records: every assignment of at most one rule to the 6 pairs under 2 x 2 choices of sources and decisions; strong and supporting evidence in two edge orders; all 64 sets of MATCH with up to two NOT_MATCH, component limit 2, edge limit 5 | what is united never contains a NOT_MATCH or crosses authorities, facts explain memberships, no component of three or more rests on one shared group, contradictions are reported exactly |
| `identity` | 3 records over 4 publications, and 4 records, at least 3 of them active, over 3 | the ledger stays usable and complete; an affected publication equals a full one; ids follow their anchors |
| `intent_safety` | 2 clients, 2 bindings, one or two policies, in three worlds: the administrator, a restart and a restore; a steward and refreshes that write the case; escalation while a steward lowers the level; a due time in two spellings | effects only under live authority, no lost or repeated change, at most one escalation to a level, answers stay true |
| `intent_liveness` | the contention of two clients and an administrator | every call ends |
| `steward_controls` | 3 records, 1 anchor, 2 stewards, epoch up to 3, one publication, a new definition | no write overwrites one unseen, every change since a publication is seeded, accepted decisions can be met together |
| `refresh_pass` | 3 records in 2 sources of which one can be captured, 2 values, 2 definitions, 4 steps between refreshes of any kind, any number of refreshes and rebuilds | a refresh implements `Publication`; the logs of the terminals hold every change |
| `reviews_pass` | 3 records, 4 ids, two fields, two kinds of rejection, 3 publications, one decision, 2 definitions; two worlds with an issue in both fields, in which the ids run out | while no two reviews were given the nil id, open reviews are the issues of the whole, occurrences follow one another, outputs and cases say what was found, every change is counted |
| `lifecycle_pass` | 2 clients, 2 definitions of 1 and 2 sources, 2 entities one after the other, 2 versions, 2 graph generations, 2 events, 1 once the name is used again | nothing is published from what was not approved, a create repairs, a drop leaves nothing |
| `values_pass` | up to 4 rows in channels of all four kinds, at most 3 in a block and 4 pairs; three values and four change times, two of them in one second, over 4 records of two sources; all distributions of four texts, two of which read as one number, over four records; a text that reads as `null`; 2 overrides | evaluated completely or refused; the selection is the documented one for what is read of the rows, and changes only for a reason |
| `refresh_notice` | as `refresh_pass` | (violation) an override makes notices of an inactive anchor on other identities |
| `review_queue` | as `reviews_pass` | (violation) a review of one part overwrites that of another, and a present issue is in no open review |
| `lifecycle_sources` | as `lifecycle_pass` | (violation) after a create that removes a source no refresh succeeds |

The bounds.  With four records the resolver reaches all its admission cases:
two singletons, a singleton and a component, two components of two (the
smallest for which two independent connections exist); limits below the size
of the instance make every limit fire.  For refreshes, three records are a
pair with evidence and one outside it, so that a scope is a proper part and
can be widened by a component, by evidence or by a decision; four steps are
enough for a change that is undone, for one before and one after a loss or a
recomputation, and for a change on each side of a refresh that publishes
nothing; `InitialSources` has one source content with evidence and one
without.  Three records over four publications
reach a merge, a split of the merged id, a removal and a return, in every
order; four records are needed for a component that splits into two of which
one merges elsewhere while the scope is a proper part.  For intents two
clients are enough for every race over a lock (a third only waits), two
bindings for replacement and for two policies on a case; the counters
(`MaxRevision`, `MaxVersion`, `MaxEpoch`, `MaxNow`) let each kind
of change happen at least once before, during and after a call, and `Sendable`
bounds what clients send to two requests.  The three worlds of
`intent_safety` are regions of one state space, each deep in what it is about;
a behaviour is followed while it stays in one of them (`CONSTRAINT`): in the
first a restart finds one binding, in the second there is one binding, in the
third there are two and no administrator.  Clients are
interchangeable, so the safety runs use symmetry; the liveness run does not.
For reviews the worlds are the ones between which an issue appears,
disappears, changes its summary and recurs, an id is merged, parted and
retired, and a record leaves the part; a publication of one record with two
issues lacks one id, that of a second such record by itself lacks another, and
that of both at once two; three publications are enough for an
occurrence that closes and recurs, with a part and a full evaluation in any
order.  For the lifecycle two events are a replacement before and one after a
prepared call, or a loss and a restore; two generations are an obsolete and a
current graph; the second entity is the one that reuses a dropped name, after
at most one event.  For golden values two ticks to a second are enough for two
changes that round to one second and two that are a tick apart and do not.
Deadlock is not checked where behaviours end: the resolver's call returns, and
the ledger's, the reviews' and the lifecycle's runs stop at their bounds.

Fairness, used by `intent_liveness` only: strong fairness of the two lock
steps, because PostgreSQL queues the waiters of a row lock, and weak fairness
of the last step, because a backend that waits for nothing runs on.  Nothing
else is assumed to happen, neither further requests nor anything the
administrator, the steward or the refresh may do.

## Disagreements between the code and its documents

* `refresh_notice`.  The design (`DESIGN_V1.md`:367) makes a review when the
  anchor of an override becomes inactive.  `select_golden` (`golden.rs`:375)
  raises `OVERRIDE_ANCHOR_INACTIVE` whenever the anchor is not among the
  records it was given, and is given one identity at a time with the
  directives on all: while the anchor is active, every *other* identity with
  that field gets the issue.  `load_overrides` even carries one directive into
  affected evaluations so that they reproduce it.  For the same reason an
  anchor of a source that may not supply the field counts as inactive.
* `review_queue`.  `evaluate_full` and `evaluate_affected` (`refresh.rs`:4454,
  4557) allocate one id per record, loaded review and pair with evidence, and
  one more; new identities and new reviews take theirs from it, and what is
  missing becomes the nil UUID.  An identity opens one review per golden field
  with an issue, so a publication of few records and several fields can need
  more.  Two nil ids in one publication cannot be written and the refresh fails,
  as does every later one of the same input.  When an affected publication gives
  the nil id to a review while a review outside of its part has it, nothing
  fails: the reviews (3496), their output rows (2881) and their cases
  (`policy.rs`:456) are written over those of the other.  The ledger keeps the key
  of the old issue with the contents of the new one, the output and the case get
  the new key, and the old issue is in no open review although it is present.
  `DESIGN_V1.md`:381: "Each occurrence receives a new immutable `review_id`", and
  379 lists what "the review queue contains".
* `lifecycle_sources`.  `validate_source_bindings` (`refresh.rs`:3855) compares
  the number of all bound identities of the entity with the number of the
  desired definition's sources.  Identities outlive their mapping (`rebind.rs`:124,
  `README.md`:220), so once a definition drops a source, every refresh fails
  until it comes back.

Met while modelling, without a run of their own; the first three are what
`NoLostChange` and `SelectionBySeconds` make exceptions for:

* `submit_intent` compares the `due_at` text of a request
  with the text of the row (`policy_intent.rs`:1285, 1335): the present due time
  in another spelling (with `T` and `Z`, say) is `APPLIED_CONTROL` and takes an
  action revision, which outdates what others pinned, though no control changes.
  `set_case_controls` compares timestamps.  `plans/v0.14.md`:209: "Apply either
  one control change or no change."
* `row_changed_at` is read as a whole second
  (`refresh.rs`:2061), overrides' times as microseconds (2111).  Among records
  changed in one second `latest` and `prefer_source` decide by source or sort
  key, where the table (`plans/v0.7.md`:355-356) has the greatest time.
* A text is parsed as JSON and is a string only if that
  fails (`refresh.rs`:2085): the text `1.10` is published as `1.1`, and the text
  `null` is no value.  `plans/v0.7.md`:360 publishes the spelling of the chosen
  record; `DESIGN_V1.md`:369 stores the raw value.
* The design (`DESIGN_V1.md`:305) rejects a union of components with
  conflicting authoritative identity *values*.  The code gives the resolver the
  *label* a source declares for a field (`evaluation.rs`:61), so two records of
  one source never conflict and two of sources with different labels do.
* The stewardship contract (`MDM-STEWARDSHIP-1.json`:141) answers a new request
  on a paused or replaced binding with `BINDING_PAUSED` or `BINDING_REPLACED`,
  and `plans/v0.14.md`:60 lets activation survive a restart.  After a restart
  the epoch check (`policy_intent.rs`:1074) comes first and the request fails
  without a receipt.
* `DESIGN_V1.md`:335 counts the selected definition as part of the published
  projection; `semantic_projection` (`evaluation.rs`:294) leaves it out, so a
  new definition with the same result makes an observation and
  `active_version` stays behind.
* `reconcile_with_splits` (`review.rs`:248), which would open and close the
  notices of splits that `DESIGN_V1.md`:379 describes, is called by its tests
  only.
* The upsert into the output table of reviews (`refresh.rs`:2881) compares the
  summary but does not set it, unlike the one into `reviews` (3496); the public
  row keeps the first summary of an occurrence (`DESIGN_V1.md`:437).  `Reviews`
  models the code (`Published`), and `OutputsMirror` excludes the summary.
* After a publication of a part, cases outside of it keep the decision epoch
  they were projected with while their pending mark is cleared (`policy.rs`:468);
  `plans/v0.12.md`:189 and `v0.13.md`:116 tie the mark to that epoch.
* `prefer_source` orders sources by their names (`definition/canonical.rs`:4-31),
  not by a declared priority (`plans/v0.2.md`:293, `DESIGN_V1.md`:365);
  `TUTORIAL.md`:241 documents what the code does.
* A full publication sets `last_change_revision` of every entity row anew
  (`DESIGN_V1.md`:429).
* A replaced role that is rebound leaves the recorded role of the graph
  generations as it was, so `refresh_access` (`refresh.rs`:746) finds no
  relations to grant; `UsableWhenBuilt` excludes it (`Regular`).  The digests
  that a create compares do not tell an entity that was dropped and created
  again with the same version from the one that was read (`DESIGN_V1.md`:108).
  A create accepts a definition whose golden fields do not extend the former
  ones (`DESIGN_V1.md`:224); the refresh then refuses it.

## Proofs

`Resolver_proofs` proves the six properties of `resolver_pass`, and that a rejection
stands, of `Resolver!Spec` for every finite set of records and rules and every
source and input, from the assumptions the module states.
One more theorem, `NoContradictionReported`, joins it to `Steward`: a pass whose
decisions can be met together never fails for a contradiction.
The inductive invariant `IInv` adds to the listed properties: `PhaseInv`, that
the pending edges are what the phase says and that nothing is united before
the manual phase nor rejected before the automatic one; `StewardInv`, that
until the manual phase ends components stay inside the closures of the MATCH
decisions, that each decision already taken is honoured, and that afterwards
all are; and `RejectionInv`, that a prohibited or conflicting pair sits across
the two components of a rejected edge.  The last carries `RejectionSafety`, that
what was rejected for a prohibition or a conflict of authority stays apart:
that the endpoints are apart now does not show that a later union keeps them
apart, but that pair does, since components only grow and every union is
checked.  `ContradictionVerdict` needs the closure of the MATCH edges
as the least relation that is closed under them (`ClosedUnder`), which avoids
an induction over paths.  `FactsExplain` uses the same: a step either leaves the
components alone and adds an edge inside one, or adds the edge that unites two
(`StepIs`), and the relation of the facts grows in the same way
(`LinkedGrows`).  `ChainsAreFounded` is inductive beside `IInv`: a union founds
the component it makes (`UnionFounded`), since an automatic edge that is
admitted at a singleton brings a group the other component lacks, or a MATCH,
an identity edge or an authority, and between two established components
brings two groups; an edge inside a component only adds to what it has.

`Steward_proofs` proves every property of `steward_controls`.  The inductive invariant says that the epochs of both tables
together are the numbers up to the entity's, each once (`EpochLedger`), that a
publication's epoch is not beyond it, and that the current decisions are those
the check accepted.  `NeverContradictory` needs no induction over paths: the
check accepts a set of decisions exactly when an assignment of components
meets it, and such an assignment meets every subset, hence the decisions of
any active records.  `NothingLostUnseen` needs that what a steward saw is never
newer than the current row and is that row if it has its version (`SeenInv`),
since a write compares versions only: the version of a target only grows.

`Refresh_proofs` proves the invariants of `refresh_pass`, and two on which they
rest: `RegistryExact`, that the registry is what the sources held, and
`CaptureCovers`, that the logs of the sources lose nothing.  `LogGrows` says
what a batch adds to a log; from it `SourceStep`, `GoldenStep` and
`EvidenceStep` carry the coverage of the logs through a refresh of the graph,
by whomever.  `RegisteredExact` is the centre: keys read from a complete log
give the same registry as a scan.

It also proves that `Refresh` implements `Publication`
(`RefreshImplementsPublication`), for every set of records and any number of
steps.  `FullInv` adds to the invariants above that what is published is the
result of the last input, that what stewards changed since is in `edits`, and
that the decisions can be met together.  `ScopeCuts` shows that the scope of an
exact range cuts no evidence and no MATCH, neither now nor at the last refresh:
what would have been cut has changed, and what has changed is a seed.
`AffectedIsFull` then compares the two evaluations row by row.  That rests on
`ResolvesLocally`: records that no evidence and no MATCH connects with others
are resolved as if those did not exist.  `Pass` is a recursive function over
the sets of pairs already tried, so this is an induction over data, and the
library's induction theorems cannot be used.  Instead `SmallestFamily` gives a
least counterexample in a family of finite sets, `InductionOverPairs` turns it
into an induction whose hypothesis is a set (the sets of pairs of which
something holds) and `PassHasTrail` shows that the recursive function exists,
as the least relation closed under its equation.  `PassIs` and `PassPart` are
two such inductions: what a pass does with any prefix of the pairs, and that a
prefix of the whole has on a part the components of the part's own prefix.
The condition that the decisions can be met together is needed: otherwise a
prohibited pair elsewhere would stop every union of the whole.

`Identity_proofs` proves every property of `identity`, for every
finite set of records, any number of publications and any bound on who is
active.  `IInv` adds to the types and to `LedgerMatchesResolution` that the
aliases are a forest of ids that are no longer active (`AliasesOk`): a merge
writes an alias only from an id that nobody keeps (`AliasesAre`) to one that is
given, so a cycle would need an alias that leaves an active id (`AliasesGrow`).
`AssignedOnce` is the core of continuity: the ids given are claimed by an
anchor each, or new, and all together an interval again; new ids are told apart
by their rank among the new (`Ranks`).  Each of the two publications is one
`Commit` over a `Scoped` part (`NextIsCommit`), so that every step is proved
once.  For `AffectedIsFull`, `ContinuingWhole` and `AssignedSame` show that the
closure holds all members of an id or none, and that a component outside it
has one claim, the id it has; the rows follow (`RegistrySame`, `MembersSame`,
`LineageSame`).  `AnchorContinues` needs only the full case then.
`HistoryLeadsToRecords` is about the recursive `current_successors`.  `ReachIs`
shows that there is a function that meets the recursion, as the least relation
that is closed under it (the intersection of all that are), which needs no
induction; `LeadsOn` that after a publication an id leads to where it led
before and from there on by the rows just written, by taking the latest place
in the history where it would not.  The inductive part, `Lineage`, adds that a
record holds its present id among others, so that an active id always leads to
itself.

`PolicyIntent_proofs` proves every property of `intent_safety`, for any number
of clients, bindings, restarts and revisions, and without the worlds and
bounds of the run.  `IInv` is the argument of the two row locks.  `BindingLock`
says that a call that holds its binding has what is there, activated on this
server, and no receipt under its key; `CaseLock` that a call that decides has
the case as it is; and each that nobody else holds the same.  A writer takes
the lock of what it writes (`BindingWriteIInv`, `CaseWriteIInv`), except that
`CreateBinding` and the new half of `Replace` write rows that are absent, and
an absent row was activated on no server, so that nobody holds it.
`DecisionIs` reads off a decision what its lists of checks let through; that a
list has a first check that holds (`FirstOne`) is the one use of the
well-founded order of the naturals.  `CommitLeaves` states the last step of a
call once, and `LiveAuthority` and `NoLostChange` follow from it, and so does
`CallsAreAtomic`: the specification implements one in which a call is a single
step that repeats an answer, decides from the rows as they are, or fails.  The
step in which it happens is the grant of the binding's lock for what is repeated
or fails, the end of the transaction for what is decided.  The two specifications
share their variables, and the detailed one hides `call` and `sent`; the clock a
decision uses may be earlier, since `statement_timestamp` is that of the call's
start.  It says of refusals what the properties of the run say of effects: none
mixes what was so before a wait with what is so after it.  `NoLostChange` has to
except an intent that spells the present due time otherwise, which takes a
revision with nothing changed; that it is the only exception is part of it.

`Lifecycle_proofs` proves every property of `lifecycle_pass`, for any number
of clients, sources, definitions, versions and events.  `IInv` says of the row
that the last graph of every version is of its last artifact (`Covered`), of
every relation that it is of a generation of the entity, has the recorded OID
while it is registered, and reads what the sources name as long as its contract
is the installed one (`RelationOk`), and of a create that succeeded what it
leaves (`BuiltOk`).  `InstalledOk` shows it of `install_graph` once, for the
three cases of a create.  The choices of the latest artifact and graph are
replaced by what is last (`IsLastArtifact`, `IsLastGraph`), which avoids an
induction.  `AllSourcesBound` is why a count of bound identities is enough:
each is one that the definition maps.  TLC checked `IInv` on the instance of
`lifecycle_pass` before it was proved.

`Reviews_proofs` proves every property of `reviews_pass`, for every set of
records and issues and any number of refreshes, definitions and issue bounds.
`IInv` says what the open reviews are of, under the definition that wrote them
last and under the present one (`OpenIs`), that a review's occurrences follow
one another and none was opened after the last publication (`Timed`,
`Gapless`, `Ordered`, `OneRow`), and of each of the output tables that it is a
mirror of the world (`Members`, `Entity`, `Values`, `Rows` and `CasesMirror`).
The centre is `WholeIs`: reconciling the reviews of a part of the records, with
the issues that part raises, leaves what a full evaluation would have left.  It
rests on `PartIs`, `IdsSplit` and `IssuesSplit`, that an entity, and so an
issue, lies within the part or outside it, and on `LoadedAre`, that the reviews
that are loaded are those whose entities lie within.  `QuietOpen` is the case of
a refresh that finds no difference: what is open is then of the present
definition too.  All of it is inductive only while no two reviews were given the
nil id (`IdsSufficed`): the proved invariant is `SInv`, the types always and
`IInv` under that condition, and the step that gives a second nil id ends it.  The
first nil id changes nothing that `IInv` says, since nothing else has it.  TLC
checked `SInv` on the instance of `reviews_pass` before it was proved.

`Values_proofs` proves the properties of `values_pass`, each of the
specification of its component.  For `Candidates!Spec`, `ComparesCompletely`
needs only that rows are rows of the definition and that the outcome is a
reading of them (`EvaluationInvariant`); the work is in what a reading is.
`KeysMeet` is the centre: two rows have a block key of a channel in common
exactly if the channel discovers them, kind by kind, with the prefix of a short
text as the hard case.  `PairsInCount` counts the pairs of a block, which is an
induction over its records; with it `LimitsAgree` shows that the two limits the
refresh checks on the relations refuse exactly what the three limits of the
reference algorithm refuse, since a block whose pairs alone are too many makes
the whole too many.  `EvidenceWithinLimit` shows that the third limit of a
refresh, on the rows of evidence, is never reached behind the other two.  For
`Golden!GoldenSpec`, `LeastExists` shows that a policy's order of tuples has one
first element among finitely many and `StagedIs` that criteria applied one
after the other leave just that one, for any number of criteria; the table of
criteria then gives the order of each policy (`RecordCriteriaAre`,
`CommonCriteriaAre`), which is `SelectsByTheTable`: the documented table, for
times by the second and values as they are read.  `FirstValueTogether` is
the core of `ValuesSurvive`: a value that is most common in two parts is most
common in both together, at every level of the tie break, because counts add up
and the lesser of two sources is the lesser of both.  What agrees
there has equal values and equal normalized bytes: `1.1` and `1.10` are one
value with two sets of bytes, and counting them apart may let a third value win
(TLC has the case).  Beyond types, `FieldsAssumption` says that a change that has a
time is at least a second after the origin of the count, so that it does not
round to 0, which stands for an absent time.
The induction over data that these proofs need is done as for `ResolvesLocally`, with
a hypothesis that is a set (`InductionOverSets`, `InductionUpTo`).

Only model-checked: liveness (`EveryCallEnds`), which the prover cannot express
under fairness, and the three properties that the code violates.  Every other
property of a run is a theorem.

## Plan

Built so far, in this order: the resolver and its proofs; the identity ledger and its proofs;
policy cases, intents and their proofs; steward controls; refresh, publication and their
refinement; reviews and their proofs; the lifecycle of an entity and its proofs; candidates and
golden values and their proofs.

What would come next: the rebind of several objects one by one under the
uniqueness constraint (see the hazard at `rebind.rs`:184), and a refinement from
`Reviews` to an abstract review that opens and closes with its issue.

## Not modelled

* The cleaners, comparators and the normalisation of values (`cleaners`,
  `comparators`): functions of one value or of two, which example-based tests
  reach well; the models take the verdict of a rule as an input.
* The rules of definition validation one by one (`definition/validate.rs`) and
  the text of the generated SQL (`graph_spec.rs`, `candidate.rs` in part):
  syntax.  What a definition may be is an assumption of the models that use it,
  what a candidate query returns is in `Candidates`.
* Roles and grants of the SQL functions: enforced by PostgreSQL.  The OID of
  the execution role is in `Lifecycle`.
* A build without output deltas, in which every refresh is full.
* The read-only projections (`preview`, `describe`, `explain`): what they
  return is what the modelled state holds.
