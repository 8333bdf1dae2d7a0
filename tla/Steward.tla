------------------------------ MODULE Steward ------------------------------
(***************************************************************************)
(* The stewards' controls of one entity: MATCH and NOT_MATCH decisions on  *)
(* pairs of source records, golden overrides on a record's field, and the  *)
(* decision epoch that numbers every change of either.                     *)
(*                                                                         *)
(* A write locks the row of the entity before it reads anything, so it is  *)
(* one action; what a steward saw before it wrote is not under that lock.  *)
(* A refused call rolls back and is an action that is not enabled.         *)
(***************************************************************************)
EXTENDS Integers, FiniteSets

CONSTANTS
  Records,      \* the source records of the entity, active or not
  Anchors,      \* those on which stewards override a field (a bound)
  Fields,       \* golden fields of any version of the definition
  Definitions,  \* what a definition says of controls: see DefinitionType
  Clients,      \* stewards
  MaxEpoch,     \* the last decision epoch
  MaxRevision   \* the last publication

DefinitionType == [limit : Nat, fields : SUBSET Fields]

ASSUME RecordsAssumption == Records \subseteq Nat /\ Anchors \subseteq Records
ASSUME DefinitionsAssumption == Definitions \subseteq DefinitionType
ASSUME BoundsAssumption == MaxEpoch \in Nat /\ MaxRevision \in Nat

Kinds == {"MATCH", "NOT_MATCH"}
Actions == {"SET", "CLEAR"}

\* Endpoints are ordered before anything is looked up.
Pairs == {p \in Records \X Records : p[1] < p[2]}
PairOf(r, s) == IF r < s THEN <<r, s>> ELSE <<s, r>>

Targets == Fields \X Anchors

\* Rows of steward_decisions and golden_override_directives.  `supersedes' is
\* the epoch of the superseded row, 0 where the column is NULL.
DecisionRows ==
  [on : Pairs, says : Kinds, version : Nat, epoch : Nat, supersedes : Nat,
   current : BOOLEAN]
DirectiveRows ==
  [on : Targets, says : Actions, version : Nat, epoch : Nat, supersedes : Nat,
   current : BOOLEAN]

\* A steward remembers one target, the version shown and (history) the row.
Tables == {"decisions", "directives"}
Unread == [table |-> "none", on |-> <<0, 0>>, version |-> 0, epoch |-> 0]
Seen ==
  [table : Tables, on : Pairs \cup Targets, version : Nat, epoch : Nat]
    \cup {Unread}

VARIABLES
  decisions,   \* rows of steward_decisions
  directives,  \* rows of golden_override_directives
  epoch,       \* entities.decision_epoch
  desired,     \* the desired definition
  active,      \* the active source records, which are those with a membership
  revision,    \* entities.publication_revision
  pubEpoch,    \* decision_epoch of the last publication
  seen,        \* steward -> what it last read: see Seen
  basis        \* history: the current rows of both tables when the last
               \* publication was made

vars == <<decisions, directives, epoch, desired, active, revision, pubEpoch,
          seen, basis>>

-----------------------------------------------------------------------------
(* Lookups.                                                                *)

Current(rows) == {row \in rows : row.current}
CurrentOn(rows, target) == {row \in rows : row.current /\ row.on = target}

\* The version of the current row, 0 without one.
VersionOn(rows, target) ==
  IF CurrentOn(rows, target) = {} THEN 0
  ELSE (CHOOSE row \in CurrentOn(rows, target) : TRUE).version

Superseded(rows, target) ==
  IF CurrentOn(rows, target) = {} THEN 0
  ELSE (CHOOSE row \in CurrentOn(rows, target) : TRUE).epoch

Edges(rows, kind) == {row.on : row \in {r \in rows : r.says = kind}}

-----------------------------------------------------------------------------
(* validate_proposed_decision.                                             *)

\* The records united with r by the edges: the least set closed under them.
ClosedUnder(edges, S) == \A e \in edges : e[1] \in S <=> e[2] \in S
Component(edges, r) ==
  {s \in Records :
     \A S \in SUBSET Records : r \in S /\ ClosedUnder(edges, S) => s \in S}

\* Mutation: only decisions on records that are active now are looked at.
ActiveContradiction(matches, cannots) ==
  \E p \in cannots :
     /\ p[1] \in active /\ p[2] \in active
     /\ p[2] \in Component({e \in matches : e[1] \in active /\ e[2] \in active},
                           p[1])

Contradiction(matches, cannots) ==
  \E p \in cannots : p[2] \in Component(matches, p[1])

\* The other current decisions and the proposed one.
Proposed(p, kind) ==
  LET others == {row \in Current(decisions) : row.on # p}
  IN  [matches |-> Edges(others, "MATCH") \cup {q \in {p} : kind = "MATCH"},
       cannots |-> Edges(others, "NOT_MATCH") \cup {q \in {p} : kind = "NOT_MATCH"},
       count   |-> Cardinality(others) + 1]

Valid(proposed) ==
  /\ 4 * proposed.count + 2 <= desired.limit
  /\ ~Contradiction(proposed.matches, proposed.cannots)

-----------------------------------------------------------------------------
(* Writes.                                                                 *)

NewRow(rows, target, what) ==
  [on |-> target, says |-> what, version |-> VersionOn(rows, target) + 1,
   epoch |-> epoch + 1, supersedes |-> Superseded(rows, target),
   current |-> TRUE]

\* The superseded row stays, no longer current.
Retired(rows, target) ==
  {IF row.current /\ row.on = target THEN [row EXCEPT !.current = FALSE]
   ELSE row : row \in rows}

Written(rows, target, what) == Retired(rows, target) \cup {NewRow(rows, target, what)}

\* Mutation: no compare-and-set.
ExpectsAny(c, table, rows, target) ==
  seen[c].table = table /\ seen[c].on = target

\* expected_version, which is the version the steward saw, is the current one.
Expects(c, table, rows, target) ==
  /\ seen[c].table = table /\ seen[c].on = target
  /\ seen[c].version = VersionOn(rows, target)

\* A steward reads what is current, in a transaction of its own.
Read(c, table, rows, target) ==
  /\ seen' = [seen EXCEPT ![c] =
       [table |-> table, on |-> target, version |-> VersionOn(rows, target),
        epoch |-> Superseded(rows, target)]]
  /\ UNCHANGED <<decisions, directives, epoch, desired, active, revision,
                 pubEpoch, basis>>

\* mdm_steward.decide
Decide(c, r, s, kind) ==
  LET p == PairOf(r, s)
  IN  /\ r # s
      /\ Expects(c, "decisions", decisions, p)
      /\ Valid(Proposed(p, kind))
      /\ epoch < MaxEpoch
      /\ epoch' = epoch + 1
      /\ decisions' = Written(decisions, p, kind)
      /\ UNCHANGED <<directives, desired, active, revision, pubEpoch, seen,
                     basis>>

\* Mutation: the new epoch is written to the row and not to the entity.
OverrideKeepsEpoch(c, field, anchor, action) ==
  /\ field \in desired.fields
  /\ Expects(c, "directives", directives, <<field, anchor>>)
  /\ epoch < MaxEpoch
  /\ directives' = Written(directives, <<field, anchor>>, action)
  /\ UNCHANGED <<decisions, epoch, desired, active, revision, pubEpoch, seen,
                 basis>>

\* mdm_steward.override_golden and mdm_steward.clear_golden_override
Override(c, field, anchor, action) ==
  /\ field \in desired.fields
  /\ Expects(c, "directives", directives, <<field, anchor>>)
  /\ epoch < MaxEpoch
  /\ epoch' = epoch + 1
  /\ directives' = Written(directives, <<field, anchor>>, action)
  /\ UNCHANGED <<decisions, desired, active, revision, pubEpoch, seen, basis>>

-----------------------------------------------------------------------------
(* What a refresh makes of the controls.                                   *)

\* load_control_changes.  No publication row exists at revision 0; later the
\* epoch of the row is never beyond the entity's.
RowsSince(rows, since) == {row \in rows : since < row.epoch /\ row.epoch <= epoch}

\* Mutation: an override seeds its anchor only.
ControlSeedsAnchors ==
  (UNION {{row.on[1], row.on[2]} : row \in RowsSince(decisions, pubEpoch)})
    \cup {row.on[2] : row \in RowsSince(directives, pubEpoch)}

ControlSeeds ==
  (UNION {{row.on[1], row.on[2]} : row \in RowsSince(decisions, pubEpoch)})
    \cup {row.on[2] : row \in RowsSince(directives, pubEpoch)}
    \cup (IF RowsSince(directives, pubEpoch) = {} THEN {} ELSE active)

\* Each epoch since the publication belongs to exactly one row.
OneRowEach(ds, os) ==
  /\ \A a, b \in ds : a.epoch = b.epoch => a = b
  /\ \A a, b \in os : a.epoch = b.epoch => a = b
  /\ \A a \in ds, b \in os : a.epoch # b.epoch

Reconstructable ==
  IF revision = 0 THEN epoch = 0
  ELSE LET ds == RowsSince(decisions, pubEpoch)
           os == RowsSince(directives, pubEpoch)
       IN  /\ pubEpoch <= epoch
           /\ OneRowEach(ds, os)
           /\ \A e \in pubEpoch + 1 .. epoch :
                \E row \in ds \cup os : row.epoch = e

\* load_decisions: the edges between active records.
Among(A, edges) == {e \in edges : e[1] \in A /\ e[2] \in A}

\* Mutation: the publication is numbered like the next decision.
PublishNextEpoch(A) ==
  /\ revision < MaxRevision
  /\ revision' = revision + 1
  /\ pubEpoch' = epoch + 1
  /\ active' = A
  /\ basis' = [decisions |-> Current(decisions),
               directives |-> Current(directives)]
  /\ UNCHANGED <<decisions, directives, epoch, desired, seen>>

\* A refresh that publishes: any source changes came with it.
Publish(A) ==
  /\ revision < MaxRevision
  /\ revision' = revision + 1
  /\ pubEpoch' = epoch
  /\ active' = A
  /\ basis' = [decisions |-> Current(decisions),
               directives |-> Current(directives)]
  /\ UNCHANGED <<decisions, directives, epoch, desired, seen>>

\* Another version of the definition becomes the desired one.
Replace(d) ==
  /\ desired' = d
  /\ UNCHANGED <<decisions, directives, epoch, active, revision, pubEpoch,
                 seen, basis>>

Init ==
  /\ decisions = {} /\ directives = {} /\ epoch = 0
  /\ desired \in Definitions
  /\ active = {} /\ revision = 0 /\ pubEpoch = 0
  /\ seen = [c \in Clients |-> Unread]
  /\ basis = [decisions |-> {}, directives |-> {}]

Next ==
  \/ \E c \in Clients :
       \/ \E p \in Pairs : Read(c, "decisions", decisions, p)
       \/ \E t \in Targets : Read(c, "directives", directives, t)
       \/ \E r, s \in Records, kind \in Kinds : Decide(c, r, s, kind)
       \/ \E f \in Fields, a \in Anchors, x \in Actions : Override(c, f, a, x)
  \/ \E A \in SUBSET Records : Publish(A)
  \/ \E d \in Definitions : Replace(d)

Spec == Init /\ [][Next]_vars

-----------------------------------------------------------------------------
(* Properties.                                                             *)

\* The type of every variable.  A publication's epoch is never beyond the
\* entity's, which load_control_changes would answer with a full evaluation.
TypeOK ==
  /\ decisions \in SUBSET DecisionRows
  /\ directives \in SUBSET DirectiveRows
  /\ epoch \in Nat /\ revision \in Nat /\ pubEpoch \in 0 .. epoch
  /\ desired \in Definitions
  /\ active \in SUBSET Records
  /\ seen \in [Clients -> Seen]
  /\ basis \in [decisions : SUBSET DecisionRows,
                directives : SUBSET DirectiveRows]

\* Whatever records are active, the decisions a refresh loads for them can be
\* met by some assignment of records to components: decisions accepted while
\* other records were active never add up to a contradiction later, so no
\* refresh ever fails with DecisionContradiction.
AlwaysSatisfiable ==
  \A A \in SUBSET Records : \E comp \in [Records -> Records] :
    /\ \A e \in Among(A, Edges(Current(decisions), "MATCH")) :
         comp[e[1]] = comp[e[2]]
    /\ \A e \in Among(A, Edges(Current(decisions), "NOT_MATCH")) :
         comp[e[1]] # comp[e[2]]

\* The rows of both tables share one numbering without gaps or repetitions:
\* load_control_changes can rebuild what happened since any publication.
EpochsExact ==
  /\ \A row \in decisions \cup directives : row.epoch \in 1 .. epoch
  /\ OneRowEach(decisions, directives)
  /\ \A e \in 1 .. epoch : \E row \in decisions \cup directives : row.epoch = e

Says(rows, target) == {row.says : row \in CurrentOn(rows, target)}
IsSet(rows, target) == Says(rows, target) = {"SET"}

\* After the first publication a refresh can always rebuild the control
\* changes since it, and every record whose evaluation they can alter is a
\* seed: the endpoints of a pair that now says something else, and every
\* active record when an override was set or cleared.
ChangesSeeded ==
  revision > 0 =>
    /\ Reconstructable
    /\ \A p \in Pairs :
         Says(decisions, p) # Says(basis.decisions, p) => {p[1], p[2]} \subseteq ControlSeeds
    /\ \A t \in Targets :
         IsSet(directives, t) # IsSet(basis.directives, t) =>
           active \cup {t[2]} \subseteq ControlSeeds

\* A write supersedes exactly the row that some steward had seen as current,
\* or follows its having seen none: what another wrote in between is never
\* overwritten unseen.
NoLostUpdate ==
  [][\A row \in (decisions' \cup directives') \ (decisions \cup directives) :
       row.current =>
         \E c \in Clients :
           /\ seen[c].table # "none"
           /\ seen[c].on = row.on
           /\ seen[c].epoch = row.supersedes]_vars
=============================================================================
