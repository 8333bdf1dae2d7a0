------------------------------ MODULE Refresh ------------------------------
(***************************************************************************)
(* Refreshes of one entity.  A refresh learns which source records exist   *)
(* and which records the graph's changes concern from output deltas that   *)
(* it consumes, and evaluates nothing, a part or everything.  It must      *)
(* publish what a full evaluation would: see Publication.                  *)
(*                                                                         *)
(* A refresh is one transaction that holds the entity's row and, from its  *)
(* first graph refresh to its end, the producer's locks on the sources.    *)
(* What it reads cannot change under it, so it is one action; one that     *)
(* fails leaves no trace.  The producer of the graph (pg_trickle) is       *)
(* modelled as the refresh uses it: nodes, logs of batches and consumers.  *)
(***************************************************************************)
EXTENDS Evaluation

CONSTANTS
  Sources,     \* the sources of the entity
  SourceOf,    \* source record -> source
  Capturable,  \* sources whose shape allows reading keys from deltas
  Decidable,   \* pairs that stewards decide on (a bound)
  Anchors,     \* records that stewards put overrides on (a bound)
  InitialSources,  \* contents of the sources at the start (a bound)
  MaxChanges   \* number of steps other than refreshes (a bound)

ASSUME SourcesAssumption ==
  /\ SourceOf \in [Records -> Sources] /\ Capturable \subseteq Sources
  /\ InitialSources \subseteq [Records -> Values \cup {0}]
ASSUME StewardsAssumption == Decidable \subseteq Pairs /\ Anchors \subseteq Records
ASSUME ProducerAssumption == Sources \cap {"evidence", "golden"} = {}
ASSUME BoundAssumption == MaxChanges \in Nat

Terminals == {"evidence", "golden"}

\* Each node of the graph that the refresh reads changes from has a consumer,
\* named like the node.
Consumers == Sources \cup Terminals

VARIABLES
  src, decided, anchors, desired,  \* the input: see InputType
  active_version,                  \* entities.active_version, 0 for NULL
  known, registry,   \* rows of source_records, those that are active
  nodes,             \* contents of the nodes, as of their last refresh
  invalid,           \* nodes whose next refresh recomputes them
  consumers,         \* consumer -> state, batches not acknowledged
  observed,          \* artifact of the last observation, 0 without one
  edits,             \* the pairs and the anchors with control rows of an
                     \* epoch after that of the last publication
  published, revision,
  asOf,              \* history: the input of the last refresh
  changes            \* number of steps other than refreshes

NoEdits == [pairs |-> {}, anchors |-> {}]

stewards == <<decided, anchors, edits>>
graph == <<nodes, invalid, consumers>>
ledger == <<active_version, known, registry, observed, published, revision, asOf>>
vars == <<src, desired, stewards, graph, ledger, changes>>

Input == [src |-> src, decided |-> decided, anchors |-> anchors, version |-> desired]

-----------------------------------------------------------------------------
(* The producer: nodes, batches and logs.                                  *)

\* Nodes of a graph that was never refreshed.
EmptyNodes ==
  [records |-> [r \in Records |-> 0], evidence |-> {},
   golden |-> [r \in Records |-> 0]]

\* The nodes of the sources, then those behind them: records are joined with
\* mdm_graph.source_records, which a refresh copies from the registry.
SourceNodes == [nodes EXCEPT !.records = src]
AllNodes(registered) ==
  [records  |-> src,
   evidence |-> EvidenceOf(src, registered, desired),
   golden   |-> GoldenOf(src, registered)]

Ends(pairs) == UNION {{p[1], p[2]} : p \in pairs}
Changed(old, new) == {r \in Records : old[r] # new[r]}
Present(f) == {r \in Records : f[r] # 0}

\* The records of the rows that a refresh removes from a node and adds to it.
\* An updated row is removed and added.
Removed(c, old, new) ==
  CASE c = "evidence" -> Ends(old.evidence \ new.evidence)
    [] c = "golden"   -> Changed(old.golden, new.golden) \cap Present(old.golden)
    [] OTHER -> {r \in Changed(old.records, new.records) \cap Present(old.records) :
                   SourceOf[r] = c}
Added(c, old, new) ==
  CASE c = "evidence" -> Ends(new.evidence \ old.evidence)
    [] c = "golden"   -> Changed(old.golden, new.golden) \cap Present(new.golden)
    [] OTHER -> {r \in Changed(old.records, new.records) \cap Present(new.records) :
                   SourceOf[r] = c}

\* Every refresh of a node appends one batch to its log, also when nothing
\* changed.  A recomputed node has a batch without rows.
Batch(c, old, new) ==
  IF c \in invalid THEN [full |-> TRUE, removed |-> {}, added |-> {}]
  ELSE [full |-> FALSE, removed |-> Removed(c, old, new), added |-> Added(c, old, new)]

\* The log of an active consumer after a refresh of its node to `new'.
LogAfter(c, new) == Append(consumers[c].log, Batch(c, nodes, new))

IsFull(log) == \E i \in DOMAIN log : log[i].full
Touched(log) == UNION {log[i].removed \cup log[i].added : i \in DOMAIN log}

Fresh == [state |-> "ACTIVE", log |-> <<>>]
Lost == [state |-> "LOST", log |-> <<>>]
Missing == [state |-> "MISSING", log |-> <<>>]

\* The graph of the desired definition is installed: its terminals get
\* consumers, the sources' nodes have none yet.
Installed == [c \in Consumers |-> IF c \in Terminals THEN Fresh ELSE Missing]

-----------------------------------------------------------------------------
(* Registration: which source records exist.                               *)

\* The last action on the key of r is an insertion, a deletion.
Arrives(log, r) ==
  \E i \in DOMAIN log :
    r \in log[i].added /\ \A j \in i + 1 .. Len(log) : r \notin log[j].removed
Leaves(log, r) == r \in Touched(log) /\ ~Arrives(log, r)

\* Mutation: a recomputed node's batch is taken for one without changes.
CapturesInvalidated(s, rebuild) ==
  /\ s \in Capturable /\ ~rebuild
  /\ revision > 0
  /\ consumers[s].state = "ACTIVE"

\* Only the changed keys of the source are read, from the complete log of its
\* node; otherwise all keys are.
Captures(s, rebuild) ==
  /\ s \in Capturable /\ ~rebuild
  /\ revision > 0
  /\ consumers[s].state = "ACTIVE"
  /\ ~IsFull(LogAfter(s, SourceNodes))

\* sync_source_records
Registered(rebuild) ==
  {r \in Records :
     IF Captures(SourceOf[r], rebuild)
     THEN LET log == LogAfter(SourceOf[r], SourceNodes)
          IN  Arrives(log, r) \/ (r \in registry /\ ~Leaves(log, r))
     ELSE src[r] # 0}

-----------------------------------------------------------------------------
(* Strategy.                                                               *)

\* The logs of the terminals say all that changed in the graph since the last
\* refresh.
Exact(A, rebuild) ==
  /\ revision > 0 /\ ~rebuild
  /\ observed = desired
  /\ \A t \in Terminals : /\ consumers[t].state = "ACTIVE"
                          /\ ~IsFull(LogAfter(t, AllNodes(A)))

DeltaSeeds(A) == UNION {Touched(LogAfter(t, AllNodes(A))) : t \in Terminals}

\* load_control_changes: an override can change a review on any component.
ControlSeeds(A) ==
  Ends(edits.pairs) \cup (IF edits.anchors = {} THEN {} ELSE known \cup A)

\* Mutation: components are not taken from the last publication.
ClosedIgnoresMembers(S, A) ==
  Uncut(S, AllNodes(A).evidence \cup Chosen(A, decided, "MATCH"))

\* load_affected_scope: components of the last publication, evidence and MATCH
\* decisions are not cut.  (The memberships of inactive records widen the scope
\* of an id's history further: see Identity.)
Closed(S, A) ==
  /\ \A r \in S \cap DOMAIN published.rows : published.rows[r].members \subseteq S
  /\ Uncut(S, AllNodes(A).evidence \cup Chosen(A, decided, "MATCH"))

Scope(A) ==
  {r \in Records : \A S \in SUBSET Records :
     DeltaSeeds(A) \cup ControlSeeds(A) \subseteq S /\ Closed(S, A) => r \in S}

-----------------------------------------------------------------------------
(* Evaluation.                                                             *)

EvaluateFull(A) ==
  Evaluate(A, AllNodes(A).evidence, AllNodes(A).golden, decided, anchors, desired)

\* load_overrides: the directives in the scope, and one of those outside.
ScopedAnchors(S) ==
  (anchors \cap S)
    \cup (IF anchors \subseteq S THEN {} ELSE {CHOOSE a \in anchors \ S : TRUE})

\* Mutation: rows of records that are no longer active are left behind.
AffectedKeepsRows(A) ==
  LET S == Scope(A)
      part == Evaluate(A \cap S, Within(S, AllNodes(A).evidence), AllNodes(A).golden,
                       decided, ScopedAnchors(S), desired)
  IN  [rows |-> [r \in DOMAIN published.rows \cup (A \cap S) |->
                   IF r \in A \cap S THEN part.rows[r] ELSE published.rows[r]],
       rejected |-> part.rejected
         \cup {f \in published.rejected : Within(S, {f.pair}) = {}}]

\* The rows of the scope are replaced, with the facts on its pairs.
EvaluateAffected(A) ==
  LET S == Scope(A)
      part == Evaluate(A \cap S, Within(S, AllNodes(A).evidence), AllNodes(A).golden,
                       decided, ScopedAnchors(S), desired)
  IN  [rows |-> [r \in (DOMAIN published.rows \ S) \cup (A \cap S) |->
                   IF r \in S THEN part.rows[r] ELSE published.rows[r]],
       rejected |-> part.rejected
         \cup {f \in published.rejected : Within(S, {f.pair}) = {}}]

\* Nothing changed; or everything is evaluated, as it is when a limit could
\* be exceeded or the scope does not close; or the affected part is.
Outcomes(A, rebuild) ==
  IF Exact(A, rebuild) /\ DeltaSeeds(A) = {} /\ edits = NoEdits THEN {published}
  ELSE {EvaluateFull(A)} \cup (IF Exact(A, rebuild) THEN {EvaluateAffected(A)} ELSE {})

-----------------------------------------------------------------------------
(* Actions.                                                                *)

\* finish_delta.  What was read is acknowledged; a lost terminal's consumer is
\* acknowledged up to where its snapshot began, before this refresh's batch.
Finished(A) ==
  [c \in Consumers |->
     IF c \in Terminals /\ consumers[c].state = "LOST"
     THEN [Fresh EXCEPT !.log = <<Batch(c, nodes, AllNodes(A))>>]
     ELSE Fresh]

Publish(result) ==
  /\ published' = result
  /\ revision' = revision + 1
  /\ active_version' = desired
  /\ edits' = NoEdits

\* mdm.refresh and mdm.rebuild
Refresh(rebuild) ==
  LET A == Registered(rebuild)
  IN  /\ registry' = A
      /\ known' = known \cup A
      /\ nodes' = AllNodes(A)
      /\ invalid' = {}
      /\ consumers' = Finished(A)
      /\ \E result \in Outcomes(A, rebuild) :
           IF revision = 0 \/ result # published THEN Publish(result)
           ELSE UNCHANGED <<published, revision, active_version, edits>>
      /\ observed' = desired
      /\ asOf' = Input
      /\ UNCHANGED <<src, decided, anchors, desired, changes>>

\* A source transaction.
Write(r, v) ==
  /\ src[r] # v
  /\ src' = [src EXCEPT ![r] = v]
  /\ UNCHANGED <<desired, stewards, graph, ledger>>

Decide(p, kind) ==
  /\ p[1] \in known /\ p[2] \in known
  /\ decided' = [decided EXCEPT ![p] = kind]
  /\ Satisfiable(Chosen(Records, decided', "MATCH"), Chosen(Records, decided', "NOT_MATCH"))
  /\ edits' = [edits EXCEPT !.pairs = @ \cup {p}]
  /\ UNCHANGED <<src, anchors, desired, graph, ledger>>

\* Overrides are set and cleared.
Override(a) ==
  /\ a \in known
  /\ anchors' = IF a \in anchors THEN anchors \ {a} ELSE anchors \cup {a}
  /\ edits' = [edits EXCEPT !.anchors = @ \cup {a}]
  /\ UNCHANGED <<src, decided, desired, graph, ledger>>

\* Another caller refreshes the graph.
RefreshGraph ==
  /\ nodes' = AllNodes(registry)
  /\ invalid' = {}
  /\ consumers' = [c \in Consumers |->
       IF consumers[c].state = "ACTIVE"
       THEN [consumers[c] EXCEPT !.log = LogAfter(c, AllNodes(registry))]
       ELSE consumers[c]]
  /\ UNCHANGED <<src, desired, stewards, ledger>>

\* The producer can no longer maintain a node incrementally.
Invalidate(c) ==
  /\ c \notin invalid
  /\ invalid' = invalid \cup {c}
  /\ UNCHANGED <<src, desired, stewards, nodes, consumers, ledger>>

\* A consumer falls behind or is told to take a new snapshot.
Lose(c) ==
  /\ consumers[c].state = "ACTIVE"
  /\ consumers' = [consumers EXCEPT ![c] = Lost]
  /\ UNCHANGED <<src, desired, stewards, nodes, invalid, ledger>>

\* The graph of a definition is installed: of another version, or of the
\* desired one anew.
Install(version) ==
  /\ desired' = version
  /\ nodes' = EmptyNodes
  /\ invalid' = Consumers
  /\ consumers' = Installed
  /\ UNCHANGED <<src, stewards, ledger>>

Init ==
  /\ src \in InitialSources
  /\ decided = [p \in Pairs |-> "NONE"] /\ anchors = {} /\ edits = NoEdits
  /\ desired = 1 /\ active_version = 0
  /\ known = {} /\ registry = {}
  /\ nodes = EmptyNodes /\ invalid = Consumers /\ consumers = Installed
  /\ observed = 0
  /\ published = Nothing /\ revision = 0
  /\ asOf = Input
  /\ changes = 0

Elsewhere ==
  \/ \E r \in Records, v \in Values \cup {0} : Write(r, v)
  \/ \E p \in Decidable, kind \in {"MATCH", "NOT_MATCH"} : Decide(p, kind)
  \/ \E a \in Anchors : Override(a)
  \/ RefreshGraph
  \/ \E c \in Consumers : Invalidate(c)
  \/ \E c \in Consumers : Lose(c)
  \/ \E v \in {desired, desired + 1} \cap Versions : Install(v)

Next ==
  \/ \E rebuild \in BOOLEAN : Refresh(rebuild)
  \/ changes < MaxChanges /\ changes' = changes + 1 /\ Elsewhere

Spec == Init /\ [][Next]_vars

-----------------------------------------------------------------------------
(* Properties.                                                             *)

BatchType == [full : BOOLEAN, removed : SUBSET Records, added : SUBSET Records]

NodesType ==
  [records  : [Records -> Values \cup {0}],
   evidence : SUBSET Pairs,
   golden   : [Records -> Values \cup {0}]]

\* The type of every variable.  The active records have a published row each.
TypeOK ==
  /\ Input \in InputType
  /\ active_version \in Versions \cup {0} /\ observed \in Versions \cup {0}
  /\ known \in SUBSET Records /\ registry \in SUBSET known
  /\ nodes \in NodesType
  /\ invalid \in SUBSET Consumers
  /\ consumers \in [Consumers -> [state : {"ACTIVE", "LOST", "MISSING"},
                                  log : Seq(BatchType)]]
  /\ DOMAIN published.rows = registry
  /\ edits \in [pairs : SUBSET Pairs, anchors : SUBSET Records]
  /\ revision \in Nat
  /\ asOf \in InputType
  /\ changes \in 0 .. MaxChanges

\* Every refresh, whether it skips, evaluates a part or everything, publishes
\* what a full evaluation of the sources, the decisions and the definition as
\* they are at that moment gives, and a revision is spent only on a difference.
Contract == INSTANCE Publication WITH input <- Input
PublishesInput == Contract!Spec

\* The registry says after a refresh which records the sources held: reading
\* changed keys from the logs is as good as reading all keys.
RegistryExact == revision > 0 => registry = Active(asOf.src)

\* What a log does not say did not happen: until a source's consumer is lost
\* or its node recomputed, the registry and the log give the node's keys.
CaptureCovers ==
  \A r \in Records :
    LET c == consumers[SourceOf[r]]
    IN  revision > 0 /\ c.state = "ACTIVE" /\ ~IsFull(c.log) /\ SourceOf[r] \notin invalid
          => (r \in Present(nodes.records)
                <=> Arrives(c.log, r) \/ (r \in registry /\ ~Leaves(c.log, r)))

\* The same for the terminals: a record whose golden value or evidence is not
\* what the last refresh saw is in the log.
DeltaCovers ==
  revision > 0 /\ observed = desired =>
    /\ consumers["golden"].state = "ACTIVE" /\ ~IsFull(consumers["golden"].log)
         /\ "golden" \notin invalid =>
         Changed(nodes.golden, GoldenOf(asOf.src, Active(asOf.src)))
           \subseteq Touched(consumers["golden"].log)
    /\ consumers["evidence"].state = "ACTIVE" /\ ~IsFull(consumers["evidence"].log)
         /\ "evidence" \notin invalid =>
         LET then == EvidenceOf(asOf.src, Active(asOf.src), asOf.version)
         IN  Ends((then \ nodes.evidence) \cup (nodes.evidence \ then))
               \subseteq Touched(consumers["evidence"].log)

\* (Of the design.)  An override makes a review only while its anchor is
\* inactive.
NoticesInactive ==
  revision > 0 =>
    \A r \in DOMAIN published.rows :
      published.rows[r].notice # 0 => \E a \in asOf.anchors : asOf.src[a] = 0
=============================================================================
