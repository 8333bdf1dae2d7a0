----------------------------- MODULE Lifecycle -----------------------------
(***************************************************************************)
(* The life of one entity: mdm.create and mdm_admin.recompile, which store *)
(* a definition, compile it and install its graph, mdm_admin.rebind,       *)
(* mdm_admin.drop_entity, and what mdm.refresh requires of all that before *)
(* it publishes.                                                           *)
(*                                                                         *)
(* A create, a recompile and a rebind first read the stored entity and the *)
(* sources with the rights of the caller, then change the entity under the *)
(* lock of its row: two actions, between which anything may happen.  A     *)
(* drop and a refresh hold the lock from their first statement: one action.*)
(*                                                                         *)
(* The graph of a generation is one relation of mdm_graph here, its root.  *)
(* An OID is a counter per name: a recreated object has another one.       *)
(***************************************************************************)
EXTENDS Integers, Sequences, FiniteSets

CONSTANTS
  Clients,
  Sources,         \* names of source relations
  Definitions,     \* definitions of the entity, by digest
  SourcesOf(_),    \* the sources a definition maps
  FieldsOf(_),     \* its golden fields, in order
  MaxEntity,       \* entities that get the name, one after another (a bound)
  MaxVersion,      \* versions of a definition (a bound)
  MaxGraph,        \* graph generations of an entity (a bound)
  MaxEvents        \* changes from outside (a bound)

ASSUME LifecycleAssumption ==
  /\ IsFiniteSet(Sources)
  /\ \A d \in Definitions : SourcesOf(d) \subseteq Sources /\ FieldsOf(d) \in Seq(STRING)
  /\ {MaxEntity, MaxVersion, MaxGraph, MaxEvents} \subseteq Nat /\ MaxVersion # 0

VARIABLES
  entity,      \* the row of the name and all that belongs to it, or None
  relations,   \* the graph relations of mdm_graph, by entity and generation
  output,      \* the entity whose tables are in mdm_out, 0 if there are none
  role,        \* the OID of the execution role
  source,      \* the OID of every source relation
  compiler,    \* the version of the compiler in the installed library
  calls,       \* what a client read before it changes the entity
  ids,         \* entities created so far
  events,      \* changes from outside so far
  built        \* history: a create succeeded and nothing outside changed since

outside == <<role, source, compiler, events>>
vars == <<entity, relations, output, outside, calls, ids, built>>

None == [id |-> 0]
Exists == entity # None
Version == Len(entity.definitions)
Definition == entity.definitions[Version]

-----------------------------------------------------------------------------
(* Reading.                                                                *)

LastOf(S) == CHOOSE n \in S : \A m \in S : m <= n

\* The latest artifact of a version, by index; 0 if there is none.
ArtifactOf(e, v) ==
  LET its == {a \in DOMAIN e.artifacts : e.artifacts[a].version = v}
  IN  IF its = {} THEN 0 ELSE LastOf(its)

\* The latest generation of those that satisfy a condition; 0 if none does.
LatestGraph(e, Is(_)) ==
  LET its == {g \in DOMAIN e.graphs : Is(e.graphs[g])}
  IN  IF its = {} THEN 0 ELSE LastOf(its)

Member(g) == <<entity.id, g>>

\* Mutation: the contract is not compared with the installed one.
StaleUnlessThere(v) ==
  LET g == LatestGraph(entity, LAMBDA b : b.version = v)
  IN  g = 0 \/ Member(g) \notin DOMAIN relations \/ ~relations[Member(g)].registered

\* graph_contract_stale: the latest graph of the version is not there, is not a
\* stream table, or has another contract than when it was installed.
Stale(v) ==
  LET g == LatestGraph(entity, LAMBDA b : b.version = v)
  IN  \/ g = 0
      \/ Member(g) \notin DOMAIN relations
      \/ ~relations[Member(g)].registered
      \/ relations[Member(g)].drifted

\* load_context: the latest graph of the latest artifact
GraphOfContext ==
  LET a == ArtifactOf(entity, Version)
  IN  LatestGraph(entity, LAMBDA b : b.version = Version /\ b.artifact = a)

\* refresh_access: the graph whose relations the caller lets the helper read
GraphOfAccess ==
  LatestGraph(entity, LAMBDA b : b.version = Version /\ b.role = role)

\* The member has the recorded OID and belongs to the selected role.
Matches(g) ==
  /\ Member(g) \in DOMAIN relations
  /\ relations[Member(g)].oid = entity.graphs[g].oid
  /\ relations[Member(g)].owner = role

\* validate_source_bindings counts the identities that are bound, those of
\* sources which the definition no longer maps too.
SourcesValid ==
  LET bound == {s \in DOMAIN entity.bound : entity.bound[s] # 0}
  IN  /\ Cardinality(bound) = Cardinality(SourcesOf(Definition))
      /\ \A s \in bound : s \in SourcesOf(Definition) /\ entity.bound[s] = source[s]

\* output::validate_append_only
AppendOnly(before, after) ==
  Len(before) <= Len(after) /\ SubSeq(after, 1, Len(before)) = before

\* Mutation: the contract is not compared with the installed one.
ReadableOnceInstalled(g) ==
  /\ Matches(g)
  /\ relations[Member(g)].registered
  /\ relations[Member(g)].granted \/ g = GraphOfAccess

\* The helper may read the graph, and its contract is the installed one.
Readable(g) ==
  /\ Matches(g)
  /\ relations[Member(g)].registered /\ ~relations[Member(g)].drifted
  /\ relations[Member(g)].granted \/ g = GraphOfAccess

\* Everything that a refresh checks before it evaluates and publishes.
CanRefresh ==
  /\ Exists
  /\ entity.role = role
  /\ GraphOfContext # 0
  /\ Readable(GraphOfContext)
  /\ SourcesValid
  /\ AppendOnly(entity.columns, FieldsOf(Definition))

-----------------------------------------------------------------------------
(* create and recompile.                                                   *)

Idle == [kind |-> "idle"]
SeenVersion == IF Exists THEN Version ELSE 0

\* definition::prepare, with the version that the caller expects.  A recompile
\* is the same with the stored definition and version, from mdm.describe.
Prepare(c, d) ==
  /\ calls[c] = Idle
  /\ calls' = [calls EXCEPT ![c] =
       [kind |-> "create", id |-> entity.id, version |-> SeenVersion, definition |-> d,
        compiler |-> compiler, role |-> role,
        sources |-> [s \in SourcesOf(d) |-> source[s]]]]
  /\ UNCHANGED <<entity, relations, output, outside, ids, built>>

\* An identity that exists keeps its binding, whoever asks.
BindingsHold(call, known) ==
  \A s \in DOMAIN call.sources : s \in DOMAIN known => known[s] = call.sources[s]

WithSources(known, call) ==
  [s \in DOMAIN known \cup DOMAIN call.sources |->
     IF s \in DOMAIN known THEN known[s] ELSE call.sources[s]]

\* install_graph: another generation, registered with the delta consumers, that
\* reads the sources as they are named now.
Installed(e, call, v) ==
  LET g == Len(e.graphs) + 1
  IN  /\ g <= MaxGraph
      /\ entity' = [e EXCEPT !.graphs = Append(@,
           [version |-> v, artifact |-> ArtifactOf(e, v), role |-> role, oid |-> 1,
            consumers |-> TRUE])]
      /\ relations' = [m \in DOMAIN relations \cup {<<e.id, g>>} |->
           IF m = <<e.id, g>>
           THEN [oid |-> 1, owner |-> role, registered |-> TRUE, drifted |-> FALSE,
                 granted |-> FALSE, reads |-> [s \in DOMAIN call.sources |-> source[s]]]
           ELSE relations[m]]

\* Mutation: the artifact is stored with the version that was current.
NewArtifactOfCurrent(call, v) ==
  [version |-> IF v > 1 THEN v - 1 ELSE v, definition |-> call.definition,
   compiler |-> call.compiler]

NewArtifact(call, v) ==
  [version |-> v, definition |-> call.definition, compiler |-> call.compiler]

NewEntity(call) ==
  [id |-> ids + 1, role |-> role, definitions |-> <<call.definition>>,
   bound |-> call.sources, artifacts |-> <<NewArtifact(call, 1)>>, graphs |-> <<>>,
   columns |-> <<>>]

\* What stores a first definition: the name is free and none was expected.
CreateNew(call) ==
  /\ ~Exists /\ call.version = 0 /\ ids < MaxEntity
  /\ Installed(NewEntity(call), call, 1)
  /\ ids' = ids + 1

\* The entity is that of the role, and has the expected version.
Admitted(call) ==
  /\ Exists
  /\ call.role = role /\ entity.role = role
  /\ call.version = Version
  /\ BindingsHold(call, entity.bound)

\* A new version of the definition, with an artifact and a graph of its own.
CreateVersion(call) ==
  /\ Admitted(call) /\ call.definition # Definition /\ Version < MaxVersion
  /\ LET v == Version + 1
     IN  Installed([entity EXCEPT !.definitions = Append(@, call.definition),
                                  !.bound = WithSources(@, call),
                                  !.artifacts = Append(@, NewArtifact(call, v))], call, v)
  /\ UNCHANGED ids

\* The definition is the stored one: an artifact if the compiler made another
\* one, a graph for it or in the place of a stale one, or nothing at all.
CreateAgain(call) ==
  /\ Admitted(call) /\ call.definition = Definition
  /\ DOMAIN call.sources \subseteq DOMAIN entity.bound
  /\ LET a == ArtifactOf(entity, Version)
         other == NewArtifact(call, Version)
     IN  IF entity.artifacts[a] # other
         THEN Installed([entity EXCEPT !.artifacts = Append(@, other)], call, Version)
         ELSE IF Stale(Version) THEN Installed(entity, call, Version)
         ELSE UNCHANGED <<entity, relations>>
  /\ UNCHANGED ids

\* persist_entity and persist_recompile; one that fails leaves no trace.
Persist(c) ==
  LET call == calls[c]
  IN  /\ call.kind = "create"
      /\ calls' = [calls EXCEPT ![c] = Idle]
      /\ CreateNew(call) \/ CreateVersion(call) \/ CreateAgain(call)
      /\ built' = (call.compiler = compiler
                   /\ call.sources = [s \in DOMAIN call.sources |-> source[s]])
      /\ UNCHANGED <<output, outside>>

\* A call fails, or its client goes away.
Fail(c) ==
  /\ calls[c] # Idle
  /\ calls' = [calls EXCEPT ![c] = Idle]
  /\ UNCHANGED <<entity, relations, output, outside, ids, built>>

-----------------------------------------------------------------------------
(* rebind.                                                                 *)

\* prepare_rebind and the validation of every retained identity
PrepareRebind(c) ==
  /\ calls[c] = Idle /\ Exists
  /\ calls' = [calls EXCEPT ![c] =
       [kind |-> "rebind", id |-> entity.id, version |-> Version, role |-> role,
        sources |-> [s \in DOMAIN entity.bound |-> source[s]]]]
  /\ UNCHANGED <<entity, relations, output, outside, ids, built>>

\* persist_rebind: nothing of what was read changed, no member is missing.
Rebind(c) ==
  LET call == calls[c]
  IN  /\ call.kind = "rebind"
      /\ Exists /\ call.id = entity.id /\ call.version = Version
      /\ DOMAIN call.sources = DOMAIN entity.bound
      /\ call.role = role
      /\ \A g \in DOMAIN entity.graphs : Member(g) \in DOMAIN relations
      /\ entity' = [entity EXCEPT
           !.role = role, !.bound = call.sources,
           !.graphs = [g \in DOMAIN @ |-> [@[g] EXCEPT !.oid = relations[Member(g)].oid,
                                                       !.consumers = FALSE]]]
      /\ calls' = [calls EXCEPT ![c] = Idle]
      /\ built' = (built /\ call.sources = [s \in DOMAIN call.sources |-> source[s]])
      /\ UNCHANGED <<relations, output, outside, ids>>

-----------------------------------------------------------------------------
(* drop_entity.                                                            *)

\* Mutation: only stream tables are dropped.
RegisteredMembers == {m \in DOMAIN relations : m[1] = entity.id /\ relations[m].registered}

\* The members of every generation that are there: stream tables are dropped by
\* the helper, plain tables by the caller.
MembersToDrop == {Member(g) : g \in DOMAIN entity.graphs} \cap DOMAIN relations

Drop ==
  /\ Exists /\ entity.role = role
  /\ \A g \in DOMAIN entity.graphs : Member(g) \in DOMAIN relations => Matches(g)
  /\ relations' = [m \in DOMAIN relations \ MembersToDrop |-> relations[m]]
  /\ entity' = None
  /\ output' = 0
  /\ built' = FALSE
  /\ UNCHANGED <<outside, calls, ids>>

-----------------------------------------------------------------------------
(* refresh.                                                                *)

\* Only what the checks before the publication read, and what it leaves for
\* them: see Refresh for the rest.
Refresh ==
  /\ CanRefresh
  /\ LET g == GraphOfContext
     IN  /\ relations' = [m \in DOMAIN relations |->
              IF m \in {Member(g), Member(GraphOfAccess)} THEN [relations[m] EXCEPT !.granted = TRUE]
              ELSE relations[m]]
         /\ entity' = [entity EXCEPT !.columns = FieldsOf(Definition),
                                     !.graphs[g].consumers = TRUE]
  /\ output' = entity.id
  /\ UNCHANGED <<outside, calls, ids, built>>

-----------------------------------------------------------------------------
(* What happens outside of the extension.                                  *)

Event ==
  /\ events < MaxEvents
  /\ events' = events + 1
  /\ built' = FALSE
  /\ UNCHANGED <<output, ids>>

\* A source is dropped and created anew; the contract of a graph names what the
\* graph reads.
ReplaceSource(s) ==
  /\ Event
  /\ source' = [source EXCEPT ![s] = @ + 1]
  /\ relations' = [m \in DOMAIN relations |->
       IF s \in DOMAIN relations[m].reads THEN [relations[m] EXCEPT !.drifted = TRUE]
       ELSE relations[m]]
  /\ UNCHANGED <<entity, role, compiler, calls>>

\* The role is dropped and created anew, once what it owns has another owner.
ReplaceRole ==
  /\ Event
  /\ role' = role + 1
  /\ relations' = [m \in DOMAIN relations |-> [relations[m] EXCEPT !.owner = role + 1]]
  /\ UNCHANGED <<entity, source, compiler, calls>>

\* The library is replaced by one with another compiler.
UpgradeCompiler ==
  /\ Event
  /\ compiler' = compiler + 1
  /\ UNCHANGED <<entity, relations, role, source, calls>>

\* A graph relation is dropped, or gets another contract.
LoseMember(m) ==
  /\ Event
  /\ relations' = [n \in DOMAIN relations \ {m} |-> relations[n]]
  /\ UNCHANGED <<entity, role, source, compiler, calls>>
Drift(m) ==
  /\ Event
  /\ relations' = [relations EXCEPT ![m].drifted = TRUE]
  /\ UNCHANGED <<entity, role, source, compiler, calls>>

\* A logical dump is restored: the bindings to roles and sources are not in it,
\* and graph relations come back as plain tables.  Every OID is new.
Restore ==
  /\ Event /\ Exists
  /\ role' = role + 1
  /\ source' = [s \in Sources |-> source[s] + 1]
  /\ entity' = [entity EXCEPT !.role = 0, !.bound = [s \in DOMAIN @ |-> 0]]
  /\ relations' = [m \in DOMAIN relations |->
       [relations[m] EXCEPT !.oid = @ + 1, !.owner = role + 1, !.registered = FALSE]]
  /\ calls' = [c \in Clients |-> Idle]
  /\ UNCHANGED compiler

-----------------------------------------------------------------------------
Init ==
  /\ entity = None /\ relations = [m \in {} |-> 0] /\ output = 0
  /\ role = 1 /\ source = [s \in Sources |-> 1] /\ compiler = 1
  /\ calls = [c \in Clients |-> Idle]
  /\ ids = 0 /\ events = 0 /\ built = FALSE

Next ==
  \/ \E c \in Clients :
       \/ \E d \in Definitions : Prepare(c, d)
       \/ Persist(c) \/ PrepareRebind(c) \/ Rebind(c) \/ Fail(c)
  \/ Drop
  \/ Refresh
  \/ \E s \in Sources : ReplaceSource(s)
  \/ ReplaceRole \/ UpgradeCompiler \/ Restore
  \/ \E m \in DOMAIN relations : LoseMember(m) \/ Drift(m)

Spec == Init /\ [][Next]_vars

-----------------------------------------------------------------------------
(* Properties.                                                             *)

Versions == 1 .. MaxVersion
Oids == 1 .. 1 + MaxEvents

EntityType(e) ==
  /\ e.id = ids /\ e.role \in {0} \cup Oids
  /\ e.definitions \in Seq(Definitions) /\ Len(e.definitions) \in Versions
  /\ DOMAIN e.bound \subseteq Sources /\ \A s \in DOMAIN e.bound : e.bound[s] \in {0} \cup Oids
  /\ \A a \in DOMAIN e.artifacts :
       /\ e.artifacts[a].version \in DOMAIN e.definitions
       /\ e.artifacts[a].definition = e.definitions[e.artifacts[a].version]
  /\ \A g \in DOMAIN e.graphs :
       /\ e.graphs[g].artifact \in DOMAIN e.artifacts
       /\ e.graphs[g].version = e.artifacts[e.graphs[g].artifact].version

\* The type of every variable; a graph is of an artifact of its version, an
\* artifact of a version is compiled from that version's definition, and every
\* version has its graph (persist, install_graph).
TypeOK ==
  /\ ids \in 0 .. MaxEntity /\ events \in 0 .. MaxEvents /\ built \in BOOLEAN
  /\ role \in Oids /\ compiler \in Oids /\ source \in [Sources -> Oids]
  /\ Exists => EntityType(entity) /\ \A v \in DOMAIN entity.definitions : ArtifactOf(entity, v) # 0

\* What is in mdm_graph and mdm_out belongs to the entity that has the name:
\* a drop leaves no relation and no table behind, be they restored as plain
\* tables, replaced or of an obsolete generation, so that the name can be used
\* again.
NothingOrphaned ==
  /\ \A m \in DOMAIN relations : Exists /\ m[1] = entity.id /\ m[2] \in DOMAIN entity.graphs
  /\ output # 0 => Exists /\ output = entity.id

\* The graphs of the desired version were installed for the role that has the
\* name now, and the golden fields only grow.
Regular ==
  /\ \A g \in DOMAIN entity.graphs :
       entity.graphs[g].version = Version => entity.graphs[g].role = role
  /\ AppendOnly(entity.columns, FieldsOf(Definition))

\* After a create or recompile that succeeds, with the role, the sources and the
\* library as they were, a refresh is not refused, whatever was wrong with the
\* graphs before; for definitions that map every retained source and only append
\* golden fields, and if the role was not replaced after the graph was made.
UsableWhenBuilt ==
  built /\ DOMAIN entity.bound = SourcesOf(Definition) /\ Regular => CanRefresh

\* A refresh publishes from a graph that was made of the desired definition and
\* reads the very relations that have the names of its sources, which a create
\* or a rebind approved; and for the role that is bound.  Whatever is replaced,
\* lost, restored or stored by a call that read something older: it is refused.
PublishesApproved ==
  [][Refresh =>
       LET g == GraphOfContext
           now == [s \in SourcesOf(Definition) |-> source[s]]
       IN  /\ entity.artifacts[entity.graphs[g].artifact].definition = Definition
           /\ relations[Member(g)].reads = now
           /\ \A s \in SourcesOf(Definition) : entity.bound[s] = now[s]
           /\ entity.role = role /\ relations[Member(g)].owner = role]_vars

\* What a create accepted can be refreshed, also when the definition no longer
\* maps a source of an earlier one.
CreatedCanRefresh == built /\ Regular => CanRefresh

=============================================================================
