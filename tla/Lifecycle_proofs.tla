-------------------------- MODULE Lifecycle_proofs --------------------------
(***************************************************************************)
(* Proofs about Lifecycle for every set of clients, sources, definitions   *)
(* and any number of events: the types, that a drop leaves nothing behind, *)
(* that a refresh publishes only what a create or a rebind approved, and   *)
(* that what a create accepts can be refreshed.                            *)
(***************************************************************************)
EXTENDS Lifecycle, FiniteSetTheorems, SequenceTheorems, TLAPS

\* Sources with the OID that is bound to each; 0 after a restore.
Bindings == UNION {[S -> {0} \cup Oids] : S \in SUBSET Sources}

GraphRows == [version : Nat, artifact : Nat, role : Oids, oid : Nat, consumers : BOOLEAN]
ArtifactRows == [version : Nat, definition : Definitions, compiler : Oids]
EntityRows ==
  [id : Nat, role : {0} \cup Oids, definitions : Seq(Definitions), bound : Bindings,
   artifacts : Seq(ArtifactRows), graphs : Seq(GraphRows), columns : Seq(STRING)]
RelationRows ==
  [oid : Nat, owner : Oids, registered : BOOLEAN, drifted : BOOLEAN, granted : BOOLEAN,
   reads : Bindings]
CreateCalls ==
  [kind : {"create"}, id : Nat, version : Nat, definition : Definitions, compiler : Oids,
   role : Oids, sources : Bindings]
RebindCalls ==
  [kind : {"rebind"}, id : Nat, version : Nat, role : Oids, sources : Bindings]

\* An artifact of a version is compiled from its definition, a graph is of an
\* artifact of its version.
Lineage(e) ==
  /\ \A a \in DOMAIN e.artifacts :
       /\ e.artifacts[a].version \in DOMAIN e.definitions
       /\ e.artifacts[a].definition = e.definitions[e.artifacts[a].version]
  /\ \A g \in DOMAIN e.graphs :
       /\ e.graphs[g].artifact \in DOMAIN e.artifacts
       /\ e.graphs[g].version = e.artifacts[e.graphs[g].artifact].version

\* The last artifact and the last graph of a version, without a choice.
IsLastArtifact(e, v, a) ==
  /\ a \in DOMAIN e.artifacts /\ e.artifacts[a].version = v
  /\ \A b \in DOMAIN e.artifacts : e.artifacts[b].version = v => b <= a
IsLastGraph(e, v, g) ==
  /\ g \in DOMAIN e.graphs /\ e.graphs[g].version = v
  /\ \A h \in DOMAIN e.graphs : e.graphs[h].version = v => h <= g

\* The last graph of a version is of its last artifact.
Covered(e, v) ==
  \E a \in DOMAIN e.artifacts, g \in DOMAIN e.graphs :
    IsLastArtifact(e, v, a) /\ IsLastGraph(e, v, g) /\ e.graphs[g].artifact = a

\* What every row of an entity satisfies.
EntityOk(e) ==
  /\ e \in EntityRows /\ e.id # 0 /\ Len(e.definitions) \in Versions
  /\ Lineage(e)
  /\ SourcesOf(e.definitions[Len(e.definitions)]) \subseteq DOMAIN e.bound

\* What a graph relation is: of a generation of the entity, owned by the role,
\* with the recorded OID while it is registered, and reading what the sources of
\* its definition name while its contract is the installed one.
RelationOk(e, m, rel, r, src) ==
  /\ rel \in RelationRows
  /\ rel.owner = r
  /\ \E g \in DOMAIN e.graphs :
       /\ m = <<e.id, g>>
       /\ rel.registered => rel.oid = e.graphs[g].oid
       /\ DOMAIN rel.reads = SourcesOf(e.definitions[e.graphs[g].version])
       /\ rel.registered /\ ~rel.drifted => \A s \in DOMAIN rel.reads : rel.reads[s] = src[s]

RelationsOk(e, rels, r, src) ==
  /\ rels = [m \in DOMAIN rels |-> rels[m]]
  /\ \A m \in DOMAIN rels : RelationOk(e, m, rels[m], r, src)

CallOk(call) ==
  /\ call \in {Idle} \cup CreateCalls \cup RebindCalls
  /\ call.kind = "create" =>
       /\ DOMAIN call.sources = SourcesOf(call.definition)
       /\ \A s \in DOMAIN call.sources : call.sources[s] \in Oids

\* What a successful create leaves, until something outside changes.
BuiltOk(e, rels, r, src) ==
  /\ e.role = r
  /\ \E g \in DOMAIN e.graphs :
       /\ IsLastGraph(e, Len(e.definitions), g)
       /\ <<e.id, g>> \in DOMAIN rels
       /\ rels[<<e.id, g>>].registered /\ ~rels[<<e.id, g>>].drifted
  /\ \A s \in SourcesOf(e.definitions[Len(e.definitions)]) : e.bound[s] = src[s]

OutsideOk ==
  /\ ids \in 0 .. MaxEntity /\ events \in 0 .. MaxEvents /\ built \in BOOLEAN
  /\ role \in 1 .. 1 + events /\ compiler \in 1 .. 1 + events
  /\ source \in [Sources -> 1 .. 1 + events]

CallsOk ==
  /\ calls = [c \in Clients |-> calls[c]]
  /\ \A c \in Clients : CallOk(calls[c])

RowOk ==
  IF Exists
  THEN /\ EntityOk(entity) /\ entity.id = ids
       /\ \A v \in DOMAIN entity.definitions : Covered(entity, v)
       /\ RelationsOk(entity, relations, role, source)
       /\ output \in {0, ids}
  ELSE relations = [m \in {} |-> 0] /\ output = 0

\* The inductive invariant.
IInv ==
  /\ OutsideOk /\ CallsOk /\ RowOk
  /\ built => Exists /\ BuiltOk(entity, relations, role, source)

-----------------------------------------------------------------------------
(* Facts about the definitions.                                            *)

LEMMA LastOfIs ==
  ASSUME NEW S \in SUBSET Int, NEW n \in S, \A m \in S : m <= n
  PROVE  LastOf(S) = n
<1>1. ASSUME NEW k \in S, \A m \in S : m <= k PROVE k = n
  <2>1. k <= n /\ n <= k /\ k \in Int /\ n \in Int
    BY <1>1
  <2> QED BY <2>1
<1> QED BY <1>1 DEF LastOf

LEMMA BindingsHave ==
  ASSUME NEW f \in Bindings
  PROVE  /\ DOMAIN f \subseteq Sources
         /\ f = [s \in DOMAIN f |-> f[s]]
         /\ \A s \in DOMAIN f : f[s] \in {0} \cup Oids
  BY DEF Bindings

LEMMA BindingsMade ==
  ASSUME NEW S \in SUBSET Sources, NEW f \in [S -> {0} \cup Oids]
  PROVE  f \in Bindings
  BY DEF Bindings

LEMMA OidsGrow ==
  ASSUME OutsideOk
  PROVE  role \in Oids /\ compiler \in Oids /\ source \in [Sources -> Oids]
  BY LifecycleAssumption DEF OutsideOk, Oids

LEMMA SeqOfFunction ==
  ASSUME NEW S, NEW n \in Nat, NEW f \in [1 .. n -> S]
  PROVE  f \in Seq(S)
<1>1. f \in UNION {[1 .. k -> S] : k \in Nat}
  OBVIOUS
<1>2. Seq(S) = UNION {[1 .. k -> S] : k \in Nat}
  BY SeqDef, Zenon
<1> QED BY <1>1, <1>2, Zenon

\* The choices that the code makes are the last artifact and the last graph.
LEMMA ArtifactIsLast ==
  ASSUME NEW e \in EntityRows, NEW v, NEW a, IsLastArtifact(e, v, a)
  PROVE  ArtifactOf(e, v) = a
<1> DEFINE S == {b \in DOMAIN e.artifacts : e.artifacts[b].version = v}
<1>1. S \in SUBSET Int /\ a \in S /\ \A m \in S : m <= a
  BY DEF IsLastArtifact, EntityRows
<1>2. LastOf(S) = a
  BY <1>1, LastOfIs
<1> QED BY <1>1, <1>2 DEF ArtifactOf

LEMMA EntityIsNotNone ==
  ASSUME NEW e \in EntityRows, e.id # 0
  PROVE  e # None
  BY DEF EntityRows, None
-----------------------------------------------------------------------------
(* install_graph.                                                          *)

\* What the callers of install_graph hand over: an entity whose other versions
\* are covered, and the sources of the version that gets a graph.
Installable(e, call, v) ==
  /\ EntityOk(e) /\ v \in DOMAIN e.definitions
  /\ \E a \in DOMAIN e.artifacts : IsLastArtifact(e, v, a)
  /\ \A w \in DOMAIN e.definitions \ {v} : Covered(e, w)
  /\ RelationsOk(e, relations, role, source)
  /\ DOMAIN call.sources = SourcesOf(e.definitions[v])

\* What becomes of the row of the entity, and of the new graph.
LEMMA InstalledEntity ==
  ASSUME OutsideOk, NEW e, NEW call, NEW v, Installable(e, call, v), Installed(e, call, v)
  PROVE  LET g == Len(e.graphs) + 1
         IN  /\ entity' \in EntityRows
             /\ entity'.id = e.id /\ entity'.role = e.role /\ entity'.bound = e.bound
             /\ entity'.definitions = e.definitions /\ entity'.artifacts = e.artifacts
             /\ DOMAIN e.graphs = 1 .. Len(e.graphs)
             /\ DOMAIN entity'.graphs = 1 .. g
             /\ \A h \in DOMAIN e.graphs : entity'.graphs[h] = e.graphs[h]
             /\ entity'.graphs[g].version = v /\ entity'.graphs[g].oid = 1
             /\ IsLastArtifact(e, v, entity'.graphs[g].artifact)
<1> DEFINE g == Len(e.graphs) + 1
           row == [version |-> v, artifact |-> ArtifactOf(e, v), role |-> role, oid |-> 1,
                   consumers |-> TRUE]
<1>1. e \in EntityRows /\ role \in Oids
  BY OidsGrow DEF Installable, EntityOk
<1>2. PICK a \in DOMAIN e.artifacts : IsLastArtifact(e, v, a)
  BY DEF Installable
<1>3. ArtifactOf(e, v) = a
  BY <1>1, <1>2, ArtifactIsLast
<1>4. v \in Nat /\ a \in Nat
  BY <1>1, <1>2 DEF Installable, EntityRows
<1>5. row \in GraphRows
  BY <1>1, <1>3, <1>4 DEF GraphRows
<1>6. entity' = [e EXCEPT !.graphs = Append(@, row)]
  BY DEF Installed
<1>7. e.graphs \in Seq(GraphRows)
  BY <1>1 DEF EntityRows
<1>8. /\ Append(e.graphs, row) \in Seq(GraphRows)
      /\ DOMAIN e.graphs = 1 .. Len(e.graphs) /\ Len(e.graphs) \in Nat
      /\ DOMAIN Append(e.graphs, row) = 1 .. g
      /\ \A h \in DOMAIN e.graphs : Append(e.graphs, row)[h] = e.graphs[h]
      /\ Append(e.graphs, row)[g] = row
  BY <1>5, <1>7
<1>9. /\ entity' \in EntityRows
      /\ entity'.id = e.id /\ entity'.role = e.role /\ entity'.bound = e.bound
      /\ entity'.definitions = e.definitions /\ entity'.artifacts = e.artifacts
      /\ entity'.graphs = Append(e.graphs, row)
  BY <1>1, <1>6, <1>8 DEF EntityRows
<1> QED BY <1>2, <1>3, <1>8, <1>9

\* install_graph keeps what RowOk says.
LEMMA InstalledOk ==
  ASSUME OutsideOk, NEW e, NEW call \in CreateCalls, NEW v,
         Installable(e, call, v), Installed(e, call, v), role' = role, source' = source
  PROVE  /\ EntityOk(entity') /\ entity'.id = e.id /\ entity'.bound = e.bound
         /\ entity'.definitions = e.definitions /\ entity'.role = e.role
         /\ \A w \in DOMAIN e.definitions : Covered(entity', w)
         /\ RelationsOk(entity', relations', role', source')
         /\ \E g \in DOMAIN entity'.graphs :
              /\ IsLastGraph(entity', v, g) /\ <<e.id, g>> \in DOMAIN relations'
              /\ relations'[<<e.id, g>>].registered /\ ~relations'[<<e.id, g>>].drifted
<1> DEFINE g == Len(e.graphs) + 1
           new == [oid |-> 1, owner |-> role, registered |-> TRUE, drifted |-> FALSE,
                   granted |-> FALSE, reads |-> [s \in DOMAIN call.sources |-> source[s]]]
<1>1. /\ entity' \in EntityRows
      /\ entity'.id = e.id /\ entity'.role = e.role /\ entity'.bound = e.bound
      /\ entity'.definitions = e.definitions /\ entity'.artifacts = e.artifacts
      /\ DOMAIN e.graphs = 1 .. Len(e.graphs)
      /\ DOMAIN entity'.graphs = 1 .. g
      /\ \A h \in DOMAIN e.graphs : entity'.graphs[h] = e.graphs[h]
      /\ entity'.graphs[g].version = v /\ entity'.graphs[g].oid = 1
      /\ IsLastArtifact(e, v, entity'.graphs[g].artifact)
  BY InstalledEntity
<1>2. EntityOk(e) /\ e \in EntityRows /\ Len(e.graphs) \in Nat
  BY DEF Installable, EntityOk, EntityRows
<1>3. DOMAIN entity'.graphs = DOMAIN e.graphs \cup {g} /\ g \notin DOMAIN e.graphs
      /\ \A h \in DOMAIN e.graphs : h <= g
  BY <1>1, <1>2
<1>4. EntityOk(entity')
  <2>1. Lineage(entity')
    BY <1>1, <1>2, <1>3 DEF EntityOk, Lineage, IsLastArtifact
  <2> QED BY <1>1, <1>2, <2>1 DEF EntityOk
<1>5. IsLastGraph(entity', v, g)
  BY <1>1, <1>2, <1>3 DEF IsLastGraph
<1>6. ASSUME NEW w \in DOMAIN e.definitions PROVE Covered(entity', w)
  <2>1. CASE w = v
    BY <1>1, <1>3, <1>5, <2>1 DEF Covered, IsLastArtifact
  <2>2. CASE w # v
    <3>1. PICK a \in DOMAIN e.artifacts, h \in DOMAIN e.graphs :
            IsLastArtifact(e, w, a) /\ IsLastGraph(e, w, h) /\ e.graphs[h].artifact = a
      BY <2>2 DEF Installable, Covered
    <3>2. IsLastGraph(entity', w, h) /\ entity'.graphs[h].artifact = a
      BY <1>1, <1>3, <2>2, <3>1 DEF IsLastGraph
    <3>3. IsLastArtifact(entity', w, a)
      BY <1>1, <3>1 DEF IsLastArtifact
    <3> QED BY <1>1, <1>3, <3>1, <3>2, <3>3 DEF Covered
  <2> QED BY <2>1, <2>2
<1>7. relations' = [m \in DOMAIN relations \cup {<<e.id, g>>} |->
                      IF m = <<e.id, g>> THEN new ELSE relations[m]]
  BY DEF Installed
<1>8. RelationOk(entity', <<e.id, g>>, new, role, source)
  <2>1. call.sources \in Bindings
    BY DEF CreateCalls
  <2>2. DOMAIN new.reads \in SUBSET Sources
        /\ new.reads \in [DOMAIN new.reads -> {0} \cup Oids]
    BY <2>1, BindingsHave, OidsGrow
  <2>3. new.reads \in Bindings
    BY <2>2, BindingsMade
  <2>4. new \in RelationRows
    BY <2>3, OidsGrow DEF RelationRows
  <2>5. DOMAIN new.reads = SourcesOf(entity'.definitions[entity'.graphs[g].version])
    BY <1>1 DEF Installable
  <2> QED BY <1>1, <1>3, <2>4, <2>5 DEF RelationOk
<1>9. ASSUME NEW m \in DOMAIN relations
      PROVE  RelationOk(entity', m, relations[m], role, source)
  BY <1>1, <1>3 DEF Installable, RelationsOk, RelationOk
<1>10. RelationsOk(entity', relations', role', source')
  BY <1>7, <1>8, <1>9 DEF RelationsOk
<1> QED BY <1>1, <1>3, <1>4, <1>5, <1>6, <1>7, <1>10
-----------------------------------------------------------------------------
(* The invariant is inductive: create and recompile.                       *)

LEMMA CallGoes ==
  ASSUME CallsOk, NEW c, NEW call, CallOk(call), calls' = [calls EXCEPT ![c] = call]
  PROVE  CallsOk'
  BY DEF CallsOk

LEMMA IdleOk == CallOk(Idle)
  BY DEF CallOk, Idle

LEMMA InitIInv == Init => IInv
<1> SUFFICES ASSUME Init PROVE IInv
  OBVIOUS
<1>1. OutsideOk
  <2>1. MaxEntity \in Nat /\ MaxEvents \in Nat
    BY LifecycleAssumption
  <2>2. 0 \in 0 .. MaxEntity /\ 0 \in 0 .. MaxEvents /\ 1 \in 1 .. 1 + 0
    BY <2>1
  <2> QED BY <2>2 DEF Init, OutsideOk
<1>2. CallsOk
  BY IdleOk DEF Init, CallsOk
<1> QED BY <1>1, <1>2 DEF Init, IInv, RowOk, Exists

LEMMA PrepareIInv ==
  ASSUME IInv, NEW c \in Clients, NEW d \in Definitions, Prepare(c, d)
  PROVE  IInv'
<1> DEFINE call == [kind |-> "create", id |-> entity.id, version |-> SeenVersion,
                    definition |-> d, compiler |-> compiler, role |-> role,
                    sources |-> [s \in SourcesOf(d) |-> source[s]]]
<1>1. entity.id \in Nat /\ SeenVersion \in Nat
  <2>1. CASE Exists
    BY <2>1 DEF IInv, RowOk, EntityOk, EntityRows, SeenVersion, Version
  <2>2. CASE ~Exists
    BY <2>2 DEF Exists, None, SeenVersion
  <2> QED BY <2>1, <2>2
<1>2. role \in Oids /\ compiler \in Oids /\ source \in [Sources -> Oids]
  BY OidsGrow DEF IInv
<1>3. SourcesOf(d) \in SUBSET Sources
  BY LifecycleAssumption
<1>4. call.sources \in [SourcesOf(d) -> {0} \cup Oids]
  BY <1>2, <1>3
<1>5. call.sources \in Bindings
  BY <1>3, <1>4, BindingsMade
<1>6. call \in CreateCalls
  BY <1>1, <1>2, <1>5 DEF CreateCalls
<1>7. CallOk(call)
  BY <1>2, <1>3, <1>6 DEF CallOk
<1>8. CallsOk'
  BY <1>7, CallGoes DEF Prepare, IInv
<1> QED BY <1>8 DEF Prepare, IInv, OutsideOk, RowOk, Exists, outside

LEMMA FailIInv ==
  ASSUME IInv, NEW c \in Clients, Fail(c)
  PROVE  IInv'
<1>1. CallsOk'
  BY IdleOk, CallGoes DEF Fail, IInv
<1> QED BY <1>1 DEF Fail, IInv, OutsideOk, RowOk, Exists, outside

\* The call of a client that creates.
LEMMA CreateCall ==
  ASSUME CallsOk, NEW c \in Clients, calls[c].kind = "create"
  PROVE  /\ calls[c] \in CreateCalls
         /\ calls[c].sources \in Bindings /\ calls[c].definition \in Definitions
         /\ calls[c].compiler \in Oids /\ calls[c].role \in Oids
         /\ DOMAIN calls[c].sources = SourcesOf(calls[c].definition)
         /\ \A s \in DOMAIN calls[c].sources : calls[c].sources[s] \in Oids
<1>1. CallOk(calls[c])
  BY DEF CallsOk
<1>2. calls[c] \in CreateCalls
  BY <1>1 DEF CallOk, Idle, RebindCalls
<1> QED BY <1>1, <1>2 DEF CallOk, CreateCalls

LEMMA NewArtifactType ==
  ASSUME NEW call \in CreateCalls, NEW v \in Nat
  PROVE  NewArtifact(call, v) \in ArtifactRows
  BY DEF CreateCalls, NewArtifact, ArtifactRows

\* What Persist hands to install_graph, in its three cases.
LEMMA NewInstallable ==
  ASSUME IInv, NEW c \in Clients, calls[c].kind = "create", CreateNew(calls[c])
  PROVE  Installable(NewEntity(calls[c]), calls[c], 1)
<1> DEFINE call == calls[c]
           e == NewEntity(call)
<1>1. /\ call \in CreateCalls /\ call.sources \in Bindings /\ call.definition \in Definitions
      /\ DOMAIN call.sources = SourcesOf(call.definition)
  BY CreateCall DEF IInv
<1>2. role \in Oids /\ ids \in Nat /\ 1 \in Versions
  <2>1. ids \in Nat /\ ids < MaxEntity
    BY LifecycleAssumption DEF IInv, OutsideOk, CreateNew
  <2>2. 1 \in Versions
    BY LifecycleAssumption DEF Versions
  <2> QED BY <2>1, <2>2, OidsGrow DEF IInv
<1>3. /\ e.id = ids + 1 /\ e.role = role /\ e.definitions = <<call.definition>>
      /\ e.bound = call.sources /\ e.artifacts = <<NewArtifact(call, 1)>>
      /\ e.graphs = <<>> /\ e.columns = <<>>
  BY DEF NewEntity
<1>4. NewArtifact(call, 1) \in ArtifactRows
  BY <1>1, NewArtifactType
<1>5. <<call.definition>> \in Seq(Definitions) /\ <<NewArtifact(call, 1)>> \in Seq(ArtifactRows)
  BY <1>1, <1>4
<1>6. e \in EntityRows
  BY <1>1, <1>2, <1>5 DEF NewEntity, EntityRows
<1>7. /\ Len(e.definitions) = 1 /\ DOMAIN e.definitions = {1} /\ e.definitions[1] = call.definition
      /\ DOMAIN e.artifacts = {1} /\ e.artifacts[1] = NewArtifact(call, 1)
      /\ DOMAIN e.graphs = {}
  BY <1>3
<1>8. Lineage(e)
  BY <1>7 DEF Lineage, NewArtifact
<1>9. EntityOk(e)
  BY <1>1, <1>2, <1>3, <1>6, <1>7, <1>8 DEF EntityOk
<1>10. relations = [m \in {} |-> 0]
  BY DEF CreateNew, IInv, RowOk
<1>11. RelationsOk(e, relations, role, source)
  BY <1>10 DEF RelationsOk
<1>12. IsLastArtifact(e, 1, 1)
  BY <1>7 DEF IsLastArtifact, NewArtifact
<1> QED BY <1>1, <1>7, <1>9, <1>11, <1>12 DEF Installable

\* What is added to the bindings keeps their type, and the known ones.
LEMMA SourcesAdded ==
  ASSUME NEW known \in Bindings, NEW call, call.sources \in Bindings, BindingsHold(call, known)
  PROVE  /\ WithSources(known, call) \in Bindings
         /\ DOMAIN WithSources(known, call) = DOMAIN known \cup DOMAIN call.sources
         /\ \A s \in DOMAIN call.sources : WithSources(known, call)[s] = call.sources[s]
<1> DEFINE all == DOMAIN known \cup DOMAIN call.sources
<1>1. all \in SUBSET Sources
  BY BindingsHave
<1>2. WithSources(known, call) \in [all -> {0} \cup Oids]
  BY BindingsHave DEF WithSources
<1>3. \A s \in DOMAIN call.sources : WithSources(known, call)[s] = call.sources[s]
  BY DEF WithSources, BindingsHold
<1> QED BY <1>1, <1>2, <1>3, BindingsMade

\* The row of an entity that exists.
LEMMA RowTypes ==
  ASSUME IInv, Exists
  PROVE  /\ entity \in EntityRows /\ entity.id = ids /\ ids # 0 /\ EntityOk(entity)
         /\ entity.definitions \in Seq(Definitions) /\ Version \in Versions
         /\ DOMAIN entity.definitions = 1 .. Version /\ Definition \in Definitions
         /\ entity.artifacts \in Seq(ArtifactRows) /\ entity.graphs \in Seq(GraphRows)
         /\ entity.bound \in Bindings /\ SourcesOf(Definition) \subseteq DOMAIN entity.bound
         /\ RelationsOk(entity, relations, role, source)
<1>1. EntityOk(entity) /\ entity \in EntityRows /\ entity.id = ids /\ ids # 0
  BY DEF IInv, RowOk, EntityOk
<1>2. entity.definitions \in Seq(Definitions) /\ Version \in Versions
  BY <1>1 DEF EntityOk, EntityRows, Version
<1>3. Versions \subseteq Nat \ {0}
  BY DEF Versions
<1>4. DOMAIN entity.definitions = 1 .. Version /\ Definition \in Definitions
  BY <1>2, <1>3 DEF Version, Definition
<1> QED BY <1>1, <1>2, <1>4 DEF EntityOk, EntityRows, Version, Definition, IInv, RowOk

LEMMA VersionInstallable ==
  ASSUME IInv, NEW c \in Clients, calls[c].kind = "create", CreateVersion(calls[c])
  PROVE  LET call == calls[c]
             e == [entity EXCEPT !.definitions = Append(@, call.definition),
                                 !.bound = WithSources(@, call),
                                 !.artifacts = Append(@, NewArtifact(call, Version + 1))]
         IN  /\ Installable(e, call, Version + 1)
             /\ e.id = entity.id /\ e.role = entity.role
             /\ e.definitions = Append(entity.definitions, call.definition)
             /\ e.bound = WithSources(entity.bound, call)
<1> DEFINE call == calls[c]
           v == Version + 1
           e == [entity EXCEPT !.definitions = Append(@, call.definition),
                               !.bound = WithSources(@, call),
                               !.artifacts = Append(@, NewArtifact(call, v))]
           n == Len(entity.artifacts) + 1
<1>1. /\ call \in CreateCalls /\ call.sources \in Bindings /\ call.definition \in Definitions
      /\ DOMAIN call.sources = SourcesOf(call.definition)
  BY CreateCall DEF IInv
<1>2. Exists /\ Version < MaxVersion /\ BindingsHold(call, entity.bound)
  BY DEF CreateVersion, Admitted
<1>3. /\ entity \in EntityRows /\ entity.id # 0 /\ EntityOk(entity)
      /\ entity.definitions \in Seq(Definitions) /\ Version \in Versions
      /\ DOMAIN entity.definitions = 1 .. Version
      /\ entity.artifacts \in Seq(ArtifactRows) /\ entity.bound \in Bindings
      /\ RelationsOk(entity, relations, role, source)
  BY <1>2, RowTypes
<1>4. v \in Versions /\ Version \in Nat /\ v \in Nat
  BY <1>2, <1>3, LifecycleAssumption DEF Versions
<1>5. /\ WithSources(entity.bound, call) \in Bindings
      /\ DOMAIN WithSources(entity.bound, call) = DOMAIN entity.bound \cup DOMAIN call.sources
  BY <1>1, <1>2, <1>3, SourcesAdded
<1>6. NewArtifact(call, v) \in ArtifactRows
  BY <1>1, <1>4, NewArtifactType
<1>7. /\ Append(entity.definitions, call.definition) \in Seq(Definitions)
      /\ Len(Append(entity.definitions, call.definition)) = v
      /\ DOMAIN Append(entity.definitions, call.definition) = 1 .. v
      /\ \A w \in 1 .. Version :
           Append(entity.definitions, call.definition)[w] = entity.definitions[w]
      /\ Append(entity.definitions, call.definition)[v] = call.definition
  BY <1>1, <1>3, <1>4 DEF Version
<1>8. /\ Append(entity.artifacts, NewArtifact(call, v)) \in Seq(ArtifactRows)
      /\ DOMAIN entity.artifacts = 1 .. Len(entity.artifacts)
      /\ Len(entity.artifacts) \in Nat
      /\ DOMAIN Append(entity.artifacts, NewArtifact(call, v)) = 1 .. n
      /\ \A a \in DOMAIN entity.artifacts :
           Append(entity.artifacts, NewArtifact(call, v))[a] = entity.artifacts[a]
      /\ Append(entity.artifacts, NewArtifact(call, v))[n] = NewArtifact(call, v)
  BY <1>3, <1>6
<1>9. /\ e \in EntityRows /\ e.id = entity.id /\ e.role = entity.role
      /\ e.graphs = entity.graphs
      /\ e.definitions = Append(entity.definitions, call.definition)
      /\ e.bound = WithSources(entity.bound, call)
      /\ e.artifacts = Append(entity.artifacts, NewArtifact(call, v))
  BY <1>3, <1>5, <1>7, <1>8 DEF EntityRows
<1>10. NewArtifact(call, v).version = v /\ NewArtifact(call, v).definition = call.definition
  BY DEF NewArtifact
<1>11. DOMAIN e.artifacts = DOMAIN entity.artifacts \cup {n} /\ n \notin DOMAIN entity.artifacts
       /\ \A a \in DOMAIN entity.artifacts : a <= n
  BY <1>8, <1>9
<1>12. DOMAIN e.definitions = DOMAIN entity.definitions \cup {v}
       /\ v \notin DOMAIN entity.definitions
  BY <1>3, <1>4, <1>7, <1>9
<1>13. /\ \A a \in DOMAIN entity.artifacts : e.artifacts[a] = entity.artifacts[a]
       /\ e.artifacts[n] = NewArtifact(call, v)
       /\ \A w \in DOMAIN entity.definitions : e.definitions[w] = entity.definitions[w]
       /\ e.definitions[v] = call.definition
  BY <1>3, <1>7, <1>8, <1>9
<1>14. Lineage(entity)
  BY <1>3 DEF EntityOk
<1>15. Lineage(e)
  <2>1. ASSUME NEW a \in DOMAIN e.artifacts
        PROVE  /\ e.artifacts[a].version \in DOMAIN e.definitions
               /\ e.artifacts[a].definition = e.definitions[e.artifacts[a].version]
    BY <1>10, <1>11, <1>12, <1>13, <1>14 DEF Lineage
  <2>2. ASSUME NEW g \in DOMAIN e.graphs
        PROVE  /\ e.graphs[g].artifact \in DOMAIN e.artifacts
               /\ e.graphs[g].version = e.artifacts[e.graphs[g].artifact].version
    BY <1>9, <1>11, <1>13, <1>14 DEF Lineage
  <2> QED BY <2>1, <2>2 DEF Lineage
<1>16. EntityOk(e)
  BY <1>1, <1>3, <1>4, <1>5, <1>7, <1>9, <1>13, <1>15 DEF EntityOk
<1>17. IsLastArtifact(e, v, n)
  BY <1>8, <1>10, <1>11, <1>13 DEF IsLastArtifact
<1>18. ASSUME NEW w \in DOMAIN e.definitions \ {v} PROVE Covered(e, w)
  <2>1. PICK a \in DOMAIN entity.artifacts, g \in DOMAIN entity.graphs :
          IsLastArtifact(entity, w, a) /\ IsLastGraph(entity, w, g) /\ entity.graphs[g].artifact = a
    BY <1>2, <1>12 DEF IInv, RowOk, Covered
  <2>2. IsLastArtifact(e, w, a)
    BY <1>10, <1>11, <1>13, <2>1 DEF IsLastArtifact
  <2>3. IsLastGraph(e, w, g)
    BY <1>9, <2>1 DEF IsLastGraph
  <2> QED BY <1>9, <1>11, <2>1, <2>2, <2>3 DEF Covered
<1>19. RelationsOk(e, relations, role, source)
  <2>1. ASSUME NEW m \in DOMAIN relations PROVE RelationOk(e, m, relations[m], role, source)
    <3>1. RelationOk(entity, m, relations[m], role, source)
      BY <1>3 DEF RelationsOk
    <3>2. \A g \in DOMAIN entity.graphs : entity.graphs[g].version \in DOMAIN entity.definitions
      BY <1>14 DEF Lineage
    <3>3. PICK g \in DOMAIN entity.graphs :
            /\ m = <<entity.id, g>>
            /\ relations[m].registered => relations[m].oid = entity.graphs[g].oid
            /\ DOMAIN relations[m].reads = SourcesOf(entity.definitions[entity.graphs[g].version])
      BY <3>1 DEF RelationOk
    <3>4. e.definitions[e.graphs[g].version] = entity.definitions[entity.graphs[g].version]
      BY <1>9, <1>13, <3>2
    <3> QED BY <1>9, <3>1, <3>3, <3>4 DEF RelationOk
  <2> QED BY <1>3, <2>1 DEF RelationsOk
<1>20. v \in DOMAIN e.definitions /\ DOMAIN call.sources = SourcesOf(e.definitions[v])
  BY <1>1, <1>12, <1>13
<1> QED BY <1>9, <1>11, <1>16, <1>17, <1>18, <1>19, <1>20 DEF Installable

\* The graph that a create finds fresh is the last one of the version.
LEMMA FreshGraph ==
  ASSUME entity \in EntityRows, NEW v, NEW g, IsLastGraph(entity, v, g), ~Stale(v)
  PROVE  /\ Member(g) \in DOMAIN relations
         /\ relations[Member(g)].registered /\ ~relations[Member(g)].drifted
<1> DEFINE S == {h \in DOMAIN entity.graphs : entity.graphs[h].version = v}
<1>1. S \in SUBSET Int /\ g \in S /\ \A m \in S : m <= g
  BY DEF IsLastGraph, EntityRows
<1>2. LastOf(S) = g
  BY <1>1, LastOfIs
<1>3. LatestGraph(entity, LAMBDA b : b.version = v) = g
  BY <1>1, <1>2 DEF LatestGraph
<1> QED BY <1>3 DEF Stale

\* A version with another artifact, or with none but a graph to replace.
LEMMA AgainInstallable ==
  ASSUME IInv, NEW c \in Clients, calls[c].kind = "create", Exists,
         calls[c].definition = Definition
  PROVE  LET call == calls[c]
             other == NewArtifact(call, Version)
             e == [entity EXCEPT !.artifacts = Append(@, other)]
         IN  /\ Installable(entity, call, Version)
             /\ Installable(e, call, Version)
             /\ e.id = entity.id /\ e.role = entity.role /\ e.bound = entity.bound
             /\ e.definitions = entity.definitions
<1> DEFINE call == calls[c]
           other == NewArtifact(call, Version)
           e == [entity EXCEPT !.artifacts = Append(@, other)]
           n == Len(entity.artifacts) + 1
<1>1. /\ call \in CreateCalls /\ DOMAIN call.sources = SourcesOf(call.definition)
  BY CreateCall DEF IInv
<1>2. /\ entity \in EntityRows /\ EntityOk(entity) /\ Version \in Versions
      /\ DOMAIN entity.definitions = 1 .. Version
      /\ entity.artifacts \in Seq(ArtifactRows)
      /\ RelationsOk(entity, relations, role, source)
  BY RowTypes
<1>3. Version \in Nat /\ Version \in DOMAIN entity.definitions
  BY <1>2 DEF Versions
<1>4. DOMAIN call.sources = SourcesOf(entity.definitions[Version])
  BY <1>1 DEF Definition
<1>5. \A w \in DOMAIN entity.definitions : Covered(entity, w)
  BY DEF IInv, RowOk
<1>6. Installable(entity, call, Version)
  BY <1>2, <1>3, <1>4, <1>5 DEF Installable, Covered
<1>7. other \in ArtifactRows /\ other.version = Version /\ other.definition = Definition
  BY <1>1, <1>3, NewArtifactType DEF NewArtifact
<1>8. /\ Append(entity.artifacts, other) \in Seq(ArtifactRows)
      /\ DOMAIN entity.artifacts = 1 .. Len(entity.artifacts) /\ Len(entity.artifacts) \in Nat
      /\ DOMAIN Append(entity.artifacts, other) = 1 .. n
      /\ \A a \in DOMAIN entity.artifacts :
           Append(entity.artifacts, other)[a] = entity.artifacts[a]
      /\ Append(entity.artifacts, other)[n] = other
  BY <1>2, <1>7
<1>9. /\ e \in EntityRows /\ e.id = entity.id /\ e.role = entity.role
      /\ e.graphs = entity.graphs /\ e.definitions = entity.definitions
      /\ e.bound = entity.bound /\ e.artifacts = Append(entity.artifacts, other)
  BY <1>2, <1>8 DEF EntityRows
<1>10. DOMAIN e.artifacts = DOMAIN entity.artifacts \cup {n} /\ n \notin DOMAIN entity.artifacts
       /\ \A a \in DOMAIN entity.artifacts : a <= n /\ e.artifacts[a] = entity.artifacts[a]
  BY <1>8, <1>9
<1>11. e.artifacts[n] = other
  BY <1>8, <1>9
<1>12. Lineage(entity)
  BY <1>2 DEF EntityOk
<1>13. Lineage(e)
  <2>1. ASSUME NEW a \in DOMAIN e.artifacts
        PROVE  /\ e.artifacts[a].version \in DOMAIN e.definitions
               /\ e.artifacts[a].definition = e.definitions[e.artifacts[a].version]
    BY <1>3, <1>7, <1>9, <1>10, <1>11, <1>12 DEF Lineage, Definition
  <2>2. ASSUME NEW g \in DOMAIN e.graphs
        PROVE  /\ e.graphs[g].artifact \in DOMAIN e.artifacts
               /\ e.graphs[g].version = e.artifacts[e.graphs[g].artifact].version
    BY <1>9, <1>10, <1>12 DEF Lineage
  <2> QED BY <2>1, <2>2 DEF Lineage
<1>14. EntityOk(e)
  BY <1>2, <1>9, <1>13 DEF EntityOk
<1>15. IsLastArtifact(e, Version, n)
  BY <1>7, <1>8, <1>10, <1>11 DEF IsLastArtifact
<1>16. ASSUME NEW w \in DOMAIN e.definitions \ {Version} PROVE Covered(e, w)
  <2>1. PICK a \in DOMAIN entity.artifacts, g \in DOMAIN entity.graphs :
          IsLastArtifact(entity, w, a) /\ IsLastGraph(entity, w, g) /\ entity.graphs[g].artifact = a
    BY <1>5, <1>9 DEF Covered
  <2>2. IsLastArtifact(e, w, a)
    BY <1>7, <1>10, <1>11, <2>1 DEF IsLastArtifact
  <2>3. IsLastGraph(e, w, g)
    BY <1>9, <2>1 DEF IsLastGraph
  <2> QED BY <1>9, <1>10, <2>1, <2>2, <2>3 DEF Covered
<1>17. RelationsOk(e, relations, role, source)
  BY <1>2, <1>9 DEF RelationsOk, RelationOk
<1> QED BY <1>3, <1>4, <1>6, <1>9, <1>10, <1>14, <1>15, <1>16, <1>17 DEF Installable

\* What an installed graph contributes to the invariant.
LEMMA InstalledIInv ==
  ASSUME IInv, NEW c \in Clients, calls[c].kind = "create", NEW e, NEW v,
         Installable(e, calls[c], v), Installed(e, calls[c], v),
         v = Len(e.definitions), e.id = ids', output \in {0, ids'}, ids' \in 0 .. MaxEntity,
         e.role = role,
         \A s \in DOMAIN calls[c].sources : e.bound[s] = calls[c].sources[s],
         built' = (/\ calls[c].compiler = compiler
                   /\ calls[c].sources = [s \in DOMAIN calls[c].sources |-> source[s]]),
         calls' = [calls EXCEPT ![c] = Idle], UNCHANGED <<output, outside>>
  PROVE  IInv'
<1> DEFINE call == calls[c]
<1>1. call \in CreateCalls
  BY CreateCall DEF IInv
<1>2. OutsideOk /\ CallsOk /\ role' = role /\ source' = source
  BY DEF IInv, outside
<1>3. /\ EntityOk(entity') /\ entity'.id = e.id /\ entity'.bound = e.bound
      /\ entity'.definitions = e.definitions /\ entity'.role = e.role
      /\ \A w \in DOMAIN e.definitions : Covered(entity', w)
      /\ RelationsOk(entity', relations', role', source')
      /\ \E g \in DOMAIN entity'.graphs :
           /\ IsLastGraph(entity', v, g) /\ <<e.id, g>> \in DOMAIN relations'
           /\ relations'[<<e.id, g>>].registered /\ ~relations'[<<e.id, g>>].drifted
  BY <1>1, <1>2, InstalledOk
<1>4. Exists'
  BY <1>3, EntityIsNotNone DEF EntityOk, Exists
<1>5. OutsideOk'
  BY <1>2 DEF OutsideOk, outside
<1>6. CallsOk'
  BY <1>2, IdleOk, CallGoes
<1>7. RowOk'
  BY <1>3, <1>4 DEF RowOk
<1>8. ASSUME built' PROVE BuiltOk(entity', relations', role', source')
  <2>1. SourcesOf(e.definitions[v]) = DOMAIN call.sources
    BY DEF Installable
  <2>2. \A s \in DOMAIN call.sources : call.sources[s] = source[s]
    BY <1>8
  <2> QED BY <1>2, <1>3, <2>1, <2>2 DEF BuiltOk
<1> QED BY <1>4, <1>5, <1>6, <1>7, <1>8 DEF IInv

LEMMA PersistIInv ==
  ASSUME IInv, NEW c \in Clients, Persist(c)
  PROVE  IInv'
<1> DEFINE call == calls[c]
<1>1. /\ call.kind = "create" /\ calls' = [calls EXCEPT ![c] = Idle]
      /\ built' = (/\ call.compiler = compiler
                   /\ call.sources = [s \in DOMAIN call.sources |-> source[s]])
      /\ UNCHANGED <<output, outside>>
      /\ CreateNew(call) \/ CreateVersion(call) \/ CreateAgain(call)
  BY DEF Persist
<1>2. DOMAIN call.sources = SourcesOf(call.definition) /\ call.sources \in Bindings
  BY <1>1, CreateCall DEF IInv
<1>3. CASE CreateNew(call)
  <2>1. Installable(NewEntity(call), call, 1) /\ Installed(NewEntity(call), call, 1)
    BY <1>1, <1>3, NewInstallable DEF CreateNew
  <2>2. ids' = ids + 1 /\ ids < MaxEntity /\ ids \in Nat /\ MaxEntity \in Nat /\ output = 0
    BY <1>3, LifecycleAssumption DEF CreateNew, IInv, OutsideOk, RowOk
  <2>3. /\ NewEntity(call).id = ids' /\ NewEntity(call).role = role
        /\ NewEntity(call).bound = call.sources /\ Len(NewEntity(call).definitions) = 1
    BY <2>2 DEF NewEntity
  <2>4. ids' \in 0 .. MaxEntity /\ output \in {0, ids'}
    BY <2>2
  <2> QED BY <1>1, <2>1, <2>3, <2>4, InstalledIInv
<1>4. CASE CreateVersion(call)
  <2> DEFINE e == [entity EXCEPT !.definitions = Append(@, call.definition),
                                 !.bound = WithSources(@, call),
                                 !.artifacts = Append(@, NewArtifact(call, Version + 1))]
  <2>1. /\ Installable(e, call, Version + 1) /\ Installed(e, call, Version + 1)
        /\ e.id = entity.id /\ e.role = entity.role
        /\ e.definitions = Append(entity.definitions, call.definition)
        /\ e.bound = WithSources(entity.bound, call)
    BY <1>1, <1>4, VersionInstallable DEF CreateVersion
  <2>2. Exists /\ entity.role = role /\ BindingsHold(call, entity.bound) /\ ids' = ids
    BY <1>4 DEF CreateVersion, Admitted
  <2>3. entity.id = ids /\ entity.definitions \in Seq(Definitions) /\ entity.bound \in Bindings
    BY <2>2, RowTypes
  <2>4. Len(e.definitions) = Version + 1
    BY <2>1, <2>3 DEF Version
  <2>5. \A s \in DOMAIN call.sources : e.bound[s] = call.sources[s]
    <3>1. \A s \in DOMAIN call.sources :
            WithSources(entity.bound, call)[s] = call.sources[s]
      BY <1>2, <2>2, <2>3, SourcesAdded
    <3> HIDE DEF e
    <3> QED BY <2>1, <3>1
  <2>6. ids' \in 0 .. MaxEntity /\ output \in {0, ids'}
    BY <2>2 DEF IInv, OutsideOk, RowOk
  <2>7. e.id = ids' /\ e.role = role
    BY <2>1, <2>2, <2>3
  <2> HIDE DEF e
  <2> QED BY <1>1, <2>1, <2>4, <2>5, <2>6, <2>7, InstalledIInv
<1>5. CASE CreateAgain(call)
  <2> DEFINE a == ArtifactOf(entity, Version)
             other == NewArtifact(call, Version)
             e == [entity EXCEPT !.artifacts = Append(@, other)]
  <2>1. /\ Exists /\ entity.role = role /\ BindingsHold(call, entity.bound) /\ ids' = ids
        /\ call.definition = Definition /\ DOMAIN call.sources \subseteq DOMAIN entity.bound
    BY <1>5 DEF CreateAgain, Admitted
  <2>2. /\ Installable(entity, call, Version) /\ Installable(e, call, Version)
        /\ e.id = entity.id /\ e.role = entity.role /\ e.bound = entity.bound
        /\ e.definitions = entity.definitions
    BY <1>1, <2>1, AgainInstallable
  <2>3. entity.id = ids /\ \A s \in DOMAIN call.sources : entity.bound[s] = call.sources[s]
    BY <2>1, RowTypes DEF BindingsHold
  <2>4. ids' \in 0 .. MaxEntity /\ output \in {0, ids'} /\ Version = Len(entity.definitions)
    BY <2>1 DEF IInv, OutsideOk, RowOk, Version
  <2>5. CASE Installed(e, call, Version)
    <3>1. /\ Version = Len(e.definitions) /\ e.id = ids' /\ e.role = role
          /\ \A s \in DOMAIN call.sources : e.bound[s] = call.sources[s]
      BY <2>1, <2>2, <2>3, <2>4
    <3> HIDE DEF e
    <3> QED BY <1>1, <2>2, <2>4, <2>5, <3>1, InstalledIInv
  <2>6. CASE Installed(entity, call, Version)
    <3>1. entity.id = ids'
      BY <2>1, <2>3
    <3> QED BY <1>1, <2>1, <2>2, <2>3, <2>4, <2>6, <3>1, InstalledIInv
  <2>7. CASE ~Stale(Version) /\ UNCHANGED <<entity, relations>>
    <3>1. OutsideOk' /\ RowOk'
      BY <1>1, <2>1, <2>7 DEF IInv, OutsideOk, RowOk, Exists, outside
    <3>2. CallsOk'
      BY <1>1, IdleOk, CallGoes DEF IInv
    <3>3. PICK g \in DOMAIN entity.graphs : IsLastGraph(entity, Version, g)
      <4>1. Version \in DOMAIN entity.definitions
        BY <2>2 DEF Installable
      <4> QED BY <2>1, <4>1 DEF IInv, RowOk, Covered
    <3>4. entity \in EntityRows
      BY <2>1, RowTypes
    <3>5. Member(g) \in DOMAIN relations /\ relations[Member(g)].registered
          /\ ~relations[Member(g)].drifted
      BY <2>7, <3>3, <3>4, FreshGraph
    <3>6. ASSUME built' PROVE BuiltOk(entity, relations, role, source)
      <4>1. \A s \in DOMAIN call.sources : call.sources[s] = source[s]
        BY <1>1, <3>6
      <4>2. SourcesOf(entity.definitions[Len(entity.definitions)]) = DOMAIN call.sources
        BY <1>2, <2>1 DEF Definition, Version
      <4> QED BY <2>1, <2>3, <3>3, <3>5, <4>1, <4>2 DEF BuiltOk, Member, Version
    <3> QED BY <1>1, <2>1, <2>7, <3>1, <3>2, <3>6 DEF IInv, Exists, outside
  <2> QED BY <1>5, <2>5, <2>6, <2>7 DEF CreateAgain
<1> QED BY <1>1, <1>3, <1>4, <1>5

-----------------------------------------------------------------------------
(* The invariant is inductive: rebind, drop and refresh.                   *)

\* An entity whose graphs keep their versions and artifacts.
SameGraphs(e, f) ==
  /\ f.id = e.id /\ f.definitions = e.definitions /\ f.artifacts = e.artifacts
  /\ DOMAIN f.bound = DOMAIN e.bound /\ DOMAIN f.graphs = DOMAIN e.graphs
  /\ \A g \in DOMAIN e.graphs :
       f.graphs[g].version = e.graphs[g].version /\ f.graphs[g].artifact = e.graphs[g].artifact

LEMMA SameGraphsOk ==
  ASSUME NEW e, NEW f \in EntityRows, EntityOk(e), SameGraphs(e, f)
  PROVE  /\ EntityOk(f)
         /\ \A v : Covered(e, v) => Covered(f, v)
         /\ \A v, g : IsLastGraph(e, v, g) => IsLastGraph(f, v, g)
<1>1. Lineage(f)
  BY DEF EntityOk, Lineage, SameGraphs
<1>2. EntityOk(f)
  BY <1>1 DEF EntityOk, SameGraphs
<1>3. \A v, g : IsLastGraph(e, v, g) => IsLastGraph(f, v, g)
  BY DEF IsLastGraph, SameGraphs
<1>4. \A v, a : IsLastArtifact(e, v, a) => IsLastArtifact(f, v, a)
  BY DEF IsLastArtifact, SameGraphs
<1>5. ASSUME NEW v, Covered(e, v) PROVE Covered(f, v)
  <2>1. PICK a \in DOMAIN e.artifacts, g \in DOMAIN e.graphs :
          IsLastArtifact(e, v, a) /\ IsLastGraph(e, v, g) /\ e.graphs[g].artifact = a
    BY <1>5 DEF Covered
  <2>2. a \in DOMAIN f.artifacts /\ g \in DOMAIN f.graphs /\ f.graphs[g].artifact = a
    BY <2>1 DEF SameGraphs
  <2> QED BY <1>3, <1>4, <2>1, <2>2 DEF Covered
<1> QED BY <1>2, <1>3, <1>5

LEMMA PrepareRebindIInv ==
  ASSUME IInv, NEW c \in Clients, PrepareRebind(c)
  PROVE  IInv'
<1> DEFINE call == [kind |-> "rebind", id |-> entity.id, version |-> Version, role |-> role,
                    sources |-> [s \in DOMAIN entity.bound |-> source[s]]]
<1>1. entity \in EntityRows /\ Version \in Versions /\ entity.bound \in Bindings
  BY RowTypes DEF PrepareRebind
<1>2. entity.id \in Nat /\ Version \in Nat /\ role \in Oids
  BY <1>1, OidsGrow DEF EntityRows, Versions, IInv
<1>3. DOMAIN entity.bound \in SUBSET Sources
      /\ call.sources \in [DOMAIN entity.bound -> {0} \cup Oids]
  BY <1>1, BindingsHave, OidsGrow DEF IInv
<1>4. call.sources \in Bindings
  BY <1>3, BindingsMade
<1>5. CallOk(call)
  BY <1>2, <1>4 DEF CallOk, RebindCalls
<1>6. CallsOk'
  BY <1>5, CallGoes DEF PrepareRebind, IInv
<1> QED BY <1>6 DEF PrepareRebind, IInv, OutsideOk, RowOk, Exists, outside

LEMMA RebindIInv ==
  ASSUME IInv, NEW c \in Clients, Rebind(c)
  PROVE  IInv'
<1> DEFINE call == calls[c]
           graphs == [g \in DOMAIN entity.graphs |->
                        [entity.graphs[g] EXCEPT !.oid = relations[Member(g)].oid,
                                                 !.consumers = FALSE]]
<1>1. /\ Exists /\ call.kind = "rebind" /\ DOMAIN call.sources = DOMAIN entity.bound
      /\ call.role = role /\ calls' = [calls EXCEPT ![c] = Idle]
      /\ \A g \in DOMAIN entity.graphs : Member(g) \in DOMAIN relations
      /\ built' = (built /\ call.sources = [s \in DOMAIN call.sources |-> source[s]])
      /\ UNCHANGED <<relations, output, outside, ids>>
  BY DEF Rebind
<1>2. entity' = [entity EXCEPT !.role = role, !.bound = call.sources, !.graphs = graphs]
  BY <1>1 DEF Rebind
<1>3. /\ entity \in EntityRows /\ EntityOk(entity) /\ entity.id = ids
      /\ entity.graphs \in Seq(GraphRows) /\ SourcesOf(Definition) \subseteq DOMAIN entity.bound
      /\ RelationsOk(entity, relations, role, source)
  BY <1>1, RowTypes
<1>4. call.sources \in Bindings /\ role \in Oids
  <2>1. call \in {Idle} \cup CreateCalls \cup RebindCalls
    BY DEF IInv, CallsOk, CallOk
  <2>2. call \in RebindCalls
    BY <1>1, <2>1 DEF Idle, CreateCalls
  <2> QED BY <2>2, OidsGrow DEF RebindCalls, IInv
<1>5. graphs \in Seq(GraphRows) /\ DOMAIN graphs = DOMAIN entity.graphs
  <2>1. DOMAIN entity.graphs = 1 .. Len(entity.graphs) /\ Len(entity.graphs) \in Nat
    BY <1>3
  <2>2. ASSUME NEW g \in 1 .. Len(entity.graphs)
        PROVE  [entity.graphs[g] EXCEPT !.oid = relations[Member(g)].oid,
                                        !.consumers = FALSE] \in GraphRows
    <3>1. entity.graphs[g] \in GraphRows
      BY <1>3, <2>2
    <3>2. relations[Member(g)] \in RelationRows
      BY <1>1, <1>3, <2>1, <2>2 DEF RelationsOk, RelationOk
    <3>3. relations[Member(g)].oid \in Nat
      BY <3>2 DEF RelationRows
    <3> QED BY <3>1, <3>3 DEF GraphRows
  <2>3. graphs \in [1 .. Len(entity.graphs) -> GraphRows]
    BY <2>1, <2>2
  <2>4. graphs \in Seq(GraphRows)
    BY <2>1, <2>3, SeqOfFunction
  <2> QED BY <2>4
<1>6. /\ entity' \in EntityRows /\ entity'.id = entity.id /\ entity'.role = role
      /\ entity'.definitions = entity.definitions /\ entity'.artifacts = entity.artifacts
      /\ entity'.bound = call.sources /\ entity'.graphs = graphs
  BY <1>2, <1>3, <1>4, <1>5 DEF EntityRows
<1>7. ASSUME NEW g \in DOMAIN entity.graphs
      PROVE  /\ graphs[g].version = entity.graphs[g].version
             /\ graphs[g].artifact = entity.graphs[g].artifact
             /\ graphs[g].oid = relations[Member(g)].oid
  <2>1. entity.graphs[g] \in GraphRows
    BY <1>3
  <2> QED BY <2>1 DEF GraphRows
<1>8. SameGraphs(entity, entity')
  BY <1>1, <1>5, <1>6, <1>7 DEF SameGraphs
<1>9. /\ EntityOk(entity') /\ \A v : Covered(entity, v) => Covered(entity', v)
      /\ \A v, g : IsLastGraph(entity, v, g) => IsLastGraph(entity', v, g)
  BY <1>3, <1>6, <1>8, SameGraphsOk
<1>10. Exists'
  BY <1>9, EntityIsNotNone DEF EntityOk, Exists
<1>11. RelationsOk(entity', relations, role, source)
  <2>1. ASSUME NEW m \in DOMAIN relations PROVE RelationOk(entity', m, relations[m], role, source)
    <3>1. RelationOk(entity, m, relations[m], role, source)
      BY <1>3 DEF RelationsOk
    <3>2. PICK g \in DOMAIN entity.graphs :
            /\ m = <<entity.id, g>>
            /\ DOMAIN relations[m].reads = SourcesOf(entity.definitions[entity.graphs[g].version])
      BY <3>1 DEF RelationOk
    <3>3. entity'.graphs[g].oid = relations[m].oid
      BY <1>6, <1>7, <3>2 DEF Member
    <3>4. entity'.graphs[g].version = entity.graphs[g].version /\ g \in DOMAIN entity'.graphs
      BY <1>5, <1>6, <1>7, <3>2
    <3> QED BY <1>6, <3>1, <3>2, <3>3, <3>4 DEF RelationOk
  <2> QED BY <1>3, <2>1 DEF RelationsOk
<1>12. RowOk'
  BY <1>1, <1>3, <1>6, <1>9, <1>10, <1>11 DEF RowOk, IInv, outside
<1>13. OutsideOk'
  BY <1>1 DEF OutsideOk, outside, IInv
<1>14. CallsOk'
  BY <1>1, IdleOk, CallGoes DEF IInv
<1>15. ASSUME built' PROVE BuiltOk(entity', relations, role, source)
  <2>1. built /\ \A s \in DOMAIN call.sources : call.sources[s] = source[s]
    BY <1>1, <1>15
  <2>2. BuiltOk(entity, relations, role, source)
    BY <2>1 DEF IInv
  <2>3. PICK g \in DOMAIN entity.graphs :
          /\ IsLastGraph(entity, Len(entity.definitions), g)
          /\ <<entity.id, g>> \in DOMAIN relations
          /\ relations[<<entity.id, g>>].registered /\ ~relations[<<entity.id, g>>].drifted
    BY <2>2 DEF BuiltOk
  <2>4. \A s \in SourcesOf(entity'.definitions[Len(entity'.definitions)]) :
          entity'.bound[s] = source[s]
    BY <1>1, <1>3, <1>6, <2>1 DEF Definition, Version
  <2>5. g \in DOMAIN entity'.graphs /\ IsLastGraph(entity', Len(entity'.definitions), g)
    BY <1>5, <1>6, <1>9, <2>3
  <2> QED BY <1>6, <2>3, <2>4, <2>5 DEF BuiltOk
<1> QED BY <1>1, <1>10, <1>12, <1>13, <1>14, <1>15 DEF IInv, outside

\* A drop takes every relation: each is of a generation of the entity.
LEMMA DropIInv ==
  ASSUME IInv, Drop
  PROVE  IInv'
<1>1. RelationsOk(entity, relations, role, source)
  BY RowTypes DEF Drop
<1>2. DOMAIN relations \subseteq MembersToDrop
  BY <1>1 DEF RelationsOk, RelationOk, MembersToDrop, Member
<1>3. relations' = [m \in {} |-> 0]
  BY <1>2 DEF Drop
<1>4. ~Exists'
  BY DEF Drop, Exists
<1>5. RowOk'
  BY <1>3, <1>4 DEF RowOk, Drop
<1>6. OutsideOk' /\ CallsOk'
  BY DEF Drop, IInv, OutsideOk, CallsOk, outside
<1> QED BY <1>5, <1>6 DEF IInv, Drop

\* The context of a refresh is the last graph of the desired version.
LEMMA ContextGraph ==
  ASSUME IInv, Exists
  PROVE  /\ GraphOfContext \in DOMAIN entity.graphs
         /\ IsLastGraph(entity, Version, GraphOfContext)
         /\ entity.graphs[GraphOfContext].artifact \in DOMAIN entity.artifacts
<1>1. entity \in EntityRows /\ Version \in DOMAIN entity.definitions
  BY RowTypes DEF Versions
<1>2. PICK a \in DOMAIN entity.artifacts, g \in DOMAIN entity.graphs :
        /\ IsLastArtifact(entity, Version, a) /\ IsLastGraph(entity, Version, g)
        /\ entity.graphs[g].artifact = a
  BY <1>1 DEF IInv, RowOk, Covered
<1>3. ArtifactOf(entity, Version) = a
  BY <1>1, <1>2, ArtifactIsLast
<1> DEFINE S == {h \in DOMAIN entity.graphs :
                  entity.graphs[h].version = Version /\ entity.graphs[h].artifact = a}
<1>4. S \in SUBSET Int /\ g \in S /\ \A m \in S : m <= g
  BY <1>1, <1>2 DEF IsLastGraph, EntityRows
<1>5. LastOf(S) = g
  BY <1>4, LastOfIs
<1>6. GraphOfContext = g
  BY <1>3, <1>4, <1>5 DEF GraphOfContext, LatestGraph
<1> QED BY <1>2, <1>6

LEMMA RefreshIInv ==
  ASSUME IInv, Refresh
  PROVE  IInv'
<1> DEFINE k == GraphOfContext
           graphs == [entity.graphs EXCEPT ![k].consumers = TRUE]
           read == {Member(k), Member(GraphOfAccess)}
<1>1. /\ Exists /\ k \in DOMAIN entity.graphs
      /\ UNCHANGED <<outside, calls, ids, built>> /\ output' = entity.id
      /\ entity' = [entity EXCEPT !.columns = FieldsOf(Definition), !.graphs = graphs]
      /\ relations' = [m \in DOMAIN relations |->
            IF m \in read THEN [relations[m] EXCEPT !.granted = TRUE] ELSE relations[m]]
  BY ContextGraph DEF Refresh, CanRefresh
<1>2. /\ entity \in EntityRows /\ EntityOk(entity) /\ entity.id = ids
      /\ entity.graphs \in Seq(GraphRows) /\ Definition \in Definitions
      /\ RelationsOk(entity, relations, role, source)
  BY <1>1, RowTypes
<1>3. FieldsOf(Definition) \in Seq(STRING)
  BY <1>2, LifecycleAssumption
<1>4. DOMAIN entity.graphs = 1 .. Len(entity.graphs) /\ entity.graphs[k] \in GraphRows
  BY <1>1, <1>2
<1>5. [entity.graphs[k] EXCEPT !.consumers = TRUE] \in GraphRows
  BY <1>4 DEF GraphRows
<1>6. /\ graphs \in Seq(GraphRows) /\ DOMAIN graphs = DOMAIN entity.graphs
      /\ \A g \in DOMAIN entity.graphs :
           graphs[g] = IF g = k THEN [entity.graphs[k] EXCEPT !.consumers = TRUE]
                       ELSE entity.graphs[g]
  <2>1. graphs = [entity.graphs EXCEPT ![k] = [entity.graphs[k] EXCEPT !.consumers = TRUE]]
    OBVIOUS
  <2>2. [entity.graphs EXCEPT ![k] = [entity.graphs[k] EXCEPT !.consumers = TRUE]]
          \in Seq(GraphRows)
    BY <1>1, <1>2, <1>4, <1>5, ExceptSeq
  <2> QED BY <1>1, <2>1, <2>2
<1>7. /\ entity' \in EntityRows /\ entity'.id = entity.id /\ entity'.role = entity.role
      /\ entity'.definitions = entity.definitions /\ entity'.artifacts = entity.artifacts
      /\ entity'.bound = entity.bound /\ entity'.graphs = graphs
  BY <1>1, <1>2, <1>3, <1>6 DEF EntityRows
<1>8. ASSUME NEW g \in DOMAIN entity.graphs
      PROVE  /\ graphs[g].version = entity.graphs[g].version
             /\ graphs[g].artifact = entity.graphs[g].artifact
             /\ graphs[g].oid = entity.graphs[g].oid
  BY <1>4, <1>6 DEF GraphRows
<1>9. SameGraphs(entity, entity')
  BY <1>6, <1>7, <1>8 DEF SameGraphs
<1>10. /\ EntityOk(entity') /\ \A v : Covered(entity, v) => Covered(entity', v)
       /\ \A v, g : IsLastGraph(entity, v, g) => IsLastGraph(entity', v, g)
  BY <1>2, <1>7, <1>9, SameGraphsOk
<1>11. Exists'
  BY <1>10, EntityIsNotNone DEF EntityOk, Exists
<1>12. ASSUME NEW m \in DOMAIN relations
       PROVE  /\ relations'[m] \in RelationRows
              /\ relations'[m].owner = relations[m].owner
              /\ relations'[m].oid = relations[m].oid
              /\ relations'[m].registered = relations[m].registered
              /\ relations'[m].drifted = relations[m].drifted
              /\ relations'[m].reads = relations[m].reads
  <2>1. relations[m] \in RelationRows
    BY <1>2 DEF RelationsOk, RelationOk
  <2> HIDE DEF read
  <2> QED BY <1>1, <2>1 DEF RelationRows
<1>13. RelationsOk(entity', relations', role, source)
  <2>1. ASSUME NEW m \in DOMAIN relations
        PROVE  RelationOk(entity', m, relations'[m], role, source)
    <3>1. RelationOk(entity, m, relations[m], role, source)
      BY <1>2 DEF RelationsOk
    <3>2. PICK g \in DOMAIN entity.graphs :
            /\ m = <<entity.id, g>>
            /\ relations[m].registered => relations[m].oid = entity.graphs[g].oid
            /\ DOMAIN relations[m].reads = SourcesOf(entity.definitions[entity.graphs[g].version])
            /\ relations[m].registered /\ ~relations[m].drifted =>
                 \A s \in DOMAIN relations[m].reads : relations[m].reads[s] = source[s]
      BY <3>1 DEF RelationOk
    <3>3. /\ g \in DOMAIN entity'.graphs
          /\ entity'.graphs[g].version = entity.graphs[g].version
          /\ entity'.graphs[g].oid = entity.graphs[g].oid
      BY <1>6, <1>7, <1>8, <3>2
    <3> QED BY <1>7, <1>12, <3>1, <3>2, <3>3 DEF RelationOk
  <2>2. DOMAIN relations' = DOMAIN relations /\ relations' = [m \in DOMAIN relations' |-> relations'[m]]
    BY <1>1
  <2> QED BY <2>1, <2>2 DEF RelationsOk
<1>14. RowOk'
  BY <1>1, <1>2, <1>7, <1>10, <1>11, <1>13 DEF RowOk, IInv, outside
<1>15. OutsideOk' /\ CallsOk'
  BY <1>1 DEF OutsideOk, CallsOk, outside, IInv
<1>16. ASSUME built' PROVE BuiltOk(entity', relations', role, source)
  <2>1. BuiltOk(entity, relations, role, source)
    BY <1>1, <1>16 DEF IInv
  <2>2. PICK g \in DOMAIN entity.graphs :
          /\ IsLastGraph(entity, Len(entity.definitions), g)
          /\ <<entity.id, g>> \in DOMAIN relations
          /\ relations[<<entity.id, g>>].registered /\ ~relations[<<entity.id, g>>].drifted
    BY <2>1 DEF BuiltOk
  <2>3. g \in DOMAIN entity'.graphs /\ IsLastGraph(entity', Len(entity'.definitions), g)
    BY <1>6, <1>7, <1>10, <2>2
  <2>4. /\ <<entity'.id, g>> \in DOMAIN relations'
        /\ relations'[<<entity'.id, g>>].registered /\ ~relations'[<<entity'.id, g>>].drifted
    BY <1>1, <1>7, <1>12, <2>2
  <2> QED BY <1>7, <2>1, <2>3, <2>4 DEF BuiltOk
<1> QED BY <1>1, <1>11, <1>14, <1>15, <1>16 DEF IInv, outside

-----------------------------------------------------------------------------
(* The invariant is inductive: what happens outside.                       *)

\* An event counts; the OIDs that were there stay in range.
LEMMA EventOutside ==
  ASSUME IInv, Event,
         role' \in {role, role + 1}, compiler' \in {compiler, compiler + 1},
         source' \in [Sources -> Int], \A s \in Sources : source'[s] \in {source[s], source[s] + 1}
  PROVE  /\ OutsideOk'
         /\ role \in Oids /\ role' \in Oids
<1>1. MaxEvents \in Nat
  BY LifecycleAssumption
<1>2. events \in Nat /\ events < MaxEvents /\ events' = events + 1
  BY <1>1 DEF Event, IInv, OutsideOk
<1>3. /\ role' \in 1 .. 1 + events' /\ compiler' \in 1 .. 1 + events'
      /\ source' \in [Sources -> 1 .. 1 + events']
  BY <1>2 DEF IInv, OutsideOk
<1>4. events' \in 0 .. MaxEvents /\ ids' \in 0 .. MaxEntity /\ built' \in BOOLEAN
  <2>1. events' \in 0 .. MaxEvents
    BY <1>1, <1>2
  <2>2. ids' = ids /\ built' = FALSE
    BY DEF Event
  <2> QED BY <2>1, <2>2 DEF IInv, OutsideOk
<1>5. OutsideOk'
  BY <1>3, <1>4 DEF OutsideOk
<1> QED BY <1>1, <1>2, <1>3, <1>5, OidsGrow DEF Oids, IInv

\* What remains to show of an event that leaves the entity alone.
LEMMA EventIInv ==
  ASSUME IInv, Event, OutsideOk', entity' = entity, calls' = calls,
         Exists => RelationsOk(entity, relations', role', source'),
         ~Exists => relations' = relations
  PROVE  IInv'
<1>1. CallsOk'
  BY DEF IInv, CallsOk
<1>2. RowOk'
  BY DEF IInv, RowOk, Exists, Event
<1> QED BY <1>1, <1>2 DEF IInv, Event

LEMMA NoEntityNoRelations ==
  ASSUME IInv, ~Exists
  PROVE  relations = [m \in {} |-> 0]
  BY DEF IInv, RowOk

LEMMA ReplaceSourceIInv ==
  ASSUME IInv, NEW s \in Sources, ReplaceSource(s)
  PROVE  IInv'
<1>1. source \in [Sources -> Oids] /\ Oids \subseteq Int
  BY OidsGrow DEF IInv, Oids
<1>2. OutsideOk'
  <2>1. source' \in [Sources -> Int]
        /\ \A t \in Sources : source'[t] \in {source[t], source[t] + 1}
    BY <1>1 DEF ReplaceSource
  <2> QED BY <2>1, EventOutside DEF ReplaceSource
<1>3. ASSUME Exists PROVE RelationsOk(entity, relations', role', source')
  <2>1. RelationsOk(entity, relations, role, source)
    BY <1>3, RowTypes
  <2>2. ASSUME NEW m \in DOMAIN relations
        PROVE  RelationOk(entity, m, relations'[m], role, source')
    <3>1. RelationOk(entity, m, relations[m], role, source) /\ relations[m] \in RelationRows
      BY <2>1 DEF RelationsOk, RelationOk
    <3>2. relations[m].reads \in Bindings
      BY <3>1 DEF RelationRows
    <3>3. DOMAIN relations[m].reads \subseteq Sources
      BY <3>2, BindingsHave
    <3>4. CASE s \in DOMAIN relations[m].reads
      <4>1. relations'[m] = [relations[m] EXCEPT !.drifted = TRUE]
        BY <3>4 DEF ReplaceSource
      <4>2. /\ relations'[m] \in RelationRows /\ relations'[m].drifted
            /\ relations'[m].owner = relations[m].owner /\ relations'[m].oid = relations[m].oid
            /\ relations'[m].registered = relations[m].registered
            /\ relations'[m].reads = relations[m].reads
        BY <3>1, <4>1 DEF RelationRows
      <4> QED BY <3>1, <4>2 DEF RelationOk
    <3>5. CASE s \notin DOMAIN relations[m].reads
      <4>1. relations'[m] = relations[m]
        BY <3>5 DEF ReplaceSource
      <4>2. \A t \in DOMAIN relations[m].reads : source'[t] = source[t]
        BY <1>1, <3>3, <3>5 DEF ReplaceSource
      <4> QED BY <3>1, <4>1, <4>2 DEF RelationOk
    <3> QED BY <3>4, <3>5
  <2> QED BY <2>2 DEF ReplaceSource, RelationsOk
<1>4. ASSUME ~Exists PROVE relations' = relations
  BY <1>4, NoEntityNoRelations DEF ReplaceSource
<1> QED BY <1>2, <1>3, <1>4, EventIInv DEF ReplaceSource

LEMMA ReplaceRoleIInv ==
  ASSUME IInv, ReplaceRole
  PROVE  IInv'
<1>1. source \in [Sources -> Oids] /\ Oids \subseteq Int
  BY OidsGrow DEF IInv, Oids
<1>2. OutsideOk' /\ role' \in Oids
  <2>1. source' \in [Sources -> Int]
    BY <1>1 DEF ReplaceRole
  <2> QED BY <2>1, EventOutside DEF ReplaceRole
<1>3. ASSUME Exists PROVE RelationsOk(entity, relations', role', source')
  <2>1. RelationsOk(entity, relations, role, source)
    BY <1>3, RowTypes
  <2>2. ASSUME NEW m \in DOMAIN relations
        PROVE  RelationOk(entity, m, relations'[m], role', source)
    <3>1. RelationOk(entity, m, relations[m], role, source) /\ relations[m] \in RelationRows
      BY <2>1 DEF RelationsOk, RelationOk
    <3>2. relations'[m] = [relations[m] EXCEPT !.owner = role']
      BY DEF ReplaceRole
    <3>3. /\ relations'[m] \in RelationRows /\ relations'[m].owner = role'
          /\ relations'[m].drifted = relations[m].drifted /\ relations'[m].oid = relations[m].oid
          /\ relations'[m].registered = relations[m].registered
          /\ relations'[m].reads = relations[m].reads
      BY <1>2, <3>1, <3>2 DEF RelationRows
    <3> QED BY <3>1, <3>3 DEF RelationOk
  <2> QED BY <2>2 DEF ReplaceRole, RelationsOk
<1>4. ASSUME ~Exists PROVE relations' = relations
  BY <1>4, NoEntityNoRelations DEF ReplaceRole
<1> QED BY <1>2, <1>3, <1>4, EventIInv DEF ReplaceRole

LEMMA UpgradeCompilerIInv ==
  ASSUME IInv, UpgradeCompiler
  PROVE  IInv'
<1>1. source \in [Sources -> Int]
  BY OidsGrow DEF IInv, Oids
<1>2. OutsideOk'
  <2>1. Event /\ role' = role /\ source' = source /\ compiler' = compiler + 1
    BY DEF UpgradeCompiler
  <2> QED BY <1>1, <2>1, EventOutside
<1>3. Exists => RelationsOk(entity, relations, role, source)
  BY RowTypes
<1> QED BY <1>2, <1>3, EventIInv DEF UpgradeCompiler

LEMMA MemberEventIInv ==
  ASSUME IInv, NEW m \in DOMAIN relations, LoseMember(m) \/ Drift(m)
  PROVE  IInv'
<1>1. source \in [Sources -> Int]
  BY OidsGrow DEF IInv, Oids
<1>2. Event /\ UNCHANGED <<entity, role, source, compiler, calls>>
  BY DEF LoseMember, Drift
<1>3. OutsideOk'
  BY <1>1, <1>2, EventOutside
<1>4. ASSUME Exists PROVE RelationsOk(entity, relations', role, source)
  <2>1. RelationsOk(entity, relations, role, source)
    BY <1>4, RowTypes
  <2>2. CASE LoseMember(m)
    BY <2>1, <2>2 DEF LoseMember, RelationsOk
  <2>3. CASE Drift(m)
    <3>1. RelationOk(entity, m, relations[m], role, source) /\ relations[m] \in RelationRows
      BY <2>1 DEF RelationsOk, RelationOk
    <3>2. relations' = [n \in DOMAIN relations |->
                          IF n = m THEN [relations[m] EXCEPT !.drifted = TRUE] ELSE relations[n]]
      BY <2>1, <2>3 DEF RelationsOk, Drift
    <3>3. /\ relations'[m] \in RelationRows /\ relations'[m].drifted
          /\ relations'[m].owner = relations[m].owner /\ relations'[m].oid = relations[m].oid
          /\ relations'[m].registered = relations[m].registered
          /\ relations'[m].reads = relations[m].reads
      BY <3>1, <3>2 DEF RelationRows
    <3>4. RelationOk(entity, m, relations'[m], role, source)
      BY <3>1, <3>3 DEF RelationOk
    <3> QED BY <2>1, <3>2, <3>4 DEF RelationsOk
  <2> QED BY <2>2, <2>3
<1>5. Exists
  BY NoEntityNoRelations
<1> QED BY <1>2, <1>3, <1>4, <1>5, EventIInv

LEMMA RestoreIInv ==
  ASSUME IInv, Restore
  PROVE  IInv'
<1>1. source \in [Sources -> Oids] /\ Oids \subseteq Int /\ Exists
  <2>1. source \in [Sources -> Oids] /\ Oids \subseteq Int
    BY OidsGrow DEF IInv, Oids
  <2> QED BY <2>1 DEF Restore
<1>2. OutsideOk' /\ role' \in Oids
  <2>1. source' = [s \in Sources |-> source[s] + 1] /\ role' = role + 1 /\ compiler' = compiler
    BY DEF Restore
  <2>2. \A s \in Sources : source[s] \in Int
    BY <1>1
  <2>3. source' \in [Sources -> Int]
        /\ \A t \in Sources : source'[t] \in {source[t], source[t] + 1}
    BY <2>1, <2>2
  <2> QED BY <2>1, <2>3, EventOutside DEF Restore
<1>3. CallsOk'
  BY IdleOk DEF Restore, CallsOk
<1>4. /\ entity \in EntityRows /\ EntityOk(entity) /\ entity.id = ids
      /\ entity.bound \in Bindings /\ RelationsOk(entity, relations, role, source)
  BY <1>1, RowTypes
<1>5. [s \in DOMAIN entity.bound |-> 0] \in Bindings
  <2>1. DOMAIN entity.bound \in SUBSET Sources
    BY <1>4, BindingsHave
  <2>2. [s \in DOMAIN entity.bound |-> 0] \in [DOMAIN entity.bound -> {0} \cup Oids]
    OBVIOUS
  <2> QED BY <2>1, <2>2, BindingsMade
<1>6. /\ entity' \in EntityRows /\ entity'.id = entity.id /\ entity'.graphs = entity.graphs
      /\ entity'.definitions = entity.definitions /\ entity'.artifacts = entity.artifacts
      /\ entity'.bound = [s \in DOMAIN entity.bound |-> 0]
  BY <1>4, <1>5 DEF Restore, EntityRows
<1>7. SameGraphs(entity, entity')
  BY <1>6 DEF SameGraphs
<1>8. EntityOk(entity') /\ \A v : Covered(entity, v) => Covered(entity', v)
  BY <1>4, <1>6, <1>7, SameGraphsOk
<1>9. Exists'
  BY <1>8, EntityIsNotNone DEF EntityOk, Exists
<1>10. RelationsOk(entity', relations', role', source')
  <2>1. ASSUME NEW m \in DOMAIN relations
        PROVE  RelationOk(entity', m, relations'[m], role', source')
    <3>1. RelationOk(entity, m, relations[m], role, source) /\ relations[m] \in RelationRows
      BY <1>4 DEF RelationsOk, RelationOk
    <3>2. relations'[m] =
            [relations[m] EXCEPT !.oid = @ + 1, !.owner = role', !.registered = FALSE]
      BY DEF Restore
    <3>3. relations[m].oid + 1 \in Nat
      BY <3>1 DEF RelationRows
    <3>4. /\ relations'[m] \in RelationRows /\ relations'[m].owner = role'
          /\ ~relations'[m].registered /\ relations'[m].reads = relations[m].reads
      BY <1>2, <3>1, <3>2, <3>3 DEF RelationRows
    <3> QED BY <1>6, <3>1, <3>4 DEF RelationOk
  <2> QED BY <2>1 DEF Restore, RelationsOk
<1>11. RowOk'
  BY <1>1, <1>4, <1>6, <1>8, <1>9, <1>10 DEF RowOk, IInv, Restore, Event
<1> QED BY <1>2, <1>3, <1>11 DEF IInv, Restore, Event

LEMMA StepIInv == IInv /\ [Next]_vars => IInv'
<1> SUFFICES ASSUME IInv, [Next]_vars PROVE IInv'
  OBVIOUS
<1>1. CASE UNCHANGED vars
  BY <1>1 DEF vars, outside, IInv, OutsideOk, CallsOk, RowOk, Exists
<1>2. CASE Next
  BY <1>2, PrepareIInv, PersistIInv, PrepareRebindIInv, RebindIInv, FailIInv, DropIInv,
     RefreshIInv, ReplaceSourceIInv, ReplaceRoleIInv, UpgradeCompilerIInv, RestoreIInv,
     MemberEventIInv DEF Next
<1> QED BY <1>1, <1>2

LEMMA Inductive == Spec => []IInv
  BY InitIInv, StepIInv, PTL DEF Spec

-----------------------------------------------------------------------------
(* The properties.                                                         *)

\* The types; an artifact is compiled from the definition of its version, a
\* graph is of an artifact of its version, and every version has an artifact
\* (persist_entity, persist_recompile, install_graph).
THEOREM TypeCorrect == Spec => []TypeOK
<1>1. ASSUME IInv PROVE TypeOK
  <2>1. role \in Oids /\ compiler \in Oids /\ source \in [Sources -> Oids]
    BY <1>1, OidsGrow DEF IInv
  <2>2. ASSUME Exists PROVE EntityType(entity)
    <3>1. /\ entity \in EntityRows /\ EntityOk(entity) /\ entity.id = ids
          /\ entity.bound \in Bindings
      BY <1>1, <2>2, RowTypes
    <3>2. entity.role \in {0} \cup Oids /\ entity.definitions \in Seq(Definitions)
      BY <3>1 DEF EntityRows
    <3>3. /\ DOMAIN entity.bound \subseteq Sources
          /\ \A s \in DOMAIN entity.bound : entity.bound[s] \in {0} \cup Oids
      BY <3>1, BindingsHave
    <3> QED BY <3>1, <3>2, <3>3 DEF EntityType, EntityOk, Lineage
  <2>3. ASSUME Exists, NEW v \in DOMAIN entity.definitions PROVE ArtifactOf(entity, v) # 0
    <3>1. entity \in EntityRows /\ entity.artifacts \in Seq(ArtifactRows)
      BY <1>1, <2>3, RowTypes
    <3>2. PICK a \in DOMAIN entity.artifacts : IsLastArtifact(entity, v, a)
      BY <1>1, <2>3 DEF IInv, RowOk, Covered
    <3>3. ArtifactOf(entity, v) = a /\ a # 0
      BY <3>1, <3>2, ArtifactIsLast
    <3> QED BY <3>3
  <2> QED BY <1>1, <2>1, <2>2, <2>3 DEF TypeOK, IInv, OutsideOk
<1> QED BY <1>1, Inductive, PTL

\* A drop leaves no relation in mdm_graph and no table in mdm_out: whatever is
\* there belongs to the entity that has the name (drop_entity).
THEOREM NothingLeft == Spec => []NothingOrphaned
<1>1. ASSUME IInv PROVE NothingOrphaned
  <2>1. CASE Exists
    <3>1. RelationsOk(entity, relations, role, source) /\ entity.id = ids
      BY <1>1, <2>1, RowTypes
    <3>2. output \in {0, ids}
      BY <1>1, <2>1 DEF IInv, RowOk
    <3> QED BY <2>1, <3>1, <3>2 DEF RelationsOk, RelationOk, NothingOrphaned
  <2>2. CASE ~Exists
    <3>1. relations = [m \in {} |-> 0] /\ output = 0
      BY <1>1, <2>2 DEF IInv, RowOk
    <3> QED BY <3>1 DEF NothingOrphaned
  <2> QED BY <2>1, <2>2
<1> QED BY <1>1, Inductive, PTL

\* A graph that a refresh may read reads what the sources name now.
LEMMA ReadableIsCurrent ==
  ASSUME IInv, CanRefresh
  PROVE  LET g == GraphOfContext
         IN  /\ g \in DOMAIN entity.graphs /\ entity.graphs[g].version = Version
             /\ entity.artifacts[entity.graphs[g].artifact].definition = Definition
             /\ relations[Member(g)].reads = [s \in SourcesOf(Definition) |-> source[s]]
             /\ relations[Member(g)].owner = role
<1> DEFINE g == GraphOfContext
<1>1. /\ Exists /\ Member(g) \in DOMAIN relations /\ relations[Member(g)].owner = role
      /\ relations[Member(g)].registered /\ ~relations[Member(g)].drifted
  BY DEF CanRefresh, Readable, Matches
<1>2. /\ g \in DOMAIN entity.graphs /\ IsLastGraph(entity, Version, g)
  BY <1>1, ContextGraph
<1>3. entity.graphs[g].version = Version /\ EntityOk(entity)
      /\ RelationsOk(entity, relations, role, source)
  BY <1>1, <1>2, RowTypes DEF IsLastGraph
<1>4. entity.artifacts[entity.graphs[g].artifact].definition = Definition
  BY <1>2, <1>3 DEF EntityOk, Lineage, Definition
<1>5. RelationOk(entity, Member(g), relations[Member(g)], role, source)
  BY <1>1, <1>3 DEF RelationsOk
<1>6. /\ DOMAIN relations[Member(g)].reads = SourcesOf(Definition)
      /\ \A s \in DOMAIN relations[Member(g)].reads : relations[Member(g)].reads[s] = source[s]
  <2>1. PICK h \in DOMAIN entity.graphs :
          /\ Member(g) = <<entity.id, h>>
          /\ DOMAIN relations[Member(g)].reads = SourcesOf(entity.definitions[entity.graphs[h].version])
          /\ \A s \in DOMAIN relations[Member(g)].reads : relations[Member(g)].reads[s] = source[s]
    BY <1>1, <1>5 DEF RelationOk
  <2>2. h = g
    BY <2>1 DEF Member
  <2> QED BY <1>3, <2>1, <2>2 DEF Definition
<1>7. relations[Member(g)].reads \in Bindings
  BY <1>5 DEF RelationOk, RelationRows
<1>8. relations[Member(g)].reads = [s \in SourcesOf(Definition) |-> source[s]]
  <2> DEFINE reads == relations[Member(g)].reads
  <2>1. reads = [s \in DOMAIN reads |-> reads[s]]
    BY <1>7, BindingsHave
  <2> HIDE DEF reads
  <2> QED BY <1>6, <2>1 DEF reads
<1> QED BY <1>1, <1>2, <1>3, <1>4, <1>8

\* As many sources are bound as the definition maps, and each of them is one
\* that it maps: all of them are bound.
LEMMA AllSourcesBound ==
  ASSUME IInv, Exists, SourcesValid
  PROVE  \A s \in SourcesOf(Definition) : entity.bound[s] = source[s]
<1> DEFINE bound == {s \in DOMAIN entity.bound : entity.bound[s] # 0}
<1>1. /\ Cardinality(bound) = Cardinality(SourcesOf(Definition))
      /\ bound \subseteq SourcesOf(Definition) /\ \A s \in bound : entity.bound[s] = source[s]
  BY DEF SourcesValid
<1>2. Definition \in Definitions
  BY RowTypes
<1>3. SourcesOf(Definition) \subseteq Sources /\ IsFiniteSet(Sources)
  BY <1>2, LifecycleAssumption
<1>4. IsFiniteSet(SourcesOf(Definition))
  BY <1>3, FS_Subset
<1>5. bound = SourcesOf(Definition)
  <2> HIDE DEF bound
  <2> QED BY <1>1, <1>4, FS_Subset
<1> QED BY <1>1, <1>5

\* A refresh publishes from a graph of the desired definition, that reads the
\* relations which a create or a rebind approved, for the role that is bound
\* (load_context, refresh_access, validate_source_bindings).
THEOREM RefreshPublishesApproved == Spec => PublishesApproved
<1> DEFINE Published ==
      LET g == GraphOfContext
          now == [s \in SourcesOf(Definition) |-> source[s]]
      IN  /\ entity.artifacts[entity.graphs[g].artifact].definition = Definition
          /\ relations[Member(g)].reads = now
          /\ \A s \in SourcesOf(Definition) : entity.bound[s] = now[s]
          /\ entity.role = role /\ relations[Member(g)].owner = role
<1>1. ASSUME IInv, Refresh PROVE Published
  <2>1. CanRefresh /\ Exists /\ SourcesValid /\ entity.role = role
    BY <1>1 DEF Refresh, CanRefresh
  <2>2. /\ entity.artifacts[entity.graphs[GraphOfContext].artifact].definition = Definition
        /\ relations[Member(GraphOfContext)].reads = [s \in SourcesOf(Definition) |-> source[s]]
        /\ relations[Member(GraphOfContext)].owner = role
    BY <1>1, <2>1, ReadableIsCurrent
  <2>3. \A s \in SourcesOf(Definition) : entity.bound[s] = source[s]
    BY <1>1, <2>1, AllSourcesBound
  <2> QED BY <2>1, <2>2, <2>3
<1>2. IInv /\ [Next]_vars => [Refresh => Published]_vars
  BY <1>1
<1>3. [][IInv /\ [Next]_vars]_vars => PublishesApproved
  BY <1>2, PTL DEF PublishesApproved
<1> QED BY <1>3, Inductive, PTL DEF Spec

\* What a create or recompile accepted can be refreshed while the role, the
\* sources and the library stay as they were (persist_entity, load_context).
THEOREM UsableCorrect == Spec => []UsableWhenBuilt
<1>1. ASSUME IInv, built, DOMAIN entity.bound = SourcesOf(Definition), Regular
      PROVE  CanRefresh
  <2> DEFINE g == GraphOfContext
  <2>1. Exists /\ BuiltOk(entity, relations, role, source)
    BY <1>1 DEF IInv
  <2>2. /\ g \in DOMAIN entity.graphs /\ IsLastGraph(entity, Version, g)
    BY <1>1, <2>1, ContextGraph
  <2>3. /\ entity \in EntityRows /\ entity.graphs \in Seq(GraphRows)
        /\ entity.id = ids /\ RelationsOk(entity, relations, role, source)
    BY <1>1, <2>1, RowTypes
  <2>4. g \in Nat \ {0}
    BY <2>2, <2>3
  <2>5. /\ Member(g) \in DOMAIN relations
        /\ relations[Member(g)].registered /\ ~relations[Member(g)].drifted
    <3>1. PICK h \in DOMAIN entity.graphs :
            /\ IsLastGraph(entity, Version, h) /\ Member(h) \in DOMAIN relations
            /\ relations[Member(h)].registered /\ ~relations[Member(h)].drifted
      BY <2>1 DEF BuiltOk, Version, Member
    <3>2. h = g
      <4>1. h <= g /\ g <= h /\ h \in Int /\ g \in Int
        BY <2>2, <2>3, <3>1 DEF IsLastGraph
      <4> QED BY <4>1
    <3> QED BY <3>1, <3>2
  <2>6. Matches(g)
    <3>1. RelationOk(entity, Member(g), relations[Member(g)], role, source)
      BY <2>3, <2>5 DEF RelationsOk
    <3> QED BY <2>5, <3>1 DEF RelationOk, Matches, Member
  <2>7. GraphOfAccess = g
    <3> DEFINE S == {h \in DOMAIN entity.graphs :
                      entity.graphs[h].version = Version /\ entity.graphs[h].role = role}
    <3>1. S \in SUBSET Int /\ g \in S /\ \A m \in S : m <= g
      BY <1>1, <2>2, <2>3 DEF IsLastGraph, Regular
    <3>2. LastOf(S) = g
      BY <3>1, LastOfIs
    <3> QED BY <3>1, <3>2 DEF GraphOfAccess, LatestGraph
  <2>8. SourcesValid
    <3>1. \A s \in SourcesOf(Definition) : entity.bound[s] = source[s]
      BY <2>1 DEF BuiltOk, Definition, Version
    <3>2. Definition \in Definitions
      BY <1>1, <2>1, RowTypes
    <3>3. \A s \in SourcesOf(Definition) : source[s] # 0
      BY <1>1, <3>2, LifecycleAssumption DEF IInv, OutsideOk
    <3>4. {s \in DOMAIN entity.bound : entity.bound[s] # 0} = SourcesOf(Definition)
      BY <1>1, <3>1, <3>3
    <3> QED BY <3>1, <3>4 DEF SourcesValid
  <2>9. Readable(g)
    BY <2>5, <2>6, <2>7 DEF Readable
  <2> QED BY <1>1, <2>1, <2>4, <2>8, <2>9 DEF CanRefresh, BuiltOk, Regular
<1>2. IInv => UsableWhenBuilt
  BY <1>1 DEF UsableWhenBuilt
<1> QED BY <1>2, Inductive, PTL
=============================================================================
