--------------------------- MODULE Refresh_proofs ---------------------------
(***************************************************************************)
(* Proofs about Refresh: its types and the completeness of what it         *)
(* captures; that the resolver is local, a part that no evidence and no    *)
(* MATCH cuts being resolved as in the whole; and hence that an affected   *)
(* evaluation gives what a full one would, so that Refresh implements      *)
(* Publication.                                                            *)
(***************************************************************************)
EXTENDS Refresh, FiniteSetTheorems, TLAPS

-----------------------------------------------------------------------------
(* Logs.                                                                   *)

\* A log that grows by a batch: what it says is what the batch says, else what
\* it said before.
LEMMA LogGrows ==
  ASSUME NEW log \in Seq(BatchType), NEW b \in BatchType
  PROVE  /\ Append(log, b) \in Seq(BatchType)
         /\ IsFull(Append(log, b)) <=> IsFull(log) \/ b.full
         /\ Touched(Append(log, b)) = Touched(log) \cup b.removed \cup b.added
         /\ \A r : Arrives(Append(log, b), r)
                     <=> r \in b.added \/ (Arrives(log, r) /\ r \notin b.removed)
<1> DEFINE new == Append(log, b)
           n == Len(log)
<1>1. /\ n \in Nat /\ Len(new) = n + 1 /\ new \in Seq(BatchType)
      /\ DOMAIN log = 1 .. n /\ DOMAIN new = 1 .. n + 1
      /\ new[n + 1] = b
      /\ \A i \in 1 .. n : new[i] = log[i]
  OBVIOUS
<1> HIDE DEF new, n
<1>2. \A i \in DOMAIN new : i = n + 1 \/ i \in DOMAIN log
  BY <1>1
<1>3. n + 1 \in DOMAIN new /\ DOMAIN log \subseteq DOMAIN new
  BY <1>1
<1>4. IsFull(new) <=> IsFull(log) \/ b.full
  BY <1>1, <1>2, <1>3 DEF IsFull
<1>5. Touched(new) = Touched(log) \cup b.removed \cup b.added
  <2>1. ASSUME NEW r \in Touched(new) PROVE r \in Touched(log) \cup b.removed \cup b.added
    <3>1. PICK i \in DOMAIN new : r \in new[i].removed \cup new[i].added
      BY <2>1 DEF Touched
    <3> QED
      BY <3>1, <1>1, <1>2 DEF Touched
  <2>2. ASSUME NEW r \in Touched(log) PROVE r \in Touched(new)
    <3>1. PICK i \in DOMAIN log : r \in log[i].removed \cup log[i].added
      BY <2>2 DEF Touched
    <3>2. i \in DOMAIN new /\ new[i] = log[i]
      BY <1>1, <1>3
    <3> QED
      BY <3>1, <3>2 DEF Touched
  <2>3. ASSUME NEW r \in b.removed \cup b.added PROVE r \in Touched(new)
    BY <2>3, <1>1, <1>3 DEF Touched
  <2> QED
    BY <2>1, <2>2, <2>3
<1>6. ASSUME NEW r
      PROVE  Arrives(new, r) <=> r \in b.added \/ (Arrives(log, r) /\ r \notin b.removed)
  <2>1. ASSUME Arrives(new, r), r \notin b.added
        PROVE  Arrives(log, r) /\ r \notin b.removed
    <3>1. PICK i \in DOMAIN new : /\ r \in new[i].added
                                  /\ \A j \in i + 1 .. n + 1 : r \notin new[j].removed
      BY <2>1, <1>1 DEF Arrives
    <3>2. i \in 1 .. n
      BY <3>1, <2>1, <1>1, <1>2
    <3>3. n + 1 \in i + 1 .. n + 1 /\ \A j \in i + 1 .. n : j \in i + 1 .. n + 1 /\ j \in 1 .. n
      BY <3>2, <1>1
    <3> QED
      BY <3>1, <3>2, <3>3, <1>1 DEF Arrives
  <2>2. ASSUME r \in b.added PROVE Arrives(new, r)
    <3>1. \A j \in (n + 1) + 1 .. n + 1 : FALSE
      BY <1>1
    <3> QED
      BY <2>2, <3>1, <1>1, <1>3 DEF Arrives
  <2>3. ASSUME Arrives(log, r), r \notin b.removed PROVE Arrives(new, r)
    <3>1. PICK i \in 1 .. n : /\ r \in log[i].added
                              /\ \A j \in i + 1 .. n : r \notin log[j].removed
      BY <2>3, <1>1 DEF Arrives
    <3>2. \A j \in i + 1 .. n + 1 : j = n + 1 \/ (j \in i + 1 .. n /\ j \in 1 .. n)
      BY <3>1, <1>1
    <3>3. \A j \in i + 1 .. n + 1 : r \notin new[j].removed
      BY <3>1, <3>2, <2>3, <1>1
    <3> QED
      BY <3>1, <3>3, <1>1, <1>3 DEF Arrives
  <2> QED
    BY <2>1, <2>2, <2>3
<1> QED
  BY <1>1, <1>4, <1>5, <1>6 DEF new

\* The empty log says nothing.
LEMMA EmptyLog ==
  /\ << >> \in Seq(BatchType) /\ ~IsFull(<< >>) /\ Touched(<< >>) = {}
  /\ \A r : ~Arrives(<< >>, r)
<1>1. << >> \in Seq(BatchType) /\ DOMAIN << >> = {}
  OBVIOUS
<1> QED
  BY <1>1 DEF IsFull, Touched, Arrives

-----------------------------------------------------------------------------
(* Nodes and their batches.                                                *)

\* The ends of pairs are records.
LEMMA EndsAreRecords == ASSUME NEW ps \in SUBSET Pairs PROVE Ends(ps) \in SUBSET Records
BY DEF Ends, Pairs

\* Ends of a union are those of the parts.
LEMMA EndsSplit ==
  ASSUME NEW P, NEW Q, NEW R, P \subseteq Q \cup R
  PROVE  Ends(P) \subseteq Ends(Q) \cup Ends(R)
BY DEF Ends

\* What a refresh of the graph leaves in its nodes.
LEMMA NodesTyped ==
  ASSUME TypeOK, NEW A \in SUBSET Records
  PROVE  AllNodes(A) \in NodesType /\ SourceNodes \in NodesType /\ nodes \in NodesType
<1>1. src \in [Records -> Values \cup {0}] /\ nodes \in NodesType
  BY DEF TypeOK, Input, InputType, NodesType
<1>2. EvidenceOf(src, A, desired) \in SUBSET Pairs
  BY DEF EvidenceOf, Within
<1>3. GoldenOf(src, A) \in [Records -> Values \cup {0}]
  BY <1>1 DEF GoldenOf
<1>4. AllNodes(A) \in NodesType
  BY <1>1, <1>2, <1>3 DEF NodesType, AllNodes
<1> QED
  BY <1>1, <1>4 DEF NodesType, SourceNodes

\* A batch is well formed; unless its node is recomputed, it has the rows
\* removed and added.
LEMMA BatchFacts ==
  ASSUME NEW c \in Consumers, NEW old, NEW new, old \in NodesType, new \in NodesType
  PROVE  /\ Batch(c, old, new) \in BatchType
         /\ Batch(c, old, new).full <=> c \in invalid
         /\ c \notin invalid => /\ Batch(c, old, new).removed = Removed(c, old, new)
                                /\ Batch(c, old, new).added = Added(c, old, new)
<1>1. /\ Ends(old.evidence \ new.evidence) \in SUBSET Records
      /\ Ends(new.evidence \ old.evidence) \in SUBSET Records
  BY EndsAreRecords DEF NodesType
<1>2. Removed(c, old, new) \in SUBSET Records
  BY <1>1 DEF Removed, Changed, Present
<1>3. Added(c, old, new) \in SUBSET Records
  BY <1>1 DEF Added, Changed, Present
<1> HIDE DEF Removed, Added
<1>4. CASE c \in invalid
  BY <1>4 DEF Batch, BatchType
<1>5. CASE c \notin invalid
  BY <1>5, <1>2, <1>3 DEF Batch, BatchType
<1> QED
  BY <1>4, <1>5

\* The log of a consumer after a refresh of its node.
LEMMA LogAfterFacts ==
  ASSUME TypeOK, NEW c \in Consumers, NEW new \in NodesType
  PROVE  LET log == consumers[c].log
         IN  /\ LogAfter(c, new) \in Seq(BatchType)
             /\ ~IsFull(LogAfter(c, new)) =>
                  /\ ~IsFull(log) /\ c \notin invalid
                  /\ Touched(LogAfter(c, new))
                       = Touched(log) \cup Removed(c, nodes, new) \cup Added(c, nodes, new)
                  /\ \A r : Arrives(LogAfter(c, new), r)
                       <=> \/ r \in Added(c, nodes, new)
                           \/ Arrives(log, r) /\ r \notin Removed(c, nodes, new)
<1> DEFINE log == consumers[c].log
           b == Batch(c, nodes, new)
<1>1. log \in Seq(BatchType)
  BY DEF TypeOK
<1>2. nodes \in NodesType
  BY DEF TypeOK, NodesType
<1>3. /\ b \in BatchType
      /\ b.full <=> c \in invalid
      /\ c \notin invalid => b.removed = Removed(c, nodes, new) /\ b.added = Added(c, nodes, new)
  BY <1>2, BatchFacts
<1>4. LogAfter(c, new) = Append(log, b)
  BY DEF LogAfter
<1> HIDE DEF log, b
<1>5. /\ Append(log, b) \in Seq(BatchType)
      /\ IsFull(Append(log, b)) <=> IsFull(log) \/ b.full
      /\ Touched(Append(log, b)) = Touched(log) \cup b.removed \cup b.added
      /\ \A r : Arrives(Append(log, b), r)
                  <=> r \in b.added \/ (Arrives(log, r) /\ r \notin b.removed)
  BY <1>1, <1>3, LogGrows
<1>6. ASSUME ~IsFull(LogAfter(c, new))
      PROVE  /\ ~IsFull(log) /\ c \notin invalid
             /\ b.removed = Removed(c, nodes, new) /\ b.added = Added(c, nodes, new)
  BY <1>6, <1>3, <1>4, <1>5
<1>7. LogAfter(c, new) \in Seq(BatchType)
  BY <1>4, <1>5
<1> QED
  BY <1>4, <1>5, <1>6, <1>7 DEF log

\* A log touches records only.
LEMMA TouchedAreRecords ==
  ASSUME NEW log \in Seq(BatchType)
  PROVE  Touched(log) \in SUBSET Records
<1>1. \A i \in DOMAIN log : log[i] \in BatchType
  OBVIOUS
<1>2. \A b \in BatchType : b.removed \cup b.added \subseteq Records
  BY DEF BatchType
<1> QED
  BY <1>1, <1>2 DEF Touched

-----------------------------------------------------------------------------
(* What the logs cover.                                                    *)

\* The golden values and the evidence of the last refresh.
ThenGolden == GoldenOf(asOf.src, Active(asOf.src))
ThenEvidence == EvidenceOf(asOf.src, Active(asOf.src), asOf.version)
Differing(P, Q) == Ends((P \ Q) \cup (Q \ P))

\* A complete log of a source, with the registry, gives the keys of the node.
LEMMA SourceStep ==
  ASSUME TypeOK, CaptureCovers, revision > 0,
         NEW r \in Records, NEW new \in NodesType,
         consumers[SourceOf[r]].state = "ACTIVE", ~IsFull(LogAfter(SourceOf[r], new))
  PROVE  new.records[r] # 0
           <=> \/ Arrives(LogAfter(SourceOf[r], new), r)
               \/ r \in registry /\ ~Leaves(LogAfter(SourceOf[r], new), r)
<1> DEFINE s == SourceOf[r]
           log == consumers[s].log
           after == LogAfter(s, new)
<1>1. s \in Sources /\ s \in Consumers /\ s \notin {"evidence", "golden"}
  BY SourcesAssumption, ProducerAssumption DEF Consumers
<1>2. /\ ~IsFull(log) /\ s \notin invalid
      /\ Touched(after) = Touched(log) \cup Removed(s, nodes, new) \cup Added(s, nodes, new)
      /\ Arrives(after, r) <=> \/ r \in Added(s, nodes, new)
                               \/ Arrives(log, r) /\ r \notin Removed(s, nodes, new)
  BY <1>1, LogAfterFacts
<1>3. nodes.records[r] # 0 <=> Arrives(log, r) \/ (r \in registry /\ ~Leaves(log, r))
  BY <1>2 DEF CaptureCovers, Present
<1>4. /\ r \in Removed(s, nodes, new)
           <=> nodes.records[r] # new.records[r] /\ nodes.records[r] # 0
      /\ r \in Added(s, nodes, new)
           <=> nodes.records[r] # new.records[r] /\ new.records[r] # 0
  BY <1>1 DEF Removed, Added, Changed, Present
<1> HIDE DEF s, log, after
<1> QED
  BY <1>2, <1>3, <1>4 DEF Leaves, s, after

\* A complete log of the golden values touches every record whose value is not
\* that of the last refresh.
LEMMA GoldenStep ==
  ASSUME TypeOK, DeltaCovers, revision > 0, observed = desired,
         NEW new \in NodesType,
         consumers["golden"].state = "ACTIVE", ~IsFull(LogAfter("golden", new))
  PROVE  Changed(new.golden, ThenGolden) \subseteq Touched(LogAfter("golden", new))
<1> DEFINE log == consumers["golden"].log
<1>1. "golden" \in Consumers
  BY DEF Consumers, Terminals
<1>2. /\ ~IsFull(log) /\ "golden" \notin invalid
      /\ Touched(LogAfter("golden", new))
           = Touched(log) \cup Removed("golden", nodes, new) \cup Added("golden", nodes, new)
  BY <1>1, LogAfterFacts
<1>3. Changed(nodes.golden, ThenGolden) \subseteq Touched(log)
  BY <1>2 DEF DeltaCovers, ThenGolden
<1>4. Changed(nodes.golden, new.golden)
        \subseteq Removed("golden", nodes, new) \cup Added("golden", nodes, new)
  BY DEF Removed, Added, Changed, Present, NodesType
<1>5. Changed(new.golden, ThenGolden)
        \subseteq Changed(nodes.golden, ThenGolden) \cup Changed(nodes.golden, new.golden)
  BY DEF Changed
<1> QED
  BY <1>2, <1>3, <1>4, <1>5

\* The same for the ends of evidence.
LEMMA EvidenceStep ==
  ASSUME TypeOK, DeltaCovers, revision > 0, observed = desired,
         NEW new \in NodesType,
         consumers["evidence"].state = "ACTIVE", ~IsFull(LogAfter("evidence", new))
  PROVE  Differing(ThenEvidence, new.evidence) \subseteq Touched(LogAfter("evidence", new))
<1> DEFINE log == consumers["evidence"].log
<1>1. "evidence" \in Consumers
  BY DEF Consumers, Terminals
<1>2. /\ ~IsFull(log) /\ "evidence" \notin invalid
      /\ Touched(LogAfter("evidence", new))
           = Touched(log) \cup Removed("evidence", nodes, new) \cup Added("evidence", nodes, new)
  BY <1>1, LogAfterFacts
<1>3. Differing(ThenEvidence, nodes.evidence) \subseteq Touched(log)
  BY <1>2 DEF DeltaCovers, ThenEvidence, Differing
<1>4. /\ Removed("evidence", nodes, new) = Ends(nodes.evidence \ new.evidence)
      /\ Added("evidence", nodes, new) = Ends(new.evidence \ nodes.evidence)
  BY DEF Removed, Added
<1>5. Differing(ThenEvidence, new.evidence)
        \subseteq Differing(ThenEvidence, nodes.evidence)
                    \cup Ends((nodes.evidence \ new.evidence) \cup (new.evidence \ nodes.evidence))
  BY EndsSplit DEF Differing
<1>6. Ends((nodes.evidence \ new.evidence) \cup (new.evidence \ nodes.evidence))
        \subseteq Ends(nodes.evidence \ new.evidence) \cup Ends(new.evidence \ nodes.evidence)
  BY EndsSplit
<1> QED
  BY <1>2, <1>3, <1>4, <1>5, <1>6

\* Whether the keys of a source are scanned or read from its log, those that
\* it holds are registered.
LEMMA RegisteredExact ==
  ASSUME TypeOK, CaptureCovers, NEW rebuild \in BOOLEAN
  PROVE  Registered(rebuild) = Active(src)
<1>1. SourceNodes \in NodesType
  BY NodesTyped
<1>2. SourceNodes.records = src
  BY DEF SourceNodes, TypeOK, NodesType
<1>3. ASSUME NEW r \in Records, Captures(SourceOf[r], rebuild)
      PROVE  src[r] # 0 <=> \/ Arrives(LogAfter(SourceOf[r], SourceNodes), r)
                            \/ r \in registry /\ ~Leaves(LogAfter(SourceOf[r], SourceNodes), r)
  BY <1>1, <1>2, <1>3, SourceStep DEF Captures
<1> QED
  BY <1>3 DEF Registered, Active

-----------------------------------------------------------------------------
(* Refreshes of an exact range.                                            *)

ObservedIsLast == revision > 0 => observed = asOf.version

IInv == TypeOK /\ RegistryExact /\ CaptureCovers /\ DeltaCovers /\ ObservedIsLast

\* With every active record registered, the golden values are the sources'.
LEMMA GoldenIsSource ==
  ASSUME NEW s \in [Records -> Values \cup {0}]
  PROVE  GoldenOf(s, Active(s)) = s
BY DEF GoldenOf, Active

\* The seeds of an exact range are records, and every record whose row or
\* evidence is not what the last refresh saw is one.
LEMMA SeedsComplete ==
  ASSUME IInv, NEW rebuild \in BOOLEAN, Exact(Active(src), rebuild)
  PROVE  /\ DeltaSeeds(Active(src)) \in SUBSET Records
         /\ Changed(src, asOf.src) \subseteq DeltaSeeds(Active(src))
         /\ Differing(ThenEvidence, AllNodes(Active(src)).evidence)
              \subseteq DeltaSeeds(Active(src))
<1> DEFINE A == Active(src)
           new == AllNodes(A)
<1> USE DEF IInv
<1>1. A \in SUBSET Records /\ new \in NodesType
  BY NodesTyped DEF Active
<1>2. /\ revision > 0 /\ observed = desired
      /\ \A t \in {"evidence", "golden"} :
           consumers[t].state = "ACTIVE" /\ ~IsFull(LogAfter(t, new))
  BY DEF Exact, Terminals
<1>3. src \in [Records -> Values \cup {0}] /\ asOf.src \in [Records -> Values \cup {0}]
  BY DEF TypeOK, InputType, Input
<1>4. new.golden = src /\ ThenGolden = asOf.src
  BY <1>3, GoldenIsSource DEF AllNodes, ThenGolden
<1> HIDE DEF new
<1>5. /\ LogAfter("golden", new) \in Seq(BatchType)
      /\ LogAfter("evidence", new) \in Seq(BatchType)
  BY <1>1, LogAfterFacts DEF Consumers, Terminals
<1>6. DeltaSeeds(A) = Touched(LogAfter("golden", new)) \cup Touched(LogAfter("evidence", new))
  BY DEF DeltaSeeds, Terminals, new
<1>7. Changed(src, asOf.src) \subseteq Touched(LogAfter("golden", new))
  BY <1>1, <1>2, <1>4, GoldenStep
<1>8. Differing(ThenEvidence, new.evidence) \subseteq Touched(LogAfter("evidence", new))
  BY <1>1, <1>2, EvidenceStep
<1> QED
  BY <1>5, <1>6, <1>7, <1>8, TouchedAreRecords DEF new

\* The scope contains the seeds.
LEMMA ScopeSeeded ==
  ASSUME NEW A
  PROVE  /\ Scope(A) \in SUBSET Records
         /\ (DeltaSeeds(A) \cup ControlSeeds(A)) \cap Records \subseteq Scope(A)
<1> HIDE DEF DeltaSeeds, ControlSeeds, Closed
<1> QED
  BY DEF Scope

\* An evaluation gives each of its records a row.
LEMMA EvaluateRows ==
  ASSUME NEW A, NEW e, NEW g, NEW d, NEW a, NEW v
  PROVE  DOMAIN Evaluate(A, e, g, d, a, v).rows = A
BY DEF Evaluate

\* What a refresh publishes has a row for each active record.
LEMMA OutcomeRows ==
  ASSUME IInv, NEW rebuild \in BOOLEAN, NEW result \in Outcomes(Active(src), rebuild)
  PROVE  DOMAIN result.rows = Active(src)
<1> DEFINE A == Active(src)
           S == Scope(A)
<1> USE DEF IInv
<1>1. CASE result = EvaluateFull(A)
  BY <1>1, EvaluateRows DEF EvaluateFull
<1>2. ASSUME Exact(A, rebuild)
      PROVE  /\ DeltaSeeds(A) \in SUBSET Records
             /\ \A r \in Records \ DeltaSeeds(A) : r \in A <=> r \in registry
             /\ DOMAIN published.rows = registry /\ registry \subseteq Records
  <2>1. DeltaSeeds(A) \in SUBSET Records /\ Changed(src, asOf.src) \subseteq DeltaSeeds(A)
    BY <1>2, SeedsComplete
  <2>2. registry = Active(asOf.src)
    BY <1>2 DEF Exact, RegistryExact
  <2> QED
    BY <2>1, <2>2 DEF TypeOK, Changed, Active
<1>3. CASE Exact(A, rebuild) /\ DeltaSeeds(A) = {} /\ result = published
  BY <1>2, <1>3 DEF Active
<1>4. CASE Exact(A, rebuild) /\ result = EvaluateAffected(A)
  <2>1. DOMAIN result.rows = (registry \ S) \cup (A \cap S)
    BY <1>2, <1>4 DEF EvaluateAffected
  <2>2. DeltaSeeds(A) \subseteq S
    BY <1>2, <1>4, ScopeSeeded
  <2> QED
    BY <1>2, <1>4, <2>1, <2>2 DEF Active
<1> QED
  BY <1>1, <1>3, <1>4 DEF Outcomes

-----------------------------------------------------------------------------
(* Preservation by a refresh.                                              *)

\* A refresh registers the active records and publishes an outcome for them.
LEMMA RefreshFacts ==
  ASSUME IInv, NEW rebuild \in BOOLEAN, Refresh(rebuild)
  PROVE  LET A == Active(src)
         IN  /\ registry' = A /\ known' = known \cup A
             /\ nodes' = AllNodes(A) /\ invalid' = {} /\ consumers' = Finished(A)
             /\ observed' = desired /\ asOf' = Input
             /\ UNCHANGED <<src, decided, anchors, desired, changes>>
             /\ published' \in Outcomes(A, rebuild)
             /\ \/ /\ revision = 0 \/ published' # published
                   /\ revision' = revision + 1
                   /\ active_version' = desired /\ edits' = NoEdits
                \/ /\ revision > 0 /\ published' = published
                   /\ UNCHANGED <<revision, active_version, edits>>
<1> DEFINE A == Active(src)
<1>1. Registered(rebuild) = A
  BY RegisteredExact DEF IInv
<1>2. PICK result \in Outcomes(A, rebuild) :
        IF revision = 0 \/ result # published THEN Publish(result)
        ELSE UNCHANGED <<published, revision, active_version, edits>>
  BY <1>1 DEF Refresh
<1>3. revision \in Nat
  BY DEF IInv, TypeOK
<1> HIDE DEF A
<1>4. /\ registry' = A /\ known' = known \cup A
      /\ nodes' = AllNodes(A) /\ invalid' = {} /\ consumers' = Finished(A)
      /\ observed' = desired /\ asOf' = Input
      /\ UNCHANGED <<src, decided, anchors, desired, changes>>
  BY <1>1 DEF Refresh
<1>5. CASE revision = 0 \/ result # published
  BY <1>2, <1>4, <1>5 DEF Publish, A
<1>6. CASE ~(revision = 0 \/ result # published)
  BY <1>2, <1>3, <1>4, <1>6 DEF A
<1> QED
  BY <1>5, <1>6

\* What a refresh leaves to be read.
LEMMA FinishedFacts ==
  ASSUME TypeOK, NEW A \in SUBSET Records
  PROVE  /\ Finished(A) \in [Consumers -> [state : {"ACTIVE", "LOST", "MISSING"},
                                           log : Seq(BatchType)]]
         /\ \A s \in Sources : Finished(A)[s] = Fresh
<1>1. nodes \in NodesType /\ AllNodes(A) \in NodesType
  BY NodesTyped
<1>2. \A c \in Consumers : Batch(c, nodes, AllNodes(A)) \in BatchType
  BY <1>1, BatchFacts
<1>3. \A b \in BatchType : <<b>> \in Seq(BatchType)
  OBVIOUS
<1>4. \A c \in Consumers :
        [Fresh EXCEPT !.log = <<Batch(c, nodes, AllNodes(A))>>]
          = [state |-> "ACTIVE", log |-> <<Batch(c, nodes, AllNodes(A))>>]
  BY DEF Fresh
<1> HIDE DEF Batch, AllNodes, BatchType
<1>5. Fresh \in [state : {"ACTIVE", "LOST", "MISSING"}, log : Seq(BatchType)]
  BY EmptyLog DEF Fresh
<1>6. \A s \in Sources : s \in Consumers /\ s \notin Terminals
  BY ProducerAssumption DEF Consumers, Terminals
<1> QED
  BY <1>2, <1>3, <1>4, <1>5, <1>6 DEF Finished

LEMMA RefreshTyped ==
  ASSUME IInv, NEW rebuild \in BOOLEAN, Refresh(rebuild)
  PROVE  TypeOK'
<1> DEFINE A == Active(src)
<1>1. TypeOK
  BY DEF IInv
<1>2. A \in SUBSET Records
  BY DEF Active
<1>3. /\ registry' = A /\ known' = known \cup A
      /\ nodes' = AllNodes(A) /\ invalid' = {} /\ consumers' = Finished(A)
      /\ observed' = desired /\ asOf' = Input
      /\ UNCHANGED <<src, decided, anchors, desired, changes>>
      /\ published' \in Outcomes(A, rebuild)
      /\ \/ /\ revision' = revision + 1
            /\ active_version' = desired /\ edits' = NoEdits
         \/ UNCHANGED <<revision, active_version, edits>>
  BY RefreshFacts
<1>4. DOMAIN published'.rows = A
  BY <1>3, OutcomeRows
<1>5. /\ nodes' \in NodesType
      /\ consumers' \in [Consumers -> [state : {"ACTIVE", "LOST", "MISSING"},
                                       log : Seq(BatchType)]]
  BY <1>1, <1>2, <1>3, NodesTyped, FinishedFacts
<1>6. Input' = Input
  BY <1>3 DEF Input
<1>7. Input \in InputType /\ desired \in Versions
  BY <1>1 DEF TypeOK, InputType, Input
<1>8. NoEdits \in [pairs : SUBSET Pairs, anchors : SUBSET Records]
  BY DEF NoEdits
<1> HIDE DEF A
<1> QED
  BY <1>1, <1>2, <1>3, <1>4, <1>5, <1>6, <1>7, <1>8 DEF TypeOK

LEMMA RefreshCovers ==
  ASSUME IInv, NEW rebuild \in BOOLEAN, Refresh(rebuild)
  PROVE  RegistryExact' /\ CaptureCovers' /\ DeltaCovers' /\ ObservedIsLast'
<1> DEFINE A == Active(src)
<1>1. TypeOK /\ A \in SUBSET Records
  BY DEF IInv, Active
<1>2. /\ registry' = A /\ nodes' = AllNodes(A) /\ consumers' = Finished(A)
      /\ observed' = desired /\ asOf' = Input /\ desired' = desired
  BY RefreshFacts
<1>3. asOf'.src = src /\ asOf'.version = desired
  BY <1>2 DEF Input
<1>4. RegistryExact' /\ ObservedIsLast'
  BY <1>2, <1>3 DEF RegistryExact, ObservedIsLast
<1>5. CaptureCovers'
  <2>1. SUFFICES ASSUME NEW r \in Records
                 PROVE  LET log == consumers'[SourceOf[r]].log
                        IN  r \in Present(nodes'.records)
                              <=> Arrives(log, r) \/ (r \in registry' /\ ~Leaves(log, r))
    BY DEF CaptureCovers
  <2>2. consumers'[SourceOf[r]].log = << >>
    BY <1>1, <1>2, FinishedFacts, SourcesAssumption DEF Fresh
  <2>3. nodes'.records = src
    BY <1>2 DEF AllNodes
  <2> QED
    BY <1>2, <2>2, <2>3, EmptyLog DEF Present, Leaves, Active
<1>6. DeltaCovers'
  <2>1. /\ nodes'.golden = GoldenOf(asOf'.src, Active(asOf'.src))
        /\ nodes'.evidence = EvidenceOf(asOf'.src, Active(asOf'.src), asOf'.version)
    BY <1>2, <1>3 DEF AllNodes
  <2>2. \A f : Changed(f, f) = {}
    BY DEF Changed
  <2>3. \A P : Ends((P \ P) \cup (P \ P)) = {}
    BY DEF Ends
  <2> QED
    BY <2>1, <2>2, <2>3 DEF DeltaCovers
<1> QED
  BY <1>4, <1>5, <1>6

-----------------------------------------------------------------------------
(* Preservation by what happens between refreshes.                         *)

\* Another refresh of the graph adds to the logs what it changes in the nodes.
LEMMA RefreshGraphPreserves ==
  ASSUME IInv, RefreshGraph, changes' \in 0 .. MaxChanges
  PROVE  IInv'
<1> DEFINE new == AllNodes(registry)
<1>1. TypeOK /\ registry \in SUBSET Records
  BY DEF IInv, TypeOK
<1>2. new \in NodesType /\ new.records = src
  BY <1>1, NodesTyped DEF AllNodes
<1>3. /\ nodes' = new /\ invalid' = {}
      /\ UNCHANGED <<src, decided, anchors, edits, desired, active_version, known, registry,
                     observed, published, revision, asOf>>
  BY DEF RefreshGraph, stewards, ledger
<1>4. \A c \in Consumers :
        consumers'[c] = IF consumers[c].state = "ACTIVE"
                        THEN [consumers[c] EXCEPT !.log = LogAfter(c, new)] ELSE consumers[c]
  BY DEF RefreshGraph
<1>5. \A c \in Consumers : LogAfter(c, new) \in Seq(BatchType)
  BY <1>1, <1>2, LogAfterFacts
<1> HIDE DEF new
<1>6. \A c \in Consumers :
        consumers'[c].state = "ACTIVE" =>
          consumers[c].state = "ACTIVE" /\ consumers'[c].log = LogAfter(c, new)
  BY <1>1, <1>4 DEF TypeOK
<1>7. consumers' \in [Consumers -> [state : {"ACTIVE", "LOST", "MISSING"}, log : Seq(BatchType)]]
  <2> DEFINE L == Seq(BatchType)
  <2> HIDE DEF L
  <2>1. \A c \in Consumers :
          consumers'[c] \in [state : {"ACTIVE", "LOST", "MISSING"}, log : L]
    <3>1. \A c \in Consumers : consumers[c] \in [state : {"ACTIVE", "LOST", "MISSING"}, log : L]
      BY <1>1 DEF TypeOK, L
    <3>2. \A c \in Consumers : LogAfter(c, new) \in L
      BY <1>5 DEF L
    <3> QED
      BY <1>4, <3>1, <3>2
  <2>2. \E f : consumers' = [c \in Consumers |-> f[c]]
    <3>1. consumers' = [c \in Consumers |-> consumers'[c]]
      BY DEF RefreshGraph
    <3> QED
      BY <3>1
  <2> QED
    BY <2>1, <2>2 DEF L
<1>8. TypeOK'
  BY <1>1, <1>2, <1>3, <1>7 DEF TypeOK, Input
<1>9. RegistryExact' /\ ObservedIsLast'
  BY <1>3 DEF IInv, RegistryExact, ObservedIsLast
<1>10. CaptureCovers'
  <2>1. SUFFICES ASSUME NEW r \in Records, revision > 0,
                        consumers'[SourceOf[r]].state = "ACTIVE",
                        ~IsFull(consumers'[SourceOf[r]].log)
                 PROVE  LET log == consumers'[SourceOf[r]].log
                        IN  r \in Present(nodes'.records)
                              <=> Arrives(log, r) \/ (r \in registry /\ ~Leaves(log, r))
    BY <1>3 DEF CaptureCovers
  <2>2. SourceOf[r] \in Consumers
    BY SourcesAssumption DEF Consumers
  <2>3. new.records[r] # 0
          <=> \/ Arrives(LogAfter(SourceOf[r], new), r)
              \/ r \in registry /\ ~Leaves(LogAfter(SourceOf[r], new), r)
    BY <1>1, <1>2, <1>6, <2>1, <2>2, SourceStep DEF IInv
  <2> QED
    BY <1>3, <1>6, <2>1, <2>2, <2>3 DEF Present
<1>11. DeltaCovers'
  <2>1. SUFFICES ASSUME revision > 0, observed = desired
                 PROVE  DeltaCovers'
    BY <1>3 DEF DeltaCovers
  <2>2. "golden" \in Consumers /\ "evidence" \in Consumers
    BY DEF Consumers, Terminals
  <2>3. consumers'["golden"].state = "ACTIVE" /\ ~IsFull(consumers'["golden"].log) =>
          Changed(new.golden, ThenGolden) \subseteq Touched(consumers'["golden"].log)
    BY <1>1, <1>2, <1>6, <2>1, <2>2, GoldenStep DEF IInv
  <2>4. consumers'["evidence"].state = "ACTIVE" /\ ~IsFull(consumers'["evidence"].log) =>
          Differing(ThenEvidence, new.evidence) \subseteq Touched(consumers'["evidence"].log)
    BY <1>1, <1>2, <1>6, <2>1, <2>2, EvidenceStep DEF IInv
  <2> QED
    BY <1>3, <2>3, <2>4 DEF DeltaCovers, ThenGolden, ThenEvidence, Differing
<1> QED
  BY <1>8, <1>9, <1>10, <1>11 DEF IInv

\* A source, a steward or the producer disturbs one part of the state only.
LEMMA ElsewherePreserves ==
  ASSUME IInv, Elsewhere, changes' \in 0 .. MaxChanges
  PROVE  IInv'
<1> USE DEF IInv
<1>1. ASSUME NEW r \in Records, NEW v \in Values \cup {0}, Write(r, v) PROVE IInv'
  <2>1. TypeOK'
    BY <1>1 DEF TypeOK, Write, Input, InputType, graph, ledger, stewards
  <2> QED
    BY <1>1, <2>1 DEF Write, graph, ledger, stewards, RegistryExact, CaptureCovers, DeltaCovers,
                      ObservedIsLast
<1>2. ASSUME NEW p \in Decidable, NEW kind \in {"MATCH", "NOT_MATCH"}, Decide(p, kind) PROVE IInv'
  <2>1. p \in Pairs
    BY StewardsAssumption
  <2>2. /\ decided' = [decided EXCEPT ![p] = kind]
        /\ edits' = [edits EXCEPT !.pairs = edits.pairs \cup {p}]
        /\ UNCHANGED <<src, anchors, desired, nodes, invalid, consumers, active_version, known,
                       registry, observed, published, revision, asOf>>
    BY <1>2 DEF Decide, graph, ledger
  <2>3. TypeOK'
    BY <2>1, <2>2 DEF TypeOK, Input, InputType
  <2> QED
    BY <2>2, <2>3 DEF RegistryExact, CaptureCovers, DeltaCovers, ObservedIsLast
<1>3. ASSUME NEW a \in Anchors, Override(a) PROVE IInv'
  <2>1. a \in Records
    BY StewardsAssumption
  <2>2. /\ anchors' \in {anchors \ {a}, anchors \cup {a}}
        /\ edits' = [edits EXCEPT !.anchors = edits.anchors \cup {a}]
        /\ UNCHANGED <<src, decided, desired, nodes, invalid, consumers, active_version, known,
                       registry, observed, published, revision, asOf>>
    BY <1>3 DEF Override, graph, ledger
  <2>3. TypeOK'
    BY <2>1, <2>2 DEF TypeOK, Input, InputType
  <2> QED
    BY <2>2, <2>3 DEF RegistryExact, CaptureCovers, DeltaCovers, ObservedIsLast
<1>4. CASE RefreshGraph
  BY <1>4, RefreshGraphPreserves
<1>5. ASSUME NEW c \in Consumers, Invalidate(c) PROVE IInv'
  <2>1. TypeOK'
    BY <1>5 DEF TypeOK, Invalidate, Input, ledger, stewards
  <2> QED
    BY <1>5, <2>1 DEF Invalidate, ledger, stewards, RegistryExact, CaptureCovers, DeltaCovers,
                      ObservedIsLast
<1>6. ASSUME NEW c \in Consumers, Lose(c) PROVE IInv'
  <2>1. Lost \in [state : {"ACTIVE", "LOST", "MISSING"}, log : Seq(BatchType)]
    BY EmptyLog DEF Lost
  <2>2. /\ consumers' = [consumers EXCEPT ![c] = Lost]
        /\ UNCHANGED <<src, decided, anchors, edits, desired, nodes, invalid, active_version,
                       known, registry, observed, published, revision, asOf>>
    BY <1>6 DEF Lose, ledger, stewards
  <2>3. TypeOK'
    BY <2>1, <2>2 DEF TypeOK, Input
  <2>4. \A d \in Consumers : consumers'[d].state = "ACTIVE" => consumers'[d] = consumers[d]
    BY <2>2 DEF Lost, TypeOK
  <2>5. CaptureCovers'
    BY <2>2, <2>4, SourcesAssumption DEF CaptureCovers, Consumers
  <2>6. DeltaCovers'
    BY <2>2, <2>4 DEF DeltaCovers, Consumers, Terminals
  <2> QED
    BY <2>2, <2>3, <2>5, <2>6 DEF RegistryExact, ObservedIsLast
<1>7. ASSUME NEW v \in {desired, desired + 1} \cap Versions, Install(v) PROVE IInv'
  <2>1. /\ desired' = v /\ nodes' = EmptyNodes /\ invalid' = Consumers /\ consumers' = Installed
        /\ UNCHANGED <<src, decided, anchors, edits, active_version,
                       known, registry, observed, published, revision, asOf>>
    BY <1>7 DEF Install, ledger, stewards
  <2>2. Installed \in [Consumers -> [state : {"ACTIVE", "LOST", "MISSING"}, log : Seq(BatchType)]]
    BY EmptyLog DEF Installed, Fresh, Missing
  <2>3. EmptyNodes \in NodesType
    BY DEF EmptyNodes, NodesType
  <2>4. TypeOK'
    BY <2>1, <2>2, <2>3 DEF TypeOK, Input, InputType
  <2>5. CaptureCovers'
    BY <2>1, SourcesAssumption DEF CaptureCovers, Consumers
  <2>6. DeltaCovers'
    BY <2>1 DEF DeltaCovers, Consumers, Terminals
  <2> QED
    BY <2>1, <2>4, <2>5, <2>6 DEF RegistryExact, ObservedIsLast
<1> QED
  BY <1>1, <1>2, <1>3, <1>4, <1>5, <1>6, <1>7 DEF Elsewhere

-----------------------------------------------------------------------------
(* Types and captures.                                                     *)

LEMMA InitIInv == ASSUME Init PROVE IInv
<1>1. TypeOK
  <2>1. /\ src \in [Records -> Values \cup {0}] /\ 1 \in Versions /\ MaxChanges \in Nat
    BY SourcesAssumption, VersionsAssumption, BoundAssumption DEF Init
  <2>2. Input \in InputType
    BY <2>1 DEF Init, Input, InputType
  <2>3. nodes \in NodesType
    BY DEF Init, EmptyNodes, NodesType
  <2>4. consumers \in [Consumers -> [state : {"ACTIVE", "LOST", "MISSING"}, log : Seq(BatchType)]]
    BY EmptyLog DEF Init, Installed, Fresh, Missing
  <2>5. DOMAIN published.rows = registry
    BY DEF Init, Nothing
  <2> QED
    BY <2>1, <2>2, <2>3, <2>4, <2>5 DEF Init, TypeOK, NoEdits
<1> QED
  BY <1>1 DEF Init, IInv, RegistryExact, CaptureCovers, DeltaCovers, ObservedIsLast

LEMMA NextIInv == ASSUME IInv, [Next]_vars PROVE IInv'
<1>1. ASSUME NEW rebuild \in BOOLEAN, Refresh(rebuild) PROVE IInv'
  BY <1>1, RefreshTyped, RefreshCovers DEF IInv
<1>2. CASE changes < MaxChanges /\ changes' = changes + 1 /\ Elsewhere
  <2>1. changes' \in 0 .. MaxChanges
    BY <1>2, BoundAssumption DEF IInv, TypeOK
  <2> QED
    BY <1>2, <2>1, ElsewherePreserves
<1>3. CASE UNCHANGED vars
  <2>1. TypeOK'
    BY <1>3 DEF IInv, TypeOK, vars, stewards, graph, ledger, Input
  <2> QED
    BY <1>3, <2>1 DEF IInv, RegistryExact, CaptureCovers, DeltaCovers, ObservedIsLast,
                      vars, stewards, graph, ledger
<1> QED
  BY <1>1, <1>2, <1>3 DEF Next

LEMMA Invariance == Spec => []IInv
<1> QED
  BY InitIInv, NextIInv, PTL DEF Spec

\* The state of a refresh's entity stays well formed, and each record that is
\* registered as active has a published row.
THEOREM TypeCorrect == Spec => []TypeOK
BY Invariance, PTL DEF IInv

\* After every refresh the registry is what the sources held, for sources that
\* are scanned and for those whose keys are read from deltas.
THEOREM RegistryCorrect == Spec => []RegistryExact
BY Invariance, PTL DEF IInv

\* No change of a source's keys is lost between its log and the registry.
THEOREM CaptureCorrect == Spec => []CaptureCovers
BY Invariance, PTL DEF IInv

\* No change of evidence or of a golden value is lost to the next refresh.
THEOREM DeltaCorrect == Spec => []DeltaCovers
BY Invariance, PTL DEF IInv

-----------------------------------------------------------------------------
(* The order of the pairs, and the recursion over them.                    *)

\* A family of sets of pairs has a member that contains no other: what holds
\* of a set of pairs if it holds of every smaller one, holds of all.
LEMMA SmallestFamily ==
  ASSUME NEW pairs, IsFiniteSet(pairs), NEW T \in SUBSET (SUBSET pairs), T # {}
  PROVE  \E P \in T : \A Q \in T : Q \subseteq P => Q = P
<1>1. FiniteSubsetsOf(pairs) = SUBSET pairs
  BY FS_FiniteSubsetsOfFinite
<1>2. IsWellFoundedOn(StrictSubsetOrdering(pairs), SUBSET pairs)
  BY <1>1, FS_StrictSubsetOrderingWellFounded
<1>3. PICK P \in T : \A Q \in T : <<Q, P>> \notin StrictSubsetOrdering(pairs)
  BY <1>2, WFMin
<1>4. \A Q \in T : Q \subseteq P => Q = P
  BY <1>3 DEF StrictSubsetOrdering
<1> QED BY <1>4

LEMMA PairsFinite == \A pairs \in SUBSET Pairs : IsFiniteSet(pairs)
<1>1. IsFiniteSet(Records \X Records)
  BY RecordsAssumption, FS_Product
<1>2. \A pairs \in SUBSET Pairs : pairs \in SUBSET (Records \X Records)
  BY DEF Pairs
<1> QED BY <1>1, <1>2, FS_Subset

\* Pairs are tried one at a time: some pair has no later one.
LEMMA LastIn ==
  ASSUME NEW pairs \in SUBSET Pairs, pairs # {}
  PROVE  Last(pairs) \in pairs /\ \A q \in pairs : q = Last(pairs) \/ Before(q, Last(pairs))
<1> DEFINE HasLast(P) == \E p \in P : \A q \in P : q = p \/ Before(q, p)
           T == {P \in SUBSET pairs : P # {} /\ ~HasLast(P)}
<1>1. \A p \in pairs : p[1] \in Nat /\ p[2] \in Nat /\ p = <<p[1], p[2]>>
  <2>1. \A p \in pairs : p \in Records \X Records
    BY DEF Pairs
  <2>2. \A p \in Records \X Records : p[1] \in Nat /\ p[2] \in Nat /\ p = <<p[1], p[2]>>
    <3>1. Records \subseteq Nat
      BY RecordsAssumption
    <3>2. \A p \in Records \X Records : p[1] \in Records /\ p[2] \in Records
      OBVIOUS
    <3>3. \A p \in Records \X Records : p = <<p[1], p[2]>>
      OBVIOUS
    <3> QED BY <3>1, <3>2, <3>3
  <2> QED BY <2>1, <2>2
<1>2. ASSUME NEW P \in T, \A Q \in T : Q \subseteq P => Q = P
      PROVE  FALSE
  <2>1. PICK x \in P : TRUE
    OBVIOUS
  <2>2. P \ {x} # {}
    <3> SUFFICES ASSUME P \ {x} = {} PROVE FALSE
      OBVIOUS
    <3>1. \A q \in P : q = x
      OBVIOUS
    <3> QED BY <2>1, <3>1
  <2>3. HasLast(P \ {x})
    <3>1. P \ {x} \in SUBSET pairs /\ P \ {x} # P /\ P \ {x} \subseteq P
      BY <2>1
    <3>2. P \ {x} \notin T
      <4> HIDE DEF T
      <4> QED BY <1>2, <3>1
    <3> HIDE DEF HasLast
    <3> QED BY <2>2, <3>1, <3>2
  <2>4. PICK y \in P \ {x} : \A q \in P \ {x} : q = y \/ Before(q, y)
    BY <2>3
  <2>5. Before(x, y) \/ Before(y, x)
    BY <1>1, <2>1, <2>4 DEF Before
  <2>6. CASE Before(x, y)
    BY <2>4, <2>6
  <2>7. CASE Before(y, x)
    <3>1. \A q \in P : q = x \/ Before(q, x)
      BY <1>1, <2>1, <2>4, <2>7 DEF Before
    <3> QED BY <2>1, <3>1
  <2> QED BY <2>5, <2>6, <2>7
<1>3. T = {}
  <2>1. T \in SUBSET (SUBSET pairs) /\ IsFiniteSet(pairs)
    BY PairsFinite
  <2> HIDE DEF T
  <2> QED BY <1>2, <2>1, SmallestFamily
<1>4. HasLast(pairs)
  BY <1>3
<1> QED BY <1>4 DEF Last

\* Induction over the pairs tried: T, the sets of which something holds, has
\* the empty set, and with the pairs before the last of a set the set itself.
LEMMA InductionOverPairs ==
  ASSUME NEW pairs \in SUBSET Pairs, NEW T, {} \in T,
         \A P \in SUBSET pairs : P # {} /\ P \ {Last(P)} \in T => P \in T
  PROVE  \A P \in SUBSET pairs : P \in T
<1> DEFINE U == {P \in SUBSET pairs : P \notin T}
<1>1. ASSUME NEW P \in U, \A Q \in U : Q \subseteq P => Q = P
      PROVE  FALSE
  <2>1. P # {} /\ P \in SUBSET Pairs
    OBVIOUS
  <2>2. Last(P) \in P
    BY <2>1, LastIn
  <2>3. P \ {Last(P)} \in T
    BY <1>1, <2>2
  <2> QED BY <2>1, <2>3
<1>2. U = {}
  <2>1. IsFiniteSet(pairs) /\ U \in SUBSET (SUBSET pairs)
    BY PairsFinite
  <2> HIDE DEF U
  <2> QED BY <1>1, <2>1, SmallestFamily
<1> QED BY <1>2

\* The components a pass goes through.
Comps(A) == [A -> A]

LEMMA MergedIs ==
  ASSUME NEW A, NEW comp \in Comps(A), NEW p \in A \X A
  PROVE  /\ Merged(comp, p) \in Comps(A)
         /\ Merged(comp, p)[p[1]] = Merged(comp, p)[p[2]]
         /\ \A r \in A : \/ Merged(comp, p)[r] = comp[r]
                         \/ /\ comp[r] \in {comp[p[1]], comp[p[2]]}
                            /\ Merged(comp, p)[r] \in {comp[p[1]], comp[p[2]]}
         /\ \A r, s \in A : comp[r] = comp[s] => Merged(comp, p)[r] = Merged(comp, p)[s]
         /\ \A r, s \in A : Merged(comp, p)[r] = Merged(comp, p)[s] =>
              comp[r] = comp[s] \/ {comp[r], comp[s]} \subseteq {comp[p[1]], comp[p[2]]}
BY DEF Merged, Comps

LEMMA AdmittedIs ==
  ASSUME NEW A, NEW comp \in Comps(A), NEW p \in A \X A, NEW cannots
  PROVE  Admitted(comp, p, cannots) \in Comps(A)
BY MergedIs DEF Admitted

\* One more pair of the pass.
StepOf(F, tried, start, cannots) ==
  IF tried = {} THEN start
  ELSE Admitted(F[tried \ {Last(tried)}], Last(tried), cannots)

Tries(F, A, start, pairs, cannots) ==
  /\ F \in [SUBSET pairs -> Comps(A)]
  /\ F = [tried \in SUBSET pairs |-> StepOf(F, tried, start, cannots)]

LEMMA PassExists ==
  ASSUME NEW A, NEW start \in Comps(A), NEW pairs \in SUBSET Pairs,
         pairs \subseteq A \X A, NEW cannots
  PROVE  \E F : Tries(F, A, start, pairs, cannots)
<1> DEFINE V == Comps(A)
           D == SUBSET pairs
           Follows(R) == /\ <<{}, start>> \in R
                        /\ \A P \in D : \A v \in V :
                             P # {} /\ <<P \ {Last(P)}, v>> \in R =>
                               <<P, Admitted(v, Last(P), cannots)>> \in R
           G == {g \in D \X V : \A R \in SUBSET (D \X V) : Follows(R) => g \in R}
           One(P) == \E v \in V : \A w \in V : <<P, w>> \in G <=> w = v
<1>1. \A P \in D : P # {} => /\ Last(P) \in P /\ Last(P) \in A \X A
                             /\ P \ {Last(P)} \in D /\ P \ {Last(P)} # P
  BY LastIn
<1>2. \A P \in D : \A v \in V : P # {} => Admitted(v, Last(P), cannots) \in V
  BY <1>1, AdmittedIs
<1>3. Follows(G)
  <2>1. {} \in D /\ start \in V
    OBVIOUS
  <2>2. <<{}, start>> \in G
    BY <2>1
  <2>3. ASSUME NEW P \in D, NEW v \in V, P # {}, <<P \ {Last(P)}, v>> \in G
        PROVE  <<P, Admitted(v, Last(P), cannots)>> \in G
    <3>1. <<P, Admitted(v, Last(P), cannots)>> \in D \X V
      BY <1>2, <2>3
    <3>2. ASSUME NEW R \in SUBSET (D \X V), Follows(R)
          PROVE  <<P, Admitted(v, Last(P), cannots)>> \in R
      <4>1. <<P \ {Last(P)}, v>> \in R
        BY <2>3, <3>2
      <4> QED BY <2>3, <3>2, <4>1
    <3> HIDE DEF Follows, V, D
    <3> QED BY <3>1, <3>2
  <2> HIDE DEF G, V, D
  <2> QED BY <2>2, <2>3
<1>4. ASSUME NEW R \in SUBSET (D \X V), Follows(R)
      PROVE  G \subseteq R
  <2> HIDE DEF Follows, V, D
  <2> QED BY <1>4
<1>5. One({})
  <2> DEFINE R == {g \in G : g[1] = {} => g[2] = start}
  <2>1. G \in SUBSET (D \X V) /\ <<{}, start>> \in G /\ start \in V
    BY <1>3
  <2>2. Follows(R)
    <3>1. <<{}, start>> \in R
      BY <2>1
    <3>2. ASSUME NEW P \in D, NEW v \in V, P # {}, <<P \ {Last(P)}, v>> \in R
          PROVE  <<P, Admitted(v, Last(P), cannots)>> \in R
      <4>1. <<P, Admitted(v, Last(P), cannots)>> \in G
        BY <1>3, <3>2
      <4> HIDE DEF G
      <4> QED BY <3>2, <4>1
    <3> HIDE DEF R, V, D
    <3> QED BY <3>1, <3>2
  <2>3. G \subseteq R
    BY <1>4, <2>1, <2>2
  <2> HIDE DEF G, V, D
  <2> QED BY <2>1, <2>3
<1>6. ASSUME NEW P \in D, P # {}, One(P \ {Last(P)})
      PROVE  One(P)
  <2>1. PICK v \in V : \A w \in V : <<P \ {Last(P)}, w>> \in G <=> w = v
    BY <1>6
  <2> DEFINE next == Admitted(v, Last(P), cannots)
             R == {g \in G : g[1] = P => g[2] = next}
  <2>2. G \in SUBSET (D \X V) /\ next \in V /\ <<P, next>> \in G
    BY <1>2, <1>3, <1>6, <2>1
  <2>3. Follows(R)
    <3>1. <<{}, start>> \in R
      BY <1>3, <1>6
    <3>2. ASSUME NEW Q \in D, NEW u \in V, Q # {}, <<Q \ {Last(Q)}, u>> \in R
          PROVE  <<Q, Admitted(u, Last(Q), cannots)>> \in R
      <4>1. <<Q, Admitted(u, Last(Q), cannots)>> \in G
        BY <1>3, <3>2
      <4>2. Q = P => u = v
        BY <2>1, <3>2
      <4> HIDE DEF G
      <4> QED BY <4>1, <4>2
    <3> HIDE DEF R, V, D
    <3> QED BY <3>1, <3>2
  <2>4. G \subseteq R
    <3>1. R \in SUBSET (D \X V)
      <4> HIDE DEF G, V, D
      <4> QED BY <2>2
    <3> HIDE DEF G, V, D, R, Follows
    <3> QED BY <1>4, <2>3, <3>1
  <2> HIDE DEF G, V, D, next
  <2> QED BY <2>2, <2>4
<1>7. \A P \in D : One(P)
  <2> HIDE DEF One
  <2> DEFINE T == {P \in D : One(P)}
  <2>1. {} \in T
    BY <1>5
  <2>2. \A P \in SUBSET pairs : P # {} /\ P \ {Last(P)} \in T => P \in T
    BY <1>6
  <2>3. \A P \in SUBSET pairs : P \in T
    <3> HIDE DEF T
    <3> QED BY <2>1, <2>2, InductionOverPairs
  <2> QED BY <2>3
<1> DEFINE F == [P \in D |-> CHOOSE v \in V : <<P, v>> \in G]
<1>8. \A P \in D : /\ F[P] \in V /\ <<P, F[P]>> \in G
                   /\ \A w \in V : <<P, w>> \in G => w = F[P]
  <2> HIDE DEF G, V, D
  <2> QED BY <1>7
<1>9. ASSUME NEW P \in D PROVE F[P] = StepOf(F, P, start, cannots)
  <2>1. CASE P = {}
    <3>1. <<P, start>> \in G /\ start \in V
      BY <1>3, <2>1
    <3> HIDE DEF F, G
    <3> QED BY <1>8, <2>1, <3>1 DEF StepOf
  <2>2. CASE P # {}
    <3>1. P \ {Last(P)} \in D
      BY <1>1, <2>2
    <3>2. <<P, Admitted(F[P \ {Last(P)}], Last(P), cannots)>> \in G
      <4>1. F[P \ {Last(P)}] \in V /\ <<P \ {Last(P)}, F[P \ {Last(P)}]>> \in G
        BY <1>8, <3>1
      <4> HIDE DEF F, G
      <4> QED BY <1>3, <2>2, <4>1
    <3>3. Admitted(F[P \ {Last(P)}], Last(P), cannots) \in V
      <4> HIDE DEF F, V
      <4> QED BY <1>2, <1>8, <2>2, <3>1
    <3> HIDE DEF F, G
    <3> QED BY <1>8, <2>2, <3>2, <3>3 DEF StepOf
  <2> QED BY <2>1, <2>2
<1>10. F \in [SUBSET pairs -> Comps(A)]
  <2>1. \A P \in D : F[P] \in V
    BY <1>8
  <2> QED BY <2>1
<1>11. DOMAIN F = SUBSET pairs
  OBVIOUS
<1> HIDE DEF F
<1>12. F = [tried \in SUBSET pairs |-> StepOf(F, tried, start, cannots)]
  BY <1>9, <1>10, <1>11
<1> QED BY <1>10, <1>12 DEF Tries

\* The components after each of the sets of pairs that a pass goes through.
Trail(F, A, start, pairs, cannots) ==
  /\ F \in [SUBSET pairs -> Comps(A)]
  /\ F[{}] = start
  /\ \A P \in SUBSET pairs :
       P # {} => F[P] = Admitted(F[P \ {Last(P)}], Last(P), cannots)

LEMMA PassHasTrail ==
  ASSUME NEW A, NEW start \in Comps(A), NEW pairs \in SUBSET Pairs,
         pairs \subseteq A \X A, NEW cannots
  PROVE  \E F : Trail(F, A, start, pairs, cannots) /\ Pass(start, pairs, cannots) = F[pairs]
<1> DEFINE After ==
      CHOOSE F : F = [tried \in SUBSET pairs |->
                        IF tried = {} THEN start
                        ELSE Admitted(F[tried \ {Last(tried)}], Last(tried), cannots)]
<1>1. Pass(start, pairs, cannots) = After[pairs]
  BY DEF Pass
<1>2. PICK F : Tries(F, A, start, pairs, cannots)
  BY PassExists
<1>3. F = [tried \in SUBSET pairs |->
             IF tried = {} THEN start
             ELSE Admitted(F[tried \ {Last(tried)}], Last(tried), cannots)]
  BY <1>2 DEF Tries, StepOf
<1>4. After = [tried \in SUBSET pairs |->
                 IF tried = {} THEN start
                 ELSE Admitted(After[tried \ {Last(tried)}], Last(tried), cannots)]
  BY <1>3
<1> HIDE DEF After
<1>5. \A P \in SUBSET pairs : After[P] = F[P]
  <2> DEFINE T == {P \in SUBSET pairs : After[P] = F[P]}
  <2>1. {} \in T
    BY <1>3, <1>4
  <2>2. ASSUME NEW P \in SUBSET pairs, P # {}, P \ {Last(P)} \in T
        PROVE  P \in T
    <3>1. After[P] = Admitted(After[P \ {Last(P)}], Last(P), cannots)
      BY <1>4, <2>2
    <3>2. F[P] = Admitted(F[P \ {Last(P)}], Last(P), cannots)
      BY <1>3, <2>2
    <3> QED BY <2>2, <3>1, <3>2
  <2>3. \A P \in SUBSET pairs : P \in T
    <3> HIDE DEF T
    <3> QED BY <2>1, <2>2, InductionOverPairs
  <2> QED BY <2>3
<1>6. F \in [SUBSET pairs -> Comps(A)]
  BY <1>2 DEF Tries
<1>7. F[{}] = start
  BY <1>3
<1>8. \A P \in SUBSET pairs :
        P # {} => F[P] = Admitted(F[P \ {Last(P)}], Last(P), cannots)
  BY <1>3
<1>9. Pass(start, pairs, cannots) = F[pairs]
  BY <1>1, <1>5
<1> QED BY <1>6, <1>7, <1>8, <1>9 DEF Trail

-----------------------------------------------------------------------------
(* What a pass does.                                                       *)

\* A pass only unites.
Coarser(A, comp, start) == \A r, s \in A : start[r] = start[s] => comp[r] = comp[s]

\* The endpoints of the pairs share a component.
United(comp, pairs) == \A p \in pairs : comp[p[1]] = comp[p[2]]

\* The endpoints of the pairs are in different components.
Apart(comp, pairs) == \A p \in pairs : comp[p[1]] # comp[p[2]]

LEMMA AdmittedStep ==
  ASSUME NEW A \in SUBSET Nat, NEW comp \in Comps(A), NEW p \in A \X A, NEW cannots
  PROVE  /\ Coarser(A, Admitted(comp, p, cannots), comp)
         /\ Apart(comp, cannots) => Apart(Admitted(comp, p, cannots), cannots)
         /\ cannots = {} => United(Admitted(comp, p, cannots), {p})
         /\ \A f : Coarser(A, f, comp) /\ United(f, {p}) =>
              Coarser(A, f, Admitted(comp, p, cannots))
<1>1. p[1] \in A /\ p[2] \in A
  OBVIOUS
<1>2. \A f : Coarser(A, f, comp) /\ United(f, {p}) => Coarser(A, f, Merged(comp, p))
  <2> SUFFICES ASSUME NEW f, Coarser(A, f, comp), United(f, {p}),
                      NEW r \in A, NEW s \in A, Merged(comp, p)[r] = Merged(comp, p)[s]
               PROVE  f[r] = f[s]
    BY DEF Coarser
  <2>1. CASE comp[r] = comp[s]
    BY <2>1 DEF Coarser
  <2>2. CASE {comp[r], comp[s]} \subseteq {comp[p[1]], comp[p[2]]}
    <3>1. f[p[1]] = f[p[2]]
      BY DEF United
    <3>2. \A t \in A : comp[t] \in {comp[p[1]], comp[p[2]]} => f[t] = f[p[1]]
      BY <1>1, <3>1 DEF Coarser
    <3> QED BY <2>2, <3>2
  <2> QED BY <2>1, <2>2, MergedIs
<1>3. Coarser(A, Merged(comp, p), comp)
  BY MergedIs DEF Coarser
<1>4. Coarser(A, comp, comp)
  BY DEF Coarser
<1>5. United(Merged(comp, p), {p})
  <2>1. Merged(comp, p)[p[1]] = Merged(comp, p)[p[2]]
    BY MergedIs
  <2> QED BY <2>1 DEF United
<1>6. CASE \E q \in cannots : Merged(comp, p)[q[1]] = Merged(comp, p)[q[2]]
  <2>1. Admitted(comp, p, cannots) = comp
    BY <1>6 DEF Admitted
  <2> QED BY <1>4, <1>6, <2>1
<1>7. CASE ~ \E q \in cannots : Merged(comp, p)[q[1]] = Merged(comp, p)[q[2]]
  <2>1. Admitted(comp, p, cannots) = Merged(comp, p)
    BY <1>7 DEF Admitted
  <2>2. Apart(Merged(comp, p), cannots)
    BY <1>7 DEF Apart
  <2> QED BY <1>2, <1>3, <1>5, <2>1, <2>2
<1> QED BY <1>6, <1>7

\* The components of a pass are unions of those it starts from, it unites every
\* pair if none is prohibited, keeps the prohibited pairs apart, and unites no
\* more than any assignment f does that meets the pairs.
LEMMA PassIs ==
  ASSUME NEW A \in SUBSET Nat, NEW start \in Comps(A), NEW pairs \in SUBSET Pairs,
         pairs \subseteq A \X A, NEW cannots
  PROVE  LET comp == Pass(start, pairs, cannots)
         IN  /\ comp \in Comps(A)
             /\ Coarser(A, comp, start)
             /\ cannots = {} => United(comp, pairs)
             /\ Apart(start, cannots) => Apart(comp, cannots)
             /\ \A f : Coarser(A, f, start) /\ United(f, pairs) => Coarser(A, f, comp)
<1>1. PICK F : Trail(F, A, start, pairs, cannots) /\ Pass(start, pairs, cannots) = F[pairs]
  BY PassHasTrail
<1> DEFINE Good(P) == /\ F[P] \in Comps(A)
                      /\ Coarser(A, F[P], start)
                      /\ cannots = {} => United(F[P], P)
                      /\ Apart(start, cannots) => Apart(F[P], cannots)
                      /\ \A f : Coarser(A, f, start) /\ United(f, P) => Coarser(A, f, F[P])
           T == {P \in SUBSET pairs : Good(P)}
<1>2. {} \in T
  <2>1. F[{}] = start
    BY <1>1 DEF Trail
  <2> QED BY <2>1 DEF Coarser, United
<1>3. ASSUME NEW P \in SUBSET pairs, P # {}, P \ {Last(P)} \in T
      PROVE  P \in T
  <2> DEFINE p == Last(P)
             before == F[P \ {p}]
             after == F[P]
  <2>1. p \in P /\ p \in A \X A
    BY <1>3, LastIn
  <2>2. after = Admitted(before, p, cannots)
    BY <1>1, <1>3 DEF Trail
  <2>3. Good(P \ {p})
    BY <1>3
  <2>4. before \in Comps(A) /\ after \in Comps(A)
    BY <1>1, <2>3 DEF Trail
  <2>5. /\ Coarser(A, after, before)
        /\ Apart(before, cannots) => Apart(after, cannots)
        /\ cannots = {} => United(after, {p})
        /\ \A f : Coarser(A, f, before) /\ United(f, {p}) => Coarser(A, f, after)
    <3> HIDE DEF before, after, p
    <3> QED BY <2>1, <2>2, <2>4, AdmittedStep
  <2> HIDE DEF before, after
  <2>6. Coarser(A, after, start)
    BY <2>3, <2>5 DEF Coarser, before
  <2>7. cannots = {} => United(after, P)
    <3> SUFFICES ASSUME cannots = {}, NEW q \in P PROVE after[q[1]] = after[q[2]]
      BY DEF United
    <3>1. CASE q = p
      BY <2>5, <3>1 DEF United
    <3>2. CASE q # p
      <4>1. before[q[1]] = before[q[2]]
        BY <2>3, <3>2 DEF United, before
      <4>2. q[1] \in A /\ q[2] \in A
        OBVIOUS
      <4> QED BY <2>5, <4>1, <4>2 DEF Coarser
    <3> QED BY <3>1, <3>2
  <2>8. \A f : Coarser(A, f, start) /\ United(f, P) => Coarser(A, f, after)
    <3> SUFFICES ASSUME NEW f, Coarser(A, f, start), United(f, P)
                 PROVE  Coarser(A, f, after)
      OBVIOUS
    <3>1. United(f, P \ {p}) /\ United(f, {p})
      BY <2>1 DEF United
    <3>2. Coarser(A, f, before)
      BY <2>3, <3>1 DEF before
    <3> QED BY <2>5, <3>1, <3>2
  <2>9. Apart(start, cannots) => Apart(after, cannots)
    BY <2>3, <2>5 DEF before
  <2> QED BY <2>4, <2>6, <2>7, <2>8, <2>9 DEF after
<1>4. \A P \in SUBSET pairs : P \in T
  <2> HIDE DEF T
  <2> QED BY <1>2, <1>3, InductionOverPairs
<1>5. Good(pairs)
  BY <1>4
<1> QED BY <1>1, <1>5

-----------------------------------------------------------------------------
(* A pass over a part.                                                     *)

\* The components of the part S are those the whole A has on it.
Restricts(S, A, part, whole) ==
  /\ \A r \in S : part[r] = whole[r] /\ part[r] \in S
  /\ \A r \in A \ S : whole[r] \notin S

LEMMA MergedPart ==
  ASSUME NEW A, NEW S \in SUBSET A, NEW whole \in Comps(A), NEW part \in Comps(S),
         Restricts(S, A, part, whole), NEW p \in A \X A
  PROVE  /\ p[1] \in S /\ p[2] \in S =>
              /\ Restricts(S, A, Merged(part, p), Merged(whole, p))
              /\ \A r \in A \ S : Merged(whole, p)[r] = whole[r]
         /\ p[1] \notin S /\ p[2] \notin S => Restricts(S, A, part, Merged(whole, p))
<1> DEFINE m == Merged(whole, p)
           n == Merged(part, p)
<1>1. /\ \A r \in A : whole[r] \in A
      /\ \A r \in A : m[r] = IF whole[r] \in {whole[p[1]], whole[p[2]]}
                            THEN IF whole[p[1]] < whole[p[2]] THEN whole[p[1]]
                                 ELSE whole[p[2]]
                            ELSE whole[r]
      /\ \A r \in S : n[r] = IF part[r] \in {part[p[1]], part[p[2]]}
                            THEN IF part[p[1]] < part[p[2]] THEN part[p[1]]
                                 ELSE part[p[2]]
                            ELSE part[r]
  BY DEF Merged, Comps
<1> HIDE DEF m, n
<1>2. p[1] \in A /\ p[2] \in A
  OBVIOUS
<1>3. ASSUME p[1] \in S, p[2] \in S
      PROVE  Restricts(S, A, n, m) /\ \A r \in A \ S : m[r] = whole[r]
  <2>1. \A r \in S : n[r] = m[r] /\ n[r] \in S
    BY <1>1, <1>3 DEF Restricts
  <2>2. \A r \in A \ S : m[r] = whole[r]
    BY <1>1, <1>3 DEF Restricts
  <2> QED BY <2>1, <2>2 DEF Restricts
<1>4. ASSUME p[1] \notin S, p[2] \notin S
      PROVE  Restricts(S, A, part, m)
  <2>1. \A r \in S : part[r] = m[r]
    BY <1>1, <1>2, <1>4 DEF Restricts
  <2>2. \A r \in A \ S : m[r] \notin S
    BY <1>1, <1>2, <1>4 DEF Restricts
  <2> QED BY <2>1, <2>2 DEF Restricts
<1> QED BY <1>3, <1>4 DEF m, n

LEMMA AdmittedPart ==
  ASSUME NEW A, NEW S \in SUBSET A, NEW whole \in Comps(A), NEW part \in Comps(S),
         Restricts(S, A, part, whole), NEW p \in A \X A, p[1] \in S <=> p[2] \in S,
         NEW cannots \in SUBSET (A \X A), Apart(whole, cannots)
  PROVE  /\ p[1] \in S =>
              Restricts(S, A, Admitted(part, p, Within(S, cannots)), Admitted(whole, p, cannots))
         /\ p[1] \notin S => Restricts(S, A, part, Admitted(whole, p, cannots))
<1>1. ASSUME p[1] \in S
      PROVE  Restricts(S, A, Admitted(part, p, Within(S, cannots)), Admitted(whole, p, cannots))
  <2> DEFINE m == Merged(whole, p)
             n == Merged(part, p)
  <2>1. Restricts(S, A, n, m) /\ \A r \in A \ S : m[r] = whole[r]
    BY <1>1, MergedPart
  <2> HIDE DEF m, n
  <2>2. \A q \in cannots : q[1] \in A /\ q[2] \in A
    OBVIOUS
  <2>3. (\E q \in cannots : m[q[1]] = m[q[2]])
          <=> \E q \in Within(S, cannots) : n[q[1]] = n[q[2]]
    <3>1. ASSUME NEW q \in cannots, m[q[1]] = m[q[2]]
          PROVE  q \in Within(S, cannots) /\ n[q[1]] = n[q[2]]
      <4>1. q[1] \in S \/ q[2] \in S
        BY <2>1, <2>2, <3>1 DEF Apart
      <4>2. q[1] \in S /\ q[2] \in S
        BY <2>1, <2>2, <3>1, <4>1 DEF Restricts
      <4> QED BY <2>1, <3>1, <4>2 DEF Restricts, Within
    <3>2. ASSUME NEW q \in Within(S, cannots), n[q[1]] = n[q[2]]
          PROVE  q \in cannots /\ m[q[1]] = m[q[2]]
      BY <2>1, <3>2 DEF Restricts, Within
    <3> QED BY <3>1, <3>2
  <2> QED BY <2>1, <2>3 DEF Admitted, m, n
<1>2. ASSUME p[1] \notin S
      PROVE  Restricts(S, A, part, Admitted(whole, p, cannots))
  <2>1. Restricts(S, A, part, Merged(whole, p))
    BY <1>2, MergedPart
  <2> QED BY <2>1 DEF Admitted
<1> QED BY <1>1, <1>2

\* The last of a set of pairs is the last of any subset that has it.
LEMMA LastOfSubset ==
  ASSUME NEW P \in SUBSET Pairs, NEW Q \in SUBSET P, Last(P) \in Q
  PROVE  Last(Q) = Last(P)
<1>1. \A p, q \in Pairs : ~(Before(p, q) /\ Before(q, p))
  <2>1. \A p \in Pairs : p[1] \in Nat /\ p[2] \in Nat
    BY RecordsAssumption DEF Pairs
  <2> QED BY <2>1 DEF Before
<1>2. Last(Q) \in Q /\ \A q \in Q : q = Last(Q) \/ Before(q, Last(Q))
  BY LastIn
<1>3. \A q \in P : q = Last(P) \/ Before(q, Last(P))
  BY LastIn
<1> QED BY <1>1, <1>2, <1>3

LEMMA PassPart ==
  ASSUME NEW A \in SUBSET Nat, NEW S \in SUBSET A,
         NEW whole \in Comps(A), NEW part \in Comps(S), Restricts(S, A, part, whole),
         NEW pairs \in SUBSET Pairs, pairs \subseteq A \X A, Uncut(S, pairs),
         NEW cannots \in SUBSET (A \X A), Apart(whole, cannots)
  PROVE  Restricts(S, A, Pass(part, Within(S, pairs), Within(S, cannots)),
                   Pass(whole, pairs, cannots))
<1> DEFINE inside == Within(S, cannots)
<1>1. PICK F : /\ Trail(F, A, whole, pairs, cannots)
               /\ Pass(whole, pairs, cannots) = F[pairs]
  BY PassHasTrail
<1>2. Within(S, pairs) \in SUBSET Pairs /\ Within(S, pairs) \subseteq S \X S
  BY DEF Within
<1>3. PICK G : /\ Trail(G, S, part, Within(S, pairs), inside)
               /\ Pass(part, Within(S, pairs), inside) = G[Within(S, pairs)]
  BY <1>2, PassHasTrail
<1>4. /\ F \in [SUBSET pairs -> Comps(A)] /\ F[{}] = whole
      /\ \A P \in SUBSET pairs :
           P # {} => F[P] = Admitted(F[P \ {Last(P)}], Last(P), cannots)
  BY <1>1 DEF Trail
<1>5. /\ G \in [SUBSET Within(S, pairs) -> Comps(S)] /\ G[{}] = part
      /\ \A P \in SUBSET Within(S, pairs) :
           P # {} => G[P] = Admitted(G[P \ {Last(P)}], Last(P), inside)
  BY <1>3 DEF Trail
<1> DEFINE Good(P) == Restricts(S, A, G[Within(S, P)], F[P]) /\ Apart(F[P], cannots)
           T == {P \in SUBSET pairs : Good(P)}
<1>6. {} \in T
  <2>1. Within(S, {}) = {}
    BY DEF Within
  <2> QED BY <1>4, <1>5, <2>1
<1>7. ASSUME NEW P \in SUBSET pairs, P # {}, P \ {Last(P)} \in T
      PROVE  P \in T
  <2> DEFINE p == Last(P)
             rest == P \ {p}
  <2>1. p \in P /\ p \in A \X A /\ (p[1] \in S <=> p[2] \in S) /\ P \in SUBSET Pairs
    BY <1>7, LastIn DEF Uncut
  <2>2. rest \in SUBSET pairs /\ F[rest] \in Comps(A) /\ F[P] = Admitted(F[rest], p, cannots)
    BY <1>4, <1>7
  <2>3. Within(S, rest) \in SUBSET Within(S, pairs) /\ G[Within(S, rest)] \in Comps(S)
    <3>1. Within(S, rest) \in SUBSET Within(S, pairs)
      BY <2>2 DEF Within
    <3> QED BY <1>5, <3>1
  <2>4. Restricts(S, A, G[Within(S, rest)], F[rest]) /\ Apart(F[rest], cannots)
    BY <1>7
  <2>5. Apart(F[P], cannots)
    <3> HIDE DEF p, rest
    <3> QED BY <2>1, <2>2, <2>4, AdmittedStep
  <2>6. CASE p[1] \in S
    <3>1. p \in Within(S, P) /\ Within(S, rest) = Within(S, P) \ {p}
          /\ Within(S, P) \in SUBSET P /\ Within(S, P) \in SUBSET Within(S, pairs)
      BY <2>1, <2>6 DEF Within
    <3>2. Last(Within(S, P)) = p
      BY <2>1, <3>1, LastOfSubset
    <3>3. G[Within(S, P)] = Admitted(G[Within(S, rest)], p, inside)
      <4> HIDE DEF p, rest, inside
      <4> QED BY <1>5, <3>1, <3>2
    <3> HIDE DEF p, rest
    <3>4. Restricts(S, A, Admitted(G[Within(S, rest)], p, inside),
                    Admitted(F[rest], p, cannots))
      BY <2>1, <2>2, <2>3, <2>4, <2>6, AdmittedPart
    <3> QED BY <2>2, <2>5, <3>3, <3>4
  <2>7. CASE p[1] \notin S
    <3>1. Within(S, rest) = Within(S, P)
      BY <2>1, <2>7 DEF Within
    <3> HIDE DEF p, rest, inside
    <3>2. Restricts(S, A, G[Within(S, rest)], Admitted(F[rest], p, cannots))
      BY <2>1, <2>2, <2>3, <2>4, <2>7, AdmittedPart
    <3> QED BY <2>2, <2>5, <3>1, <3>2
  <2> QED BY <2>6, <2>7
<1>8. \A P \in SUBSET pairs : P \in T
  <2> HIDE DEF T
  <2> QED BY <1>6, <1>7, InductionOverPairs
<1>9. Good(pairs)
  BY <1>8
<1> QED BY <1>1, <1>3, <1>9

\* Decisions that can be met are met, and a part that no evidence and no MATCH
\* cuts is resolved as in the whole.
THEOREM ResolvesLocally == ResolverLocal
<1> SUFFICES ASSUME NEW A \in SUBSET Records,
                    NEW evidence \in SUBSET Within(A, Pairs),
                    NEW matches \in SUBSET Within(A, Pairs),
                    NEW cannots \in SUBSET Within(A, Pairs),
                    Satisfiable(matches, cannots)
             PROVE  LET whole == Resolved(A, evidence, matches, cannots)
                    IN  /\ \A p \in matches : whole[p[1]] = whole[p[2]]
                        /\ \A S \in SUBSET A : Uncut(S, evidence \cup matches) =>
                             LET part == Resolved(S, Within(S, evidence), Within(S, matches),
                                                  Within(S, cannots))
                             IN  \A r \in S : part[r] = whole[r] /\ part[r] \in S
  BY DEF ResolverLocal
<1> DEFINE Each(S) == [r \in S |-> r]
           manual == Pass(Each(A), matches, {})
           whole == Pass(manual, evidence, cannots)
<1>1. /\ A \in SUBSET Nat
      /\ evidence \in SUBSET Pairs /\ evidence \subseteq A \X A
      /\ matches \in SUBSET Pairs /\ matches \subseteq A \X A
      /\ cannots \in SUBSET Pairs /\ cannots \in SUBSET (A \X A)
  <2>1. Within(A, Pairs) \subseteq Pairs /\ Within(A, Pairs) \subseteq A \X A
    BY DEF Within, Pairs
  <2> QED BY <2>1, RecordsAssumption
<1>2. \A S : Each(S) \in Comps(S)
  BY DEF Comps
<1>3. /\ manual \in Comps(A) /\ United(manual, matches)
      /\ \A f : Coarser(A, f, Each(A)) /\ United(f, matches) => Coarser(A, f, manual)
  <2> HIDE DEF Each
  <2> QED BY <1>1, <1>2, PassIs
<1>4. Apart(manual, cannots)
  <2>1. PICK f \in [Records -> Records] :
          /\ \A p \in matches : f[p[1]] = f[p[2]]
          /\ \A p \in cannots : f[p[1]] # f[p[2]]
    BY DEF Satisfiable
  <2>2. Coarser(A, f, Each(A)) /\ United(f, matches)
    BY <2>1 DEF Coarser, United
  <2>3. Coarser(A, f, manual)
    <3> HIDE DEF Each, manual
    <3> QED BY <1>3, <2>2
  <2>4. \A p \in cannots : p[1] \in A /\ p[2] \in A
    BY <1>1
  <2> HIDE DEF manual
  <2> QED BY <2>1, <2>3, <2>4 DEF Coarser, Apart
<1>5. \A p \in matches : whole[p[1]] = whole[p[2]]
  <2>1. Coarser(A, whole, manual)
    <3> HIDE DEF manual
    <3> QED BY <1>1, <1>3, PassIs
  <2>2. \A p \in matches : p[1] \in A /\ p[2] \in A
    BY <1>1
  <2> HIDE DEF whole, manual
  <2> QED BY <1>3, <2>1, <2>2 DEF Coarser, United
<1>6. ASSUME NEW S \in SUBSET A, Uncut(S, evidence \cup matches)
      PROVE  Restricts(S, A, Pass(Pass(Each(S), Within(S, matches), {}),
                                  Within(S, evidence), Within(S, cannots)), whole)
  <2> DEFINE part == Pass(Each(S), Within(S, matches), {})
  <2>1. Uncut(S, evidence) /\ Uncut(S, matches)
    BY <1>6 DEF Uncut
  <2>2. Restricts(S, A, Each(S), Each(A)) /\ Apart(Each(A), {}) /\ Within(S, {}) = {}
    BY DEF Restricts, Apart, Within
  <2>3. Restricts(S, A, part, manual)
    <3>1. {} \in SUBSET (A \X A)
      OBVIOUS
    <3>2. Restricts(S, A, Pass(Each(S), Within(S, matches), Within(S, {})), manual)
      <4> HIDE DEF Each
      <4> QED BY <1>1, <1>2, <2>1, <2>2, <3>1, PassPart
    <3> QED BY <2>2, <3>2
  <2>4. part \in Comps(S)
    <3>1. /\ S \in SUBSET Nat /\ Within(S, matches) \in SUBSET Pairs
          /\ Within(S, matches) \subseteq S \X S
      BY <1>1 DEF Within
    <3> HIDE DEF Each
    <3> QED BY <1>2, <3>1, PassIs
  <2>5. Restricts(S, A, Pass(part, Within(S, evidence), Within(S, cannots)),
                  Pass(manual, evidence, cannots))
    <3> HIDE DEF part, manual
    <3> QED BY <1>1, <1>3, <1>4, <2>1, <2>3, <2>4, PassPart
  <2> QED BY <2>5
<1>7. \A S \in SUBSET A : Uncut(S, evidence \cup matches) =>
        LET part == Resolved(S, Within(S, evidence), Within(S, matches), Within(S, cannots))
        IN  \A r \in S : part[r] = whole[r] /\ part[r] \in S
  <2> HIDE DEF whole
  <2> QED BY <1>6 DEF Restricts, Resolved
<1> QED BY <1>5, <1>7 DEF Resolved

-----------------------------------------------------------------------------
(* The rows and facts of an evaluation.                                    *)

MembersOf(A, comp, r) == {s \in A : comp[s] = comp[r]}

RowOf(members, root, golden, an, version) ==
  [members    |-> members,
   overridden |-> an \cap members # {},
   value      |-> IF an \cap members # {} THEN 0 ELSE golden[root],
   notice     |-> IF an \subseteq members THEN 0 ELSE version]

FactsOf(evidence, comp, version) ==
  {[pair |-> p, version |-> version] : p \in {q \in evidence : comp[q[1]] # comp[q[2]]}}

LEMMA EvaluateIs ==
  ASSUME NEW A, NEW e, NEW g, NEW d, NEW an, NEW v
  PROVE  LET comp == Components(A, e, d)
         IN  Evaluate(A, e, g, d, an, v)
               = [rows |-> [r \in A |-> RowOf(MembersOf(A, comp, r), comp[r], g, an, v)],
                  rejected |-> FactsOf(e, comp, v)]
BY DEF Evaluate, MembersOf, RowOf, FactsOf

-----------------------------------------------------------------------------
(* The resolver's part.                                                    *)

\* Chosen pairs of a part are those of the whole.
LEMMA ChosenWithin ==
  ASSUME NEW A, NEW S \in SUBSET A, NEW d, NEW kind
  PROVE  Within(S, Chosen(A, d, kind)) = Chosen(S, d, kind)
BY DEF Within, Chosen

\* The decisions on some of the records can be met if all can.
DecisionsMet(d) == Satisfiable(Chosen(Records, d, "MATCH"), Chosen(Records, d, "NOT_MATCH"))

LEMMA MetWithin ==
  ASSUME NEW d, DecisionsMet(d), NEW A \in SUBSET Records
  PROVE  Satisfiable(Chosen(A, d, "MATCH"), Chosen(A, d, "NOT_MATCH"))
<1>1. \A kind : Chosen(A, d, kind) \subseteq Chosen(Records, d, kind)
  BY DEF Chosen, Within
<1> QED
  BY <1>1 DEF DecisionsMet, Satisfiable

\* What the resolver does with a part that nothing cuts.
LEMMA PartOfWhole ==
  ASSUME NEW A \in SUBSET Records, NEW e \in SUBSET Within(A, Pairs),
         NEW d, DecisionsMet(d), NEW S \in SUBSET A,
         Uncut(S, e \cup Chosen(A, d, "MATCH"))
  PROVE  \A r \in S : /\ Components(S, Within(S, e), d)[r] = Components(A, e, d)[r]
                      /\ Components(S, Within(S, e), d)[r] \in S
<1>1. /\ Chosen(A, d, "MATCH") \in SUBSET Within(A, Pairs)
      /\ Chosen(A, d, "NOT_MATCH") \in SUBSET Within(A, Pairs)
  BY DEF Chosen
<1>2. Satisfiable(Chosen(A, d, "MATCH"), Chosen(A, d, "NOT_MATCH"))
  BY MetWithin
<1>3. \A T \in SUBSET A : Uncut(T, e \cup Chosen(A, d, "MATCH")) =>
        \A r \in T :
          /\ Resolved(T, Within(T, e), Within(T, Chosen(A, d, "MATCH")),
                      Within(T, Chosen(A, d, "NOT_MATCH")))[r]
               = Resolved(A, e, Chosen(A, d, "MATCH"), Chosen(A, d, "NOT_MATCH"))[r]
          /\ Resolved(T, Within(T, e), Within(T, Chosen(A, d, "MATCH")),
                      Within(T, Chosen(A, d, "NOT_MATCH")))[r] \in T
  BY <1>1, <1>2, ResolvesLocally DEF ResolverLocal
<1>4. /\ Within(S, Chosen(A, d, "MATCH")) = Chosen(S, d, "MATCH")
      /\ Within(S, Chosen(A, d, "NOT_MATCH")) = Chosen(S, d, "NOT_MATCH")
  BY ChosenWithin
<1> QED
  BY <1>3, <1>4 DEF Components

\* The endpoints of a MATCH share a component.
LEMMA MatchUnites ==
  ASSUME NEW A \in SUBSET Records, NEW e \in SUBSET Within(A, Pairs),
         NEW d, DecisionsMet(d), NEW p \in Chosen(A, d, "MATCH")
  PROVE  Components(A, e, d)[p[1]] = Components(A, e, d)[p[2]]
<1>1. /\ Chosen(A, d, "MATCH") \in SUBSET Within(A, Pairs)
      /\ Chosen(A, d, "NOT_MATCH") \in SUBSET Within(A, Pairs)
  BY DEF Chosen
<1>2. Satisfiable(Chosen(A, d, "MATCH"), Chosen(A, d, "NOT_MATCH"))
  BY MetWithin
<1>3. \A q \in Chosen(A, d, "MATCH") :
        Resolved(A, e, Chosen(A, d, "MATCH"), Chosen(A, d, "NOT_MATCH"))[q[1]]
          = Resolved(A, e, Chosen(A, d, "MATCH"), Chosen(A, d, "NOT_MATCH"))[q[2]]
  BY <1>1, <1>2, ResolvesLocally DEF ResolverLocal
<1> QED
  BY <1>3 DEF Components

\* An uncut part has the components of the whole, and their members.
LEMMA Split ==
  ASSUME NEW A \in SUBSET Records, NEW e \in SUBSET Within(A, Pairs),
         NEW d, DecisionsMet(d), NEW S \in SUBSET A,
         Uncut(S, e \cup Chosen(A, d, "MATCH"))
  PROVE  LET comp == Components(A, e, d)
             part == Components(S, Within(S, e), d)
         IN  \A r \in S : /\ part[r] = comp[r] /\ comp[r] \in S
                          /\ MembersOf(A, comp, r) = MembersOf(S, part, r)
<1> DEFINE comp == Components(A, e, d)
           part == Components(S, Within(S, e), d)
           T == A \ S
<1>1. Uncut(T, e \cup Chosen(A, d, "MATCH"))
  BY DEF Uncut, Chosen, Within
<1>2. \A r \in S : part[r] = comp[r] /\ part[r] \in S
  BY PartOfWhole
<1>3. \A r \in T : comp[r] \in T
  <2>1. \A r \in T : /\ Components(T, Within(T, e), d)[r] = Components(A, e, d)[r]
                     /\ Components(T, Within(T, e), d)[r] \in T
    BY <1>1, PartOfWhole
  <2> QED
    BY <2>1
<1> HIDE DEF comp, part
<1>4. \A r \in S : MembersOf(A, comp, r) = MembersOf(S, part, r)
  BY <1>2, <1>3 DEF MembersOf
<1> QED
  BY <1>2, <1>4 DEF comp, part

-----------------------------------------------------------------------------
(* Affected evaluations.                                                   *)

PublishedIsResult == revision > 0 => published = Result(asOf)

\* What stewards changed since the last refresh is in the edits, which are
\* those since the last publication.
EditsSince ==
  revision > 0 =>
    /\ \A p \in Pairs : decided[p] # asOf.decided[p] => p \in edits.pairs
    /\ anchors # asOf.anchors => edits.anchors # {}

AlwaysMet == DecisionsMet(decided) /\ DecisionsMet(asOf.decided)

FullInv == IInv /\ PublishedIsResult /\ EditsSince /\ AlwaysMet

\* The scope is closed: it is an intersection of closed sets.
LEMMA ScopeClosed ==
  ASSUME NEW A \in SUBSET Records,
         \A r \in DOMAIN published.rows : published.rows[r].members \subseteq Records,
         AllNodes(A).evidence \subseteq Pairs
  PROVE  Closed(Scope(A), A)
<1> DEFINE seeds == DeltaSeeds(A) \cup ControlSeeds(A)
           links == AllNodes(A).evidence \cup Chosen(A, decided, "MATCH")
           S == Scope(A)
<1>1. \A r : r \in S <=> r \in Records /\ \A X \in SUBSET Records :
                           seeds \subseteq X /\ Closed(X, A) => r \in X
  BY DEF Scope
<1>2. \A X : Closed(X, A) <=>
        /\ \A r \in X \cap DOMAIN published.rows : published.rows[r].members \subseteq X
        /\ \A p \in links : p[1] \in X <=> p[2] \in X
  BY DEF Closed, Uncut
<1>3. \A p \in links : p[1] \in Records /\ p[2] \in Records
  BY DEF Chosen, Within, Pairs
<1> HIDE DEF seeds, links, S
<1>4. \A r \in S \cap DOMAIN published.rows : published.rows[r].members \subseteq S
  BY <1>1, <1>2
<1>5. \A p \in links : p[1] \in S <=> p[2] \in S
  BY <1>1, <1>2, <1>3
<1> QED
  BY <1>2, <1>4, <1>5 DEF S

\* The evidence of a refresh is between registered records.
LEMMA EvidenceTyped ==
  ASSUME NEW s, NEW A, NEW v
  PROVE  EvidenceOf(s, A, v) \in SUBSET Within(A, Pairs)
BY DEF EvidenceOf

\* What the inputs of the last refresh say, and what it published.
LEMMA LastRefresh ==
  ASSUME FullInv, revision > 0
  PROVE  LET A == Active(asOf.src)
             comp == Components(A, ThenEvidence, asOf.decided)
         IN  /\ registry = A
             /\ published.rows = [r \in A |-> RowOf(MembersOf(A, comp, r), comp[r], asOf.src,
                                                     asOf.anchors, asOf.version)]
             /\ published.rejected = FactsOf(ThenEvidence, comp, asOf.version)
<1>1. asOf.src \in [Records -> Values \cup {0}]
  BY DEF FullInv, IInv, TypeOK, InputType
<1>2. published = Evaluate(Active(asOf.src), ThenEvidence, asOf.src,
                           asOf.decided, asOf.anchors, asOf.version)
  BY <1>1, GoldenIsSource DEF FullInv, PublishedIsResult, Result, ThenEvidence
<1>3. registry = Active(asOf.src)
  BY DEF FullInv, IInv, RegistryExact
<1> QED
  BY <1>2, <1>3, EvaluateIs

\* What a full evaluation gives.
LEMMA FullEvaluation ==
  ASSUME FullInv
  PROVE  LET A == Active(src)
             E == AllNodes(A).evidence
             comp == Components(A, E, decided)
         IN  /\ EvaluateFull(A).rows = [r \in A |-> RowOf(MembersOf(A, comp, r), comp[r], src,
                                                          anchors, desired)]
             /\ EvaluateFull(A).rejected = FactsOf(E, comp, desired)
             /\ EvaluateFull(A) = Result(Input)
<1>1. src \in [Records -> Values \cup {0}]
  BY DEF FullInv, IInv, TypeOK, Input, InputType
<1>2. AllNodes(Active(src)).golden = src
  BY <1>1, GoldenIsSource DEF AllNodes
<1>3. EvaluateFull(Active(src)) = Result(Input)
  BY DEF EvaluateFull, Result, AllNodes, Input
<1>4. EvaluateFull(Active(src))
        = Evaluate(Active(src), AllNodes(Active(src)).evidence, src, decided, anchors, desired)
  BY <1>2 DEF EvaluateFull
<1> QED
  BY <1>3, <1>4, EvaluateIs

\* How the scope of an exact range cuts the records: nothing connects it with
\* the others, neither now nor at the last refresh, and of the others nothing
\* has changed.
LEMMA ScopeCuts ==
  ASSUME FullInv, NEW rebuild \in BOOLEAN, Exact(Active(src), rebuild)
  PROVE  LET A == Active(src)
             A0 == Active(asOf.src)
             S == Scope(A)
             E == AllNodes(A).evidence
         IN  /\ A \ S = A0 \ S
             /\ \A r \in A \ S : src[r] = asOf.src[r]
             /\ Within(A \ S, E) = Within(A \ S, ThenEvidence)
             /\ \A p \in E : p[1] \in S <=> p[2] \in S
             /\ \A p \in ThenEvidence : p[1] \in S <=> p[2] \in S
             /\ \A kind : Chosen(A \ S, decided, kind) = Chosen(A \ S, asOf.decided, kind)
             /\ A \ S # {} => anchors = asOf.anchors
             /\ Uncut(A \cap S, E \cup Chosen(A, decided, "MATCH"))
             /\ Uncut(A \ S, E \cup Chosen(A, decided, "MATCH"))
             /\ Uncut(A0 \ S, ThenEvidence \cup Chosen(A0, asOf.decided, "MATCH"))
<1> DEFINE A == Active(src)
           A0 == Active(asOf.src)
           S == Scope(A)
           E == AllNodes(A).evidence
           E0 == ThenEvidence
           M == Chosen(A, decided, "MATCH")
           M0 == Chosen(A0, asOf.decided, "MATCH")
           comp0 == Components(A0, E0, asOf.decided)
<1>1. /\ A \in SUBSET Records /\ A0 \in SUBSET Records
      /\ E \in SUBSET Within(A, Pairs) /\ E0 \in SUBSET Within(A0, Pairs)
  BY EvidenceTyped DEF Active, AllNodes, ThenEvidence
<1>2. revision > 0
  BY DEF Exact
<1>3. /\ DeltaSeeds(A) \in SUBSET Records
      /\ Changed(src, asOf.src) \subseteq DeltaSeeds(A)
      /\ Differing(E0, E) \subseteq DeltaSeeds(A)
  BY SeedsComplete DEF FullInv
<1>4. S \in SUBSET Records /\ (DeltaSeeds(A) \cup ControlSeeds(A)) \cap Records \subseteq S
  BY ScopeSeeded
<1>5. /\ registry = A0 /\ DOMAIN published.rows = A0
      /\ \A r \in A0 : published.rows[r].members = MembersOf(A0, comp0, r)
  BY <1>2, LastRefresh DEF RowOf
<1>6. /\ \A r \in S \cap A0 : MembersOf(A0, comp0, r) \subseteq S
      /\ Uncut(S, E \cup M)
  <2>1. Closed(S, A)
    BY <1>1, <1>5, ScopeClosed DEF MembersOf, Within
  <2> QED
    BY <1>5, <2>1 DEF Closed
<1>7. \A r \in Records \ S : src[r] = asOf.src[r]
  BY <1>3, <1>4 DEF Changed
<1>8. A \ S = A0 \ S
  BY <1>7 DEF Active
<1>9. \A p \in Pairs : decided[p] # asOf.decided[p] => p[1] \in S /\ p[2] \in S
  <2>1. SUFFICES ASSUME NEW p \in Pairs, decided[p] # asOf.decided[p]
                 PROVE  p[1] \in S /\ p[2] \in S
    OBVIOUS
  <2>2. p \in edits.pairs
    BY <1>2, <2>1 DEF FullInv, EditsSince
  <2>3. p[1] \in Records /\ p[2] \in Records
    BY DEF Pairs
  <2>4. p[1] \in ControlSeeds(A) /\ p[2] \in ControlSeeds(A)
    BY <2>2 DEF ControlSeeds, Ends
  <2> QED
    BY <1>4, <2>3, <2>4
<1>10. \A p \in (E \ E0) \cup (E0 \ E) : p[1] \in S /\ p[2] \in S
  <2>1. SUFFICES ASSUME NEW p \in (E \ E0) \cup (E0 \ E) PROVE p[1] \in S /\ p[2] \in S
    OBVIOUS
  <2>2. p[1] \in Differing(E0, E) /\ p[2] \in Differing(E0, E)
    BY DEF Differing, Ends
  <2> QED
    BY <1>3, <1>4, <2>2
<1>11. \A p \in E : p[1] \in S <=> p[2] \in S
  BY <1>6 DEF Uncut
<1>12. \A p \in E0 : p[1] \in S <=> p[2] \in S
  BY <1>10, <1>11
<1>13. \A p \in M : p[1] \in S <=> p[2] \in S
  BY <1>6 DEF Uncut
<1>14. \A p \in M0 : p[1] \in S <=> p[2] \in S
  <2>1. SUFFICES ASSUME NEW p \in M0 PROVE p[1] \in S <=> p[2] \in S
    OBVIOUS
  <2>2. p[1] \in A0 /\ p[2] \in A0
    BY DEF Chosen, Within
  <2>3. comp0[p[1]] = comp0[p[2]]
    BY <1>1, MatchUnites DEF FullInv, AlwaysMet
  <2> HIDE DEF comp0, A0, S
  <2> QED
    BY <1>6, <2>2, <2>3 DEF MembersOf
<1>15. /\ \A p \in E \cup M : p[1] \in A /\ p[2] \in A
       /\ \A p \in E0 \cup M0 : p[1] \in A0 /\ p[2] \in A0
  BY <1>1 DEF Chosen, Within
<1>16. /\ Uncut(A \cap S, E \cup M) /\ Uncut(A \ S, E \cup M)
       /\ Uncut(A0 \ S, E0 \cup M0)
  <2> HIDE DEF A, A0, S, E, E0, M, M0
  <2> QED
    BY <1>11, <1>12, <1>13, <1>14, <1>15 DEF Uncut
<1>17. Within(A \ S, E) = Within(A \ S, E0)
  BY <1>10 DEF Within
<1>18. \A kind : Chosen(A \ S, decided, kind) = Chosen(A \ S, asOf.decided, kind)
  BY <1>9 DEF Chosen, Within
<1>19. A \ S # {} => anchors = asOf.anchors
  <2>1. ASSUME anchors # asOf.anchors PROVE A \subseteq S
    <3>1. edits.anchors # {}
      BY <1>2, <2>1 DEF FullInv, EditsSince
    <3>2. A \subseteq ControlSeeds(A)
      BY <3>1 DEF ControlSeeds
    <3> QED
      BY <1>1, <1>4, <3>2
  <2> QED
    BY <2>1
<1>20. \A r \in A \ S : src[r] = asOf.src[r]
  BY <1>1, <1>7
<1> HIDE DEF A, A0, S, E, E0, M, M0
<1> QED
  BY <1>8, <1>11, <1>12, <1>16, <1>17, <1>18, <1>19, <1>20 DEF A, A0, S, E, E0, M, M0

\* The overrides that an affected evaluation loads make the rows of its
\* components what all overrides would.
LEMMA ScopedAnchorsSuffice ==
  ASSUME NEW S, NEW members \in SUBSET S, NEW root, NEW g, NEW v
  PROVE  RowOf(members, root, g, ScopedAnchors(S), v) = RowOf(members, root, g, anchors, v)
<1>1. ScopedAnchors(S) \cap members = anchors \cap members
  <2>1. (anchors \ S # {}) => (CHOOSE a \in anchors \ S : TRUE) \in anchors \ S
    OBVIOUS
  <2> QED
    BY <2>1 DEF ScopedAnchors
<1>2. ScopedAnchors(S) \subseteq members <=> anchors \subseteq members
  <2>1. CASE anchors \subseteq S
    BY <2>1 DEF ScopedAnchors
  <2>2. CASE ~(anchors \subseteq S)
    <3>1. (CHOOSE a \in anchors \ S : TRUE) \in anchors \ S
      BY <2>2
    <3> QED
      BY <2>2, <3>1 DEF ScopedAnchors
  <2> QED
    BY <2>1, <2>2
<1> QED
  BY <1>1, <1>2 DEF RowOf

\* An affected evaluation gives what a full one would.
LEMMA AffectedIsFull ==
  ASSUME FullInv, NEW rebuild \in BOOLEAN, Exact(Active(src), rebuild)
  PROVE  EvaluateAffected(Active(src)) = EvaluateFull(Active(src))
<1> DEFINE A == Active(src)
           A0 == Active(asOf.src)
           S == Scope(A)
           In == A \cap S
           Out == A \ S
           E == AllNodes(A).evidence
           E0 == ThenEvidence
           comp == Components(A, E, decided)
           comp0 == Components(A0, E0, asOf.decided)
           part == Components(In, Within(S, E), decided)
           rest == Components(Out, Within(Out, E), decided)
           affected == Evaluate(In, Within(S, E), src, decided, ScopedAnchors(S), desired)
<1>1. /\ A \in SUBSET Records /\ A0 \in SUBSET Records
      /\ E \in SUBSET Within(A, Pairs) /\ E0 \in SUBSET Within(A0, Pairs)
      /\ In \in SUBSET A /\ Out \in SUBSET A
  BY EvidenceTyped DEF Active, AllNodes, ThenEvidence
<1>2. revision > 0 /\ desired = asOf.version /\ DecisionsMet(decided) /\ DecisionsMet(asOf.decided)
  BY DEF Exact, FullInv, IInv, ObservedIsLast, AlwaysMet
<1>3. /\ Out = A0 \ S
      /\ \A r \in Out : src[r] = asOf.src[r]
      /\ Within(Out, E) = Within(Out, E0)
      /\ \A p \in E : p[1] \in S <=> p[2] \in S
      /\ \A p \in E0 : p[1] \in S <=> p[2] \in S
      /\ \A kind : Chosen(Out, decided, kind) = Chosen(Out, asOf.decided, kind)
      /\ Out # {} => anchors = asOf.anchors
      /\ Uncut(In, E \cup Chosen(A, decided, "MATCH"))
      /\ Uncut(Out, E \cup Chosen(A, decided, "MATCH"))
      /\ Uncut(Out, E0 \cup Chosen(A0, asOf.decided, "MATCH"))
  BY ScopeCuts
<1>4. Within(In, E) = Within(S, E)
  BY <1>1 DEF Within
<1>5. rest = Components(Out, Within(Out, E0), asOf.decided)
  <2> HIDE DEF A, S, Out, E, E0
  <2>1. /\ Chosen(Out, decided, "MATCH") = Chosen(Out, asOf.decided, "MATCH")
        /\ Chosen(Out, decided, "NOT_MATCH") = Chosen(Out, asOf.decided, "NOT_MATCH")
    BY <1>3
  <2> QED
    BY <1>3, <2>1 DEF Components
<1>6. \A r \in In : /\ part[r] = comp[r] /\ comp[r] \in In
                    /\ MembersOf(A, comp, r) = MembersOf(In, part, r)
  <2>1. LET p == Components(In, Within(In, E), decided)
        IN  \A r \in In : /\ p[r] = comp[r] /\ comp[r] \in In
                          /\ MembersOf(A, comp, r) = MembersOf(In, p, r)
    <3>1. Uncut(In, E \cup Chosen(A, decided, "MATCH"))
      BY <1>3
    <3>2. A \in SUBSET Records /\ E \in SUBSET Within(A, Pairs) /\ In \in SUBSET A
      BY <1>1
    <3> HIDE DEF A, In, E
    <3> QED
      BY <1>2, <3>1, <3>2, Split
  <2> QED
    BY <1>4, <2>1
<1>7. \A r \in Out : /\ rest[r] = comp[r] /\ comp[r] \in Out
                     /\ MembersOf(A, comp, r) = MembersOf(Out, rest, r)
  <2>1. Uncut(Out, E \cup Chosen(A, decided, "MATCH"))
    BY <1>3
  <2> HIDE DEF A, Out, E
  <2> QED
    BY <1>1, <1>2, <2>1, Split
<1>8. \A r \in Out : /\ rest[r] = comp0[r]
                     /\ MembersOf(A0, comp0, r) = MembersOf(Out, rest, r)
  <2>1. Out \in SUBSET A0
    BY <1>3
  <2>2. LET p == Components(Out, Within(Out, E0), asOf.decided)
        IN  \A r \in Out : /\ p[r] = comp0[r] /\ comp0[r] \in Out
                           /\ MembersOf(A0, comp0, r) = MembersOf(Out, p, r)
    <3>1. Uncut(Out, E0 \cup Chosen(A0, asOf.decided, "MATCH"))
      BY <1>3
    <3> HIDE DEF A0, Out, E0
    <3> QED
      BY <1>1, <1>2, <2>1, <3>1, Split
  <2> QED
    BY <1>5, <2>2
<1>9. /\ registry = A0
      /\ published.rows = [r \in A0 |-> RowOf(MembersOf(A0, comp0, r), comp0[r], asOf.src,
                                              asOf.anchors, desired)]
      /\ published.rejected = FactsOf(E0, comp0, desired)
  BY <1>2, LastRefresh
<1>10. /\ EvaluateFull(A).rows
            = [r \in A |-> RowOf(MembersOf(A, comp, r), comp[r], src, anchors, desired)]
       /\ EvaluateFull(A).rejected = FactsOf(E, comp, desired)
  BY FullEvaluation
<1>11. /\ affected.rows = [r \in In |-> RowOf(MembersOf(In, part, r), part[r], src,
                                              ScopedAnchors(S), desired)]
       /\ affected.rejected = FactsOf(Within(S, E), part, desired)
  BY EvaluateIs
<1>12. EvaluateAffected(A)
         = [rows |-> [r \in (A0 \ S) \cup In |->
                        IF r \in S THEN affected.rows[r] ELSE published.rows[r]],
            rejected |-> affected.rejected
              \cup {f \in published.rejected : Within(S, {f.pair}) = {}}]
  <2>1. AllNodes(A).golden = src
    BY GoldenIsSource DEF AllNodes, FullInv, IInv, TypeOK, Input, InputType
  <2>2. DOMAIN published.rows = A0
    BY <1>9
  <2>3. EvaluateAffected(A)
          = LET p == Evaluate(A \cap S, Within(S, AllNodes(A).evidence), AllNodes(A).golden,
                              decided, ScopedAnchors(S), desired)
            IN  [rows |-> [r \in (DOMAIN published.rows \ S) \cup (A \cap S) |->
                             IF r \in S THEN p.rows[r] ELSE published.rows[r]],
                 rejected |-> p.rejected
                   \cup {f \in published.rejected : Within(S, {f.pair}) = {}}]
    BY DEF EvaluateAffected
  <2> HIDE DEF A, S, A0
  <2> QED
    BY <2>1, <2>2, <2>3
<1> HIDE DEF A, A0, S, In, Out, E, E0, comp, comp0, part, rest, affected
<1>13. \A r \in In : affected.rows[r] = EvaluateFull(A).rows[r]
  <2>1. SUFFICES ASSUME NEW r \in In PROVE affected.rows[r] = EvaluateFull(A).rows[r]
    OBVIOUS
  <2>2. MembersOf(In, part, r) \subseteq S
    BY DEF MembersOf, In
  <2>3. affected.rows[r] = RowOf(MembersOf(In, part, r), part[r], src, ScopedAnchors(S), desired)
    BY <1>11
  <2>4. EvaluateFull(A).rows[r] = RowOf(MembersOf(A, comp, r), comp[r], src, anchors, desired)
    BY <1>1, <1>10
  <2> QED
    BY <1>6, <2>2, <2>3, <2>4, ScopedAnchorsSuffice
<1>14. \A r \in Out : published.rows[r] = EvaluateFull(A).rows[r]
  <2>1. SUFFICES ASSUME NEW r \in Out PROVE published.rows[r] = EvaluateFull(A).rows[r]
    OBVIOUS
  <2>2. published.rows[r]
          = RowOf(MembersOf(A0, comp0, r), comp0[r], asOf.src, asOf.anchors, desired)
    BY <1>3, <1>9
  <2>3. EvaluateFull(A).rows[r] = RowOf(MembersOf(A, comp, r), comp[r], src, anchors, desired)
    BY <1>1, <1>10
  <2>4. /\ comp0[r] = comp[r] /\ comp[r] \in Out
        /\ MembersOf(A0, comp0, r) = MembersOf(A, comp, r)
    BY <1>7, <1>8
  <2>5. asOf.src[comp[r]] = src[comp[r]] /\ asOf.anchors = anchors
    BY <1>3, <2>4
  <2> QED
    BY <2>2, <2>3, <2>4, <2>5 DEF RowOf
<1>15. affected.rejected \cup {f \in published.rejected : Within(S, {f.pair}) = {}}
         = FactsOf(E, comp, desired)
  <2>1. \A p : p \in Within(S, E) <=> p \in E /\ p[1] \in S
    BY <1>3 DEF Within
  <2>2. \A p \in Within(S, E) : part[p[1]] = comp[p[1]] /\ part[p[2]] = comp[p[2]]
    <3>1. \A p \in Within(S, E) : p[1] \in In /\ p[2] \in In
      BY <1>1 DEF Within, In
    <3> QED
      BY <1>6, <3>1
  <2>3. affected.rejected
          = {[pair |-> p, version |-> desired] :
               p \in {q \in E : q[1] \in S /\ comp[q[1]] # comp[q[2]]}}
    <3>1. {q \in Within(S, E) : part[q[1]] # part[q[2]]}
            = {q \in E : q[1] \in S /\ comp[q[1]] # comp[q[2]]}
      BY <2>1, <2>2
    <3> QED
      BY <1>11, <3>1 DEF FactsOf
  <2>4. {q \in E0 : q[1] \notin S /\ comp0[q[1]] # comp0[q[2]]}
          = {q \in E : q[1] \notin S /\ comp[q[1]] # comp[q[2]]}
    <3>1. \A q \in E : q[1] \notin S => q \in Within(Out, E)
      BY <1>1, <1>3 DEF Within, Out
    <3>2. \A q \in E0 : q[1] \notin S => q \in Within(Out, E0)
      <4>1. \A q \in E0 : q[1] \in A0 /\ q[2] \in A0
        BY <1>1 DEF Within
      <4> QED
        BY <1>3, <4>1 DEF Within
    <3>3. \A q \in Within(Out, E) : /\ q \in E /\ q \in E0 /\ q[1] \notin S
                                    /\ comp[q[1]] = comp0[q[1]] /\ comp[q[2]] = comp0[q[2]]
      <4>1. \A q \in Within(Out, E) : /\ q \in E /\ q \in E0 /\ q[1] \notin S
                                      /\ q[1] \in Out /\ q[2] \in Out
        BY <1>3 DEF Within, Out
      <4> QED
        BY <1>7, <1>8, <4>1
    <3> QED
      BY <1>3, <3>1, <3>2, <3>3
  <2>5. {f \in published.rejected : Within(S, {f.pair}) = {}}
          = {[pair |-> p, version |-> desired] :
               p \in {q \in E0 : q[1] \notin S /\ comp0[q[1]] # comp0[q[2]]}}
    <3>1. \A p \in E0 : Within(S, {p}) = {} <=> p[1] \notin S
      BY <1>3 DEF Within
    <3> QED
      BY <1>9, <3>1 DEF FactsOf
  <2> QED
    BY <2>3, <2>4, <2>5 DEF FactsOf
<1>16. EvaluateAffected(A).rows = EvaluateFull(A).rows
  <2>1. (A0 \ S) \cup In = A
    BY <1>3 DEF In, Out
  <2>2. EvaluateAffected(A).rows
          = [r \in A |-> IF r \in S THEN affected.rows[r] ELSE published.rows[r]]
    BY <1>12, <2>1
  <2>3. \A r \in A : EvaluateAffected(A).rows[r] = EvaluateFull(A).rows[r]
    BY <1>13, <1>14, <2>2 DEF In, Out
  <2>4. EvaluateFull(A).rows = [r \in A |-> EvaluateFull(A).rows[r]]
    BY <1>10
  <2>5. EvaluateAffected(A).rows = [r \in A |-> EvaluateAffected(A).rows[r]]
    BY <2>2
  <2> QED
    BY <2>3, <2>4, <2>5
<1>17. EvaluateAffected(A).rejected = EvaluateFull(A).rejected
  BY <1>10, <1>12, <1>15
<1>18. /\ EvaluateAffected(A) = [rows |-> EvaluateAffected(A).rows,
                                 rejected |-> EvaluateAffected(A).rejected]
       /\ EvaluateFull(A) = [rows |-> EvaluateFull(A).rows,
                             rejected |-> EvaluateFull(A).rejected]
  <2>1. EvaluateFull(A) = [rows |-> EvaluateFull(A).rows, rejected |-> EvaluateFull(A).rejected]
    BY EvaluateIs DEF EvaluateFull
  <2> QED
    BY <1>12, <2>1
<1> QED
  BY <1>16, <1>17, <1>18 DEF A

-----------------------------------------------------------------------------
(* Every refresh publishes the result of its input.                        *)

\* Whatever a refresh chooses to evaluate, the outcome is the same.
LEMMA OutcomeIsResult ==
  ASSUME FullInv, NEW rebuild \in BOOLEAN,
         NEW result \in Outcomes(Active(src), rebuild)
  PROVE  result = Result(Input)
<1> DEFINE A == Active(src)
<1>1. CASE result = EvaluateFull(A)
  BY <1>1, FullEvaluation
<1>2. CASE Exact(A, rebuild) /\ result = EvaluateAffected(A)
  BY <1>2, AffectedIsFull, FullEvaluation
<1>3. CASE Exact(A, rebuild) /\ DeltaSeeds(A) = {} /\ edits = NoEdits /\ result = published
  <2>1. revision > 0 /\ observed = desired
    BY <1>3 DEF Exact
  <2>2. /\ src \in [Records -> Values \cup {0}]
        /\ decided \in [Pairs -> {"NONE", "MATCH", "NOT_MATCH"}]
        /\ asOf \in InputType
    BY DEF FullInv, IInv, TypeOK, Input, InputType
  <2>3. asOf.src = src
    <3>1. Changed(src, asOf.src) = {}
      BY <1>3, SeedsComplete DEF FullInv
    <3>2. asOf.src \in [Records -> Values \cup {0}]
      BY <2>2 DEF InputType
    <3> QED
      BY <2>2, <3>1, <3>2 DEF Changed
  <2>4. asOf.decided = decided
    <3>1. asOf.decided \in [Pairs -> {"NONE", "MATCH", "NOT_MATCH"}]
      BY <2>2 DEF InputType
    <3>2. \A p \in Pairs : decided[p] = asOf.decided[p]
      BY <1>3, <2>1 DEF FullInv, EditsSince, NoEdits
    <3> QED
      BY <2>2, <3>1, <3>2
  <2>5. asOf.anchors = anchors
    BY <1>3, <2>1 DEF FullInv, EditsSince, NoEdits
  <2>6. asOf.version = desired
    BY <2>1 DEF FullInv, IInv, ObservedIsLast
  <2>7. asOf = Input
    BY <2>2, <2>3, <2>4, <2>5, <2>6 DEF InputType, Input
  <2> QED
    BY <1>3, <2>1, <2>7 DEF FullInv, PublishedIsResult
<1> QED
  BY <1>1, <1>2, <1>3 DEF Outcomes

\* A step of a refresh, in the terms of Publication.
LEMMA RefreshPublishes ==
  ASSUME FullInv, NEW rebuild \in BOOLEAN, Refresh(rebuild)
  PROVE  /\ published' = Result(Input)
         /\ asOf' = Input /\ Input' = Input
         /\ revision' = IF revision > 0 /\ published' = published THEN revision ELSE revision + 1
         /\ UNCHANGED decided
<1>1. /\ asOf' = Input
      /\ UNCHANGED <<src, decided, anchors, desired, changes>>
      /\ published' \in Outcomes(Active(src), rebuild)
      /\ \/ (revision = 0 \/ published' # published) /\ revision' = revision + 1
         \/ revision > 0 /\ published' = published /\ UNCHANGED revision
  BY RefreshFacts DEF FullInv
<1>2. published' = Result(Input)
  BY <1>1, OutcomeIsResult
<1>3. Input' = Input
  BY <1>1 DEF Input
<1>4. revision \in Nat
  BY DEF FullInv, IInv, TypeOK
<1> QED
  BY <1>1, <1>2, <1>3, <1>4

\* A step between refreshes leaves what was published and when.
LEMMA ElsewhereKeeps ==
  ASSUME FullInv, Elsewhere
  PROVE  UNCHANGED <<asOf, published, revision>> /\ EditsSince' /\ AlwaysMet'
<1>1. ASSUME NEW p \in Decidable, NEW kind \in {"MATCH", "NOT_MATCH"}, Decide(p, kind)
      PROVE  UNCHANGED <<asOf, published, revision>> /\ EditsSince' /\ AlwaysMet'
  <2>1. /\ decided' = [decided EXCEPT ![p] = kind]
        /\ edits' = [edits EXCEPT !.pairs = edits.pairs \cup {p}]
        /\ DecisionsMet(decided')
        /\ UNCHANGED <<anchors, asOf, published, revision>>
    BY <1>1 DEF Decide, ledger, DecisionsMet
  <2>2. decided \in [Pairs -> {"NONE", "MATCH", "NOT_MATCH"}]
        /\ edits \in [pairs : SUBSET Pairs, anchors : SUBSET Records]
    BY DEF FullInv, IInv, TypeOK, Input, InputType
  <2>3. EditsSince'
    BY <2>1, <2>2 DEF FullInv, EditsSince
  <2>4. AlwaysMet'
    BY <2>1 DEF FullInv, AlwaysMet, DecisionsMet
  <2> QED
    BY <2>1, <2>3, <2>4
<1>2. ASSUME NEW a \in Anchors, Override(a)
      PROVE  UNCHANGED <<asOf, published, revision>> /\ EditsSince' /\ AlwaysMet'
  <2>1. /\ edits' = [edits EXCEPT !.anchors = edits.anchors \cup {a}]
        /\ UNCHANGED <<decided, asOf, published, revision>>
    BY <1>2 DEF Override, ledger
  <2>2. edits \in [pairs : SUBSET Pairs, anchors : SUBSET Records]
    BY DEF FullInv, IInv, TypeOK
  <2> QED
    BY <2>1, <2>2 DEF FullInv, EditsSince, AlwaysMet, DecisionsMet
<1>3. CASE UNCHANGED <<stewards, asOf, published, revision>>
  BY <1>3 DEF stewards, FullInv, EditsSince, AlwaysMet, DecisionsMet
<1>4. (\E r \in Records, v \in Values \cup {0} : Write(r, v)) =>
        UNCHANGED <<stewards, asOf, published, revision>>
  BY DEF Write, ledger
<1>5. /\ RefreshGraph => UNCHANGED <<stewards, asOf, published, revision>>
      /\ (\E c \in Consumers : Invalidate(c)) => UNCHANGED <<stewards, asOf, published, revision>>
      /\ (\E c \in Consumers : Lose(c)) => UNCHANGED <<stewards, asOf, published, revision>>
      /\ (\E v \in {desired, desired + 1} \cap Versions : Install(v)) =>
           UNCHANGED <<stewards, asOf, published, revision>>
  BY DEF RefreshGraph, Invalidate, Lose, Install, ledger
<1> QED
  BY <1>1, <1>2, <1>3, <1>4, <1>5 DEF Elsewhere

LEMMA InitFullInv == ASSUME Init PROVE FullInv
<1>1. \A kind \in {"MATCH", "NOT_MATCH"} : Chosen(Records, decided, kind) = {}
  BY DEF Init, Chosen, Within
<1>2. [r \in Records |-> r] \in [Records -> Records]
  OBVIOUS
<1>3. DecisionsMet(decided)
  BY <1>1, <1>2 DEF DecisionsMet, Satisfiable
<1>4. asOf.decided = decided
  BY DEF Init, Input
<1> QED
  BY <1>3, <1>4, InitIInv DEF Init, FullInv, PublishedIsResult, EditsSince, AlwaysMet

LEMMA NextFullInv == ASSUME FullInv, [Next]_vars PROVE FullInv'
<1>1. IInv'
  BY NextIInv DEF FullInv
<1>2. ASSUME NEW rebuild \in BOOLEAN, Refresh(rebuild)
      PROVE  PublishedIsResult' /\ EditsSince' /\ AlwaysMet'
  <2>1. published' = Result(Input) /\ asOf' = Input /\ UNCHANGED decided
    BY <1>2, RefreshPublishes
  <2>2. anchors' = anchors
    BY <1>2 DEF Refresh
  <2>3. asOf'.decided = decided' /\ asOf'.anchors = anchors'
    BY <2>1, <2>2 DEF Input
  <2>4. PublishedIsResult'
    BY <2>1 DEF PublishedIsResult
  <2> QED
    BY <2>1, <2>3, <2>4 DEF FullInv, EditsSince, AlwaysMet, DecisionsMet
<1>3. CASE Elsewhere
  BY <1>1, <1>3, ElsewhereKeeps DEF FullInv, PublishedIsResult
<1>4. CASE UNCHANGED vars
  BY <1>1, <1>4 DEF vars, stewards, ledger, FullInv, PublishedIsResult, EditsSince, AlwaysMet, DecisionsMet
<1> QED
  BY <1>1, <1>2, <1>3, <1>4 DEF Next, FullInv

\* For every set of records, sources and definitions: a refresh always
\* publishes what a full evaluation of the present input gives, whatever it
\* skips, and spends a revision only on a difference.
THEOREM RefreshImplementsPublication == Spec => PublishesInput
<1>1. Init => FullInv
  BY InitFullInv
<1>2. FullInv /\ [Next]_vars => FullInv'
  BY NextFullInv
<1>3. Init => Contract!Init
  <2>1. Init => Input \in InputType
    BY InitIInv DEF IInv, TypeOK
  <2> QED
    BY <2>1 DEF Init, Contract!Init
<1>4. FullInv /\ FullInv' /\ [Next]_vars
        => [Contract!Next]_<<Input, asOf, published, revision>>
  <2>1. ASSUME FullInv, NEW rebuild \in BOOLEAN, Refresh(rebuild) PROVE Contract!Refresh
    BY <2>1, RefreshPublishes DEF Contract!Refresh
  <2>2. ASSUME FullInv, FullInv', Elsewhere PROVE Contract!Change
    <3>1. Input' \in InputType
      BY <2>2 DEF FullInv, IInv, TypeOK
    <3> QED
      BY <2>2, <3>1, ElsewhereKeeps DEF Contract!Change
  <2>3. UNCHANGED vars => UNCHANGED <<Input, asOf, published, revision>>
    BY DEF vars, stewards, ledger, Input
  <2> QED
    BY <2>1, <2>2, <2>3 DEF Next, Contract!Next
<1> QED
  BY <1>1, <1>2, <1>3, <1>4, PTL DEF Spec, PublishesInput, Contract!Spec
=============================================================================
