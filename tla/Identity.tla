------------------------------ MODULE Identity ------------------------------
(***************************************************************************)
(* The identity ledger: what identity::reconcile and the persistence of    *)
(* its result make of one resolution after another.                        *)
(*                                                                         *)
(* A publication reconciles the whole ledger, or only the records that an  *)
(* affected closure reaches (load_affected_scope): then the ledger rows    *)
(* outside are neither read nor written.                                   *)
(*                                                                         *)
(* A record is the position of its source sort key.  An mdm_id is a number *)
(* in the order of uuidv7; ids issued by one publication are popped from a *)
(* list allocated in that order, so later components get the smaller ids.  *)
(***************************************************************************)
EXTENDS Integers, FiniteSets

CONSTANTS
  Records,      \* the source records ever seen
  Core,         \* bound: those that come and go as they like
  MinActive,    \* bound: the others join while so many records are active
  MaxRevision   \* bound on the publications of a behaviour; one less with others

ASSUME RecordsAssumption ==
  Records \subseteq Nat /\ IsFiniteSet(Records) /\ Core \subseteq Records
ASSUME BoundsAssumption == MaxRevision \in Nat /\ MinActive \in Nat

VARIABLES
  revision,   \* the last publication
  resolved,   \* active record -> component key, as of that publication
  registry,   \* issued mdm_id -> its status, creation and retirement
  member,     \* known record -> [id, active, first]: the membership rows
  aliases,    \* rows [from, to, rev]: from was merged into to
  splits,     \* rows [from, to, rev]: to holds a part of from
  error,      \* reconcile returned IdentityInvalid
  held        \* history: the ids a record held since it last became active

vars == <<revision, resolved, registry, member, aliases, splits, error, held>>

Known == DOMAIN member
Issued == DOMAIN registry

Active(i) == i \in Issued /\ registry[i].status = "active"

-----------------------------------------------------------------------------
(* Resolutions and the closure of a change.                                *)

\* The records that may be active next, within the bounds.
Populations ==
  {A \in SUBSET Records :
     \/ A \cup Known \subseteq Core
     \/ Cardinality(A) >= MinActive /\ revision + 1 < MaxRevision}

\* What resolver::resolve returns: the active records, each with the key of
\* its component, the component's first record.
ResolutionsOf(A) == {p \in [A -> A] : \A r \in A : p[p[r]] = p[r] /\ p[r] <= r}

Resolutions == UNION {ResolutionsOf(A) : A \in Populations}

Together(p, r, s) == r \in DOMAIN p /\ s \in DOMAIN p /\ p[r] = p[s]

\* Mutation: only active membership rows carry the closure.
MembershipClosedActiveOnly(S) ==
  \A r, s \in Known :
    /\ r \in S /\ member[r].id = member[s].id
    /\ member[r].active /\ member[s].active
    => s \in S

\* load_affected_scope goes on until no membership row, current or
\* historical, and no connecting edge leads out of the selected records.
MembershipClosed(S) ==
  \A r, s \in Known : r \in S /\ member[r].id = member[s].id => s \in S

EdgeClosed(S, p) ==
  \A r, s \in Records : r \in S /\ Together(p, r, s) => s \in S

\* The deltas told of every change: outside S nothing is resolved anew.
ChangedOnlyIn(S, p) ==
  \A r \in Records \ S :
    /\ r \in DOMAIN p <=> r \in DOMAIN resolved
    /\ \A s \in Records \ S : Together(p, r, s) <=> Together(resolved, r, s)

-----------------------------------------------------------------------------
(* Continuity: which component takes over which mdm_id.                    *)

\* The members of i that are resolved again.
Continuing(S, p, i) ==
  {r \in S \cap Known \cap DOMAIN p : member[r].active /\ member[r].id = i}

OldIds(S, p) == {i \in Issued : Continuing(S, p, i) # {}}

AnchorBefore(r, s) ==
  \/ member[r].first < member[s].first
  \/ member[r].first = member[s].first /\ r < s

\* Mutation: the anchor is the member that joined last.
AnchorLatest(S, p, i) ==
  CHOOSE r \in Continuing(S, p, i) :
    \A s \in Continuing(S, p, i) \ {r} : AnchorBefore(s, r)

\* The continuing member with the earliest first membership.
Anchor(S, p, i) ==
  CHOOSE r \in Continuing(S, p, i) :
    \A s \in Continuing(S, p, i) \ {r} : AnchorBefore(r, s)

IdBefore(i, j) ==
  \/ registry[i].created < registry[j].created
  \/ registry[i].created = registry[j].created /\ i < j

Keys(S, p) == {p[r] : r \in S \cap DOMAIN p}

\* Mutation: any continuing member claims, not the anchor alone.
ClaimsByAnyMember(S, p, k) ==
  {i \in OldIds(S, p) : \E r \in Continuing(S, p, i) : p[r] = k}

Claims(S, p, k) == {i \in OldIds(S, p) : p[Anchor(S, p, i)] = k}

Oldest(I) == CHOOSE i \in I : \A j \in I \ {i} : IdBefore(i, j)

\* The id each component gets: its oldest claim or a new one.
Assigned(S, p) ==
  LET claims == [k \in Keys(S, p) |-> Claims(S, p, k)]
      fresh == {k \in Keys(S, p) : claims[k] = {}}
  IN  [k \in Keys(S, p) |->
         IF k \in fresh
         THEN Cardinality(Issued) + Cardinality({j \in fresh : j >= k})
         ELSE Oldest(claims[k])]

\* Where the continuing members of i are now; `new' is what was assigned.
Successors(S, p, new, i) == {new[p[r]] : r \in Continuing(S, p, i)}

-----------------------------------------------------------------------------
(* The next ledger.                                                        *)

\* The registry rows reconcile is given: all, or those some membership row
\* of the scope refers to.
RegistryScope(S) ==
  IF S = Records THEN Issued ELSE {member[r].id : r \in S \cap Known}

\* Mutation: the status changes and the retirement is not dated.
RetireUndated(i, status) ==
  [status |-> status, created |-> registry[i].created, retired |-> 0]

Retire(i, status) ==
  [status |-> status, created |-> registry[i].created, retired |-> revision + 1]

NextIdentity(S, p, new, i) ==
  LET next == Successors(S, p, new, i)
  IN  IF ~Active(i) \/ i \in next THEN registry[i]
      ELSE IF next = {} THEN Retire(i, "retired")
      ELSE IF Cardinality(next) = 1 THEN Retire(i, "merged")
      ELSE Retire(i, "split")

NextRegistry(S, p, new) ==
  LET used == {new[k] : k \in Keys(S, p)}
  IN  [i \in Issued \cup used |->
         IF i \in RegistryScope(S) THEN NextIdentity(S, p, new, i)
         ELSE IF i \in Issued THEN registry[i]
         ELSE [status |-> "active", created |-> revision + 1, retired |-> 0]]

Row(i, c) == [from |-> i, to |-> c, rev |-> revision + 1]

\* An id all of whose members went into one other id.
NewAliases(S, p, new) ==
  UNION {{Row(i, c) : c \in Successors(S, p, new, i) \ {i}} :
           i \in {i \in OldIds(S, p) : Cardinality(Successors(S, p, new, i)) = 1}}

\* Mutation: a split lists the new parts only.
NewSplitsOthersOnly(S, p, new) ==
  UNION {{Row(i, c) : c \in Successors(S, p, new, i) \ {i}} :
           i \in {i \in OldIds(S, p) : Cardinality(Successors(S, p, new, i)) > 1}}

\* Every part of a split, the one that keeps the id included.
NewSplits(S, p, new) ==
  UNION {{Row(i, c) : c \in Successors(S, p, new, i)} :
           i \in {i \in OldIds(S, p) : Cardinality(Successors(S, p, new, i)) > 1}}

\* Mutation: a record that comes back takes up its old membership's revision
\* as if it had just been seen.
NextMemberForgetsFirst(S, p, new) ==
  [r \in Known \cup (S \cap DOMAIN p) |->
     IF r \in S \cap DOMAIN p
     THEN [id |-> new[p[r]], active |-> TRUE, first |-> revision + 1]
     ELSE IF r \in S THEN [member[r] EXCEPT !.active = FALSE]
     ELSE member[r]]

NextMember(S, p, new) ==
  [r \in Known \cup (S \cap DOMAIN p) |->
     IF r \in S \cap DOMAIN p
     THEN [id |-> new[p[r]], active |-> TRUE,
           first |-> IF r \in Known THEN member[r].first ELSE revision + 1]
     ELSE IF r \in S THEN [member[r] EXCEPT !.active = FALSE]
     ELSE member[r]]

\* validate_aliases: known ids, one target each, no cycle.
AliasesValid(A, ids) ==
  /\ \A a \in A : a.from \in ids /\ a.to \in ids /\ a.from # a.to
  /\ \A a, b \in A : a.from = b.from => a = b
  /\ \A C \in SUBSET {a.from : a \in A} :
       C # {} => \E a \in A : a.from \in C /\ a.to \notin C

\* The alias rows reconcile is given: an affected closure loads none.
AliasScope(S) == IF S = Records THEN aliases ELSE {}

\* What reconcile refuses.
Invalid(S, p, new) ==
  LET old == AliasScope(S)
  IN  \/ \E r \in S \cap Known : member[r].active /\ ~Active(member[r].id)
      \/ ~AliasesValid(old, RegistryScope(S))
      \/ \E j, k \in Keys(S, p) : j # k /\ new[j] = new[k]
      \/ ~AliasesValid(old \cup NewAliases(S, p, new),
            RegistryScope(S) \cup {new[k] : k \in Keys(S, p)})

-----------------------------------------------------------------------------
(* Publications.                                                           *)

Init ==
  /\ revision = 0
  /\ resolved = [r \in {} |-> 0]
  /\ registry = [i \in {} |-> 0]
  /\ member = [r \in {} |-> 0]
  /\ aliases = {}
  /\ splits = {}
  /\ error = FALSE
  /\ held = [r \in Records |-> {}]

\* Reconcile over the records of S and persist the outcome, as one
\* transaction.  Alias rows are keyed by the alias: a second is ignored.
Commit(S, p) ==
  LET new == Assigned(S, p)
      rows == NextMember(S, p, new)
  IN  IF Invalid(S, p, new)
      THEN /\ error' = TRUE
           /\ UNCHANGED <<revision, resolved, registry, member, aliases, splits, held>>
      ELSE /\ revision' = revision + 1
           /\ resolved' = p
           /\ registry' = NextRegistry(S, p, new)
           /\ member' = rows
           /\ aliases' = aliases \cup {a \in NewAliases(S, p, new) :
                                         \A b \in aliases : b.from # a.from}
           /\ splits' = splits \cup NewSplits(S, p, new)
           /\ held' = [r \in Records |->
                IF r \notin DOMAIN p THEN {}
                ELSE {rows[r].id} \cup (IF r \in DOMAIN resolved THEN held[r] ELSE {})]
           /\ UNCHANGED error

PublishFull ==
  /\ revision < MaxRevision
  /\ \E p \in Resolutions : Commit(Records, p)

PublishAffected ==
  /\ revision \in 1..(MaxRevision - 1)
  /\ \E S \in SUBSET Records \ {{}, Records} :
       /\ MembershipClosed(S)
       /\ \E p \in Resolutions :
            /\ EdgeClosed(S, p)
            /\ ChangedOnlyIn(S, p)
            /\ Commit(S, p)

Next == PublishFull \/ PublishAffected

Spec == Init /\ [][Next]_vars

-----------------------------------------------------------------------------
(* The history of an mdm_id.                                               *)

Transitions == aliases \cup splits

\* The first transitions of q[1] after the publication q[2].
Later(q) == {t \in Transitions : t.from = q[1] /\ t.rev > q[2]}
Following(q) == {t \in Later(q) : \A u \in Later(q) : t.rev <= u.rev}

\* Where q[1] leads after the publication q[2].
Reach[q \in Issued \X (0..MaxRevision)] ==
  IF Later(q) = {} THEN {q[1]}
  ELSE UNION {Reach[<<t.to, t.rev>>] : t \in Following(q)}

\* current_successors: follow, from each id, its first transitions later than
\* the one that led there.
CurrentSuccessors(start) == Reach[<<start, 0>>]

-----------------------------------------------------------------------------
(* Properties.                                                             *)

Statuses == {"active", "merged", "split", "retired"}

\* The type of the ledger, with the CHECK constraints of the registry table.
TypeOK ==
  /\ revision \in 0..MaxRevision
  /\ DOMAIN resolved \subseteq Records /\ resolved \in ResolutionsOf(DOMAIN resolved)
  /\ \A i \in Issued :
       /\ registry[i] \in [status : Statuses, created : 1..revision, retired : 0..revision]
       /\ registry[i].status = "active" <=> registry[i].retired = 0
       /\ registry[i].retired # 0 => registry[i].retired >= registry[i].created
  /\ Issued = 1..Cardinality(Issued)
  /\ Known \subseteq Records
  /\ \A r \in Known :
       member[r] \in [id : Issued, active : BOOLEAN, first : 1..revision]
  /\ Transitions \subseteq [from : Issued, to : Issued, rev : 1..revision]
  /\ error \in BOOLEAN
  /\ held \in [Records -> SUBSET Issued]

\* However merges, splits, removals and returns follow one another, reconcile
\* accepts the ledger it wrote itself: no entity is ever stuck on
\* IdentityInvalid, neither in a full nor in an affected refresh.
ReconcileNeverFails == ~error

\* The ledger says what the resolution says: the active rows are the resolved
\* records, two of them share an id exactly if they share a component, and an
\* id is active exactly if an active record holds it.
LedgerMatchesResolution ==
  /\ {r \in Known : member[r].active} = DOMAIN resolved
  /\ \A r, s \in DOMAIN resolved :
       member[r].id = member[s].id <=> Together(resolved, r, s)
  /\ {i \in Issued : Active(i)} = {member[r].id : r \in DOMAIN resolved}

\* An id once published leads to the record it stood for: as long as the
\* record stays active, its present id is among the current successors of
\* every id it has held, across any number of merges and splits; and where an
\* id leads, history ends: at an active id or at one retired when its last
\* member left, never at one that was merged or split away.
LineageComplete ==
  LET ends == [i \in Issued |-> CurrentSuccessors(i)]
  IN  /\ \A r \in DOMAIN resolved : \A i \in held[r] : member[r].id \in ends[i]
      /\ \A i \in Issued :
           ends[i] # {} /\ \A c \in ends[i] : registry[c].status \in {"active", "retired"}

\* A refresh over an affected closure writes the ledger a full refresh would
\* have written, row for row.
AffectedMatchesFull ==
  [][ \A p \in {resolved'} : \A new \in {Assigned(Records, p)} :
        /\ ~Invalid(Records, p, new)
        /\ registry' = NextRegistry(Records, p, new)
        /\ member' = NextMember(Records, p, new)
        /\ aliases' = aliases \cup NewAliases(Records, p, new)
        /\ splits' = splits \cup NewSplits(Records, p, new) ]_vars

\* The earliest member of an id, among those still active, keeps it or takes
\* it into an older id: no publication gives that record a newer id, and the
\* id lives on exactly if its earliest member kept it.
ContinuityByAnchor ==
  [][ \A i \in Issued :
        LET stay == {r \in DOMAIN resolved \cap DOMAIN resolved' : member[r].id = i}
            first == CHOOSE r \in stay : \A s \in stay \ {r} : AnchorBefore(r, s)
        IN  stay # {} /\ ~error' =>
              /\ \/ member'[first].id = i
                 \/ member'[first].id \in Issued /\ IdBefore(member'[first].id, i)
              /\ registry'[i].status = "active" <=> member'[first].id = i ]_vars

\* What left the ledger stays left: the row of an id that is not active never
\* changes, no record takes such an id, and a record keeps the revision of its
\* first appearance even when it returns.
NothingReturns ==
  [][ /\ \A i \in Issued : ~Active(i) => registry'[i] = registry[i]
      /\ \A r \in DOMAIN resolved' :
           member'[r].id \in Issued => Active(member'[r].id)
      /\ \A r \in Known : member'[r].first = member[r].first ]_vars
=============================================================================
