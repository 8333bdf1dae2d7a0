--------------------------- MODULE Steward_proofs ---------------------------
(***************************************************************************)
(* Proofs about Steward for every set of records, fields, definitions and  *)
(* stewards: the types, the numbering of control changes, that a refresh   *)
(* can rebuild them, that the current decisions never contradict each      *)
(* other, whatever records are active, and that no write replaces what its *)
(* steward has not seen.                                                   *)
(***************************************************************************)
EXTENDS Steward, TLAPS

\* What a write does to the rows of its table.
LEMMA RetiredRows ==
  ASSUME NEW rows, NEW target, NEW row \in Retired(rows, target)
  PROVE  \E old \in rows :
           /\ row = IF old.current /\ old.on = target
                      THEN [old EXCEPT !.current = FALSE] ELSE old
  BY DEF Retired

LEMMA DecisionVersions ==
  ASSUME NEW rows \in SUBSET DecisionRows, NEW target
  PROVE  VersionOn(rows, target) \in Nat /\ Superseded(rows, target) \in Nat
<1>1. CASE CurrentOn(rows, target) = {}
  BY <1>1 DEF VersionOn, Superseded
<1>2. CASE CurrentOn(rows, target) # {}
  <2>1. (CHOOSE row \in CurrentOn(rows, target) : TRUE) \in CurrentOn(rows, target)
    BY <1>2
  <2>2. (CHOOSE row \in CurrentOn(rows, target) : TRUE) \in DecisionRows
    BY <2>1 DEF CurrentOn
  <2> QED BY <1>2, <2>2 DEF VersionOn, Superseded, DecisionRows
<1> QED BY <1>1, <1>2

LEMMA DirectiveVersions ==
  ASSUME NEW rows \in SUBSET DirectiveRows, NEW target
  PROVE  VersionOn(rows, target) \in Nat /\ Superseded(rows, target) \in Nat
<1>1. CASE CurrentOn(rows, target) = {}
  BY <1>1 DEF VersionOn, Superseded
<1>2. CASE CurrentOn(rows, target) # {}
  <2>1. (CHOOSE row \in CurrentOn(rows, target) : TRUE) \in CurrentOn(rows, target)
    BY <1>2
  <2>2. (CHOOSE row \in CurrentOn(rows, target) : TRUE) \in DirectiveRows
    BY <2>1 DEF CurrentOn
  <2> QED BY <1>2, <2>2 DEF VersionOn, Superseded, DirectiveRows
<1> QED BY <1>1, <1>2

LEMMA PairOfType ==
  ASSUME NEW r \in Records, NEW s \in Records, r # s
  PROVE  PairOf(r, s) \in Pairs
<1>1. r \in Nat /\ s \in Nat
  BY RecordsAssumption
<1> QED BY <1>1 DEF PairOf, Pairs

-----------------------------------------------------------------------------
(* Types.                                                                  *)

\* A write to either table keeps its type.
LEMMA DecisionWriteType ==
  ASSUME TypeOK, NEW p \in Pairs, NEW kind \in Kinds
  PROVE  Written(decisions, p, kind) \in SUBSET DecisionRows
<1>1. NewRow(decisions, p, kind) \in DecisionRows
  BY DecisionVersions DEF TypeOK, NewRow, DecisionRows
<1>2. ASSUME NEW row \in Retired(decisions, p) PROVE row \in DecisionRows
  <2>1. PICK old \in decisions :
          row = IF old.current /\ old.on = p
                  THEN [old EXCEPT !.current = FALSE] ELSE old
    BY <1>2, RetiredRows
  <2>2. old \in DecisionRows
    BY DEF TypeOK
  <2> QED BY <2>1, <2>2 DEF DecisionRows
<1> QED BY <1>1, <1>2 DEF Written

LEMMA DirectiveWriteType ==
  ASSUME TypeOK, NEW t \in Targets, NEW x \in Actions
  PROVE  Written(directives, t, x) \in SUBSET DirectiveRows
<1>1. NewRow(directives, t, x) \in DirectiveRows
  BY DirectiveVersions DEF TypeOK, NewRow, DirectiveRows
<1>2. ASSUME NEW row \in Retired(directives, t) PROVE row \in DirectiveRows
  <2>1. PICK old \in directives :
          row = IF old.current /\ old.on = t
                  THEN [old EXCEPT !.current = FALSE] ELSE old
    BY <1>2, RetiredRows
  <2>2. old \in DirectiveRows
    BY DEF TypeOK
  <2> QED BY <2>1, <2>2 DEF DirectiveRows
<1> QED BY <1>1, <1>2 DEF Written

LEMMA ReadType ==
  ASSUME TypeOK, NEW c \in Clients, NEW table \in Tables, NEW rows,
         NEW target \in Pairs \cup Targets,
         VersionOn(rows, target) \in Nat, Superseded(rows, target) \in Nat,
         Read(c, table, rows, target)
  PROVE  TypeOK'
<1>1. [table |-> table, on |-> target, version |-> VersionOn(rows, target),
       epoch |-> Superseded(rows, target)] \in Seen
  BY DEF Seen
<1>2. seen' \in [Clients -> Seen]
  BY <1>1 DEF TypeOK, Read
<1> QED BY <1>2 DEF TypeOK, Read

LEMMA TypeStep == TypeOK /\ [Next]_vars => TypeOK'
<1> SUFFICES ASSUME TypeOK, [Next]_vars PROVE TypeOK'
  OBVIOUS
<1>1. ASSUME NEW c \in Clients, NEW p \in Pairs, Read(c, "decisions", decisions, p)
      PROVE  TypeOK'
  <2>1. VersionOn(decisions, p) \in Nat /\ Superseded(decisions, p) \in Nat
    BY DecisionVersions DEF TypeOK
  <2> QED BY <1>1, <2>1, ReadType DEF Tables
<1>2. ASSUME NEW c \in Clients, NEW t \in Targets, Read(c, "directives", directives, t)
      PROVE  TypeOK'
  <2>1. VersionOn(directives, t) \in Nat /\ Superseded(directives, t) \in Nat
    BY DirectiveVersions DEF TypeOK
  <2> QED BY <1>2, <2>1, ReadType DEF Tables
<1>3. ASSUME NEW c \in Clients, NEW r \in Records, NEW s \in Records,
             NEW kind \in Kinds, Decide(c, r, s, kind)
      PROVE  TypeOK'
  <2>1. PairOf(r, s) \in Pairs
    BY <1>3, PairOfType DEF Decide
  <2>2. decisions' \in SUBSET DecisionRows
    BY <1>3, <2>1, DecisionWriteType DEF Decide
  <2> QED BY <1>3, <2>2 DEF TypeOK, Decide
<1>4. ASSUME NEW c \in Clients, NEW f \in Fields, NEW a \in Anchors,
             NEW x \in Actions, Override(c, f, a, x)
      PROVE  TypeOK'
  <2>1. <<f, a>> \in Targets
    BY DEF Targets
  <2>2. directives' \in SUBSET DirectiveRows
    BY <1>4, <2>1, DirectiveWriteType DEF Override
  <2> QED BY <1>4, <2>2 DEF TypeOK, Override
<1>5. ASSUME NEW A \in SUBSET Records, Publish(A) PROVE TypeOK'
  BY <1>5 DEF TypeOK, Publish, Current
<1>6. ASSUME NEW d \in Definitions, Replace(d) PROVE TypeOK'
  BY <1>6 DEF TypeOK, Replace
<1>7. CASE UNCHANGED vars
  BY <1>7 DEF TypeOK, vars
<1> QED BY <1>1, <1>2, <1>3, <1>4, <1>5, <1>6, <1>7 DEF Next

LEMMA TypeInit == Init => TypeOK
  BY DEF Init, TypeOK, Seen, Unread

\* Every variable keeps its type, and the epoch of a publication is never
\* beyond the entity's (load_control_changes relies on it to be incremental).
THEOREM TypeCorrect == Spec => []TypeOK
<1>1. Init => TypeOK
  BY TypeInit
<1>2. TypeOK /\ [Next]_vars => TypeOK'
  BY TypeStep
<1> QED BY <1>1, <1>2, PTL DEF Spec

-----------------------------------------------------------------------------
(* The numbering.                                                          *)

\* Epochs of a set of rows.
EpochsOf(rows) == {row.epoch : row \in rows}

\* A write adds the next epoch to those of its table and repeats none.
LEMMA WriteEpochs ==
  ASSUME NEW rows, NEW target, NEW what,
         epoch \in Nat,
         \A row \in rows : [row EXCEPT !.current = FALSE].epoch = row.epoch,
         \A row \in rows : row.epoch \in 1 .. epoch,
         \A a, b \in rows : a.epoch = b.epoch => a = b
  PROVE  /\ EpochsOf(Written(rows, target, what)) = EpochsOf(rows) \cup {epoch + 1}
         /\ \A a, b \in Written(rows, target, what) : a.epoch = b.epoch => a = b
<1>0. NewRow(rows, target, what).epoch = epoch + 1
  BY DEF NewRow
<1> DEFINE Image(old) == IF old.current /\ old.on = target
                           THEN [old EXCEPT !.current = FALSE] ELSE old
<1>1. \A old \in rows : Image(old).epoch = old.epoch
  OBVIOUS
<1>2. \A row \in Retired(rows, target) : \E old \in rows : row = Image(old)
  BY RetiredRows
<1>3. \A old \in rows : Image(old) \in Retired(rows, target)
  BY DEF Retired
<1> HIDE DEF Image
<1>4. EpochsOf(Retired(rows, target)) = EpochsOf(rows)
  <2>1. ASSUME NEW row \in Retired(rows, target) PROVE row.epoch \in EpochsOf(rows)
    BY <1>1, <1>2 DEF EpochsOf
  <2>2. ASSUME NEW old \in rows PROVE old.epoch \in EpochsOf(Retired(rows, target))
    <3>1. Image(old) \in Retired(rows, target) /\ Image(old).epoch = old.epoch
      BY <1>1, <1>3
    <3> QED BY <3>1, Zenon DEF EpochsOf
  <2> QED BY <2>1, <2>2 DEF EpochsOf
<1>5. EpochsOf(Written(rows, target, what)) = EpochsOf(rows) \cup {epoch + 1}
  <2>1. EpochsOf(Written(rows, target, what))
          = EpochsOf(Retired(rows, target)) \cup {NewRow(rows, target, what).epoch}
    BY Zenon DEF EpochsOf, Written
  <2> QED BY <1>0, <1>4, <2>1
<1>6. \A a \in Retired(rows, target) : a.epoch \in 1 .. epoch
  BY <1>1, <1>2
<1>7. \A a, b \in Retired(rows, target) : a.epoch = b.epoch => a = b
  <2> TAKE a, b \in Retired(rows, target)
  <2> HAVE a.epoch = b.epoch
  <2>1. PICK x \in rows : a = Image(x)
    BY <1>2
  <2>2. PICK y \in rows : b = Image(y)
    BY <1>2
  <2>3. x.epoch = y.epoch
    BY <1>1, <2>1, <2>2
  <2> QED BY <2>1, <2>2, <2>3
<1>8. \A a, b \in Written(rows, target, what) : a.epoch = b.epoch => a = b
  <2>1. epoch + 1 \notin 1 .. epoch
    OBVIOUS
  <2> QED BY <1>0, <1>6, <1>7, <2>1 DEF Written
<1> QED BY <1>5, <1>8

LEMMA EpochStep == TypeOK /\ EpochsExact /\ [Next]_vars => EpochsExact'
<1> SUFFICES ASSUME TypeOK, EpochsExact, [Next]_vars PROVE EpochsExact'
  OBVIOUS
<1> DEFINE Numbering(ds, os, n) ==
             /\ EpochsOf(ds) \cup EpochsOf(os) = 1 .. n
             /\ OneRowEach(ds, os)
<1>0. epoch \in Nat
  BY DEF TypeOK
<1>1. Numbering(decisions, directives, epoch)
  BY DEF EpochsExact, EpochsOf
<1>2. \A n \in Nat : 1 .. n + 1 = (1 .. n) \cup {n + 1}
  OBVIOUS
<1>3. \A row \in decisions \cup directives : row.epoch \in 1 .. epoch
  BY DEF EpochsExact
<1>4. /\ \A row \in decisions : [row EXCEPT !.current = FALSE].epoch = row.epoch
      /\ \A row \in directives : [row EXCEPT !.current = FALSE].epoch = row.epoch
  BY DEF TypeOK, DecisionRows, DirectiveRows
<1>5. ASSUME Numbering(decisions', directives', epoch') PROVE EpochsExact'
  <2>1. \A row \in decisions' \cup directives' :
          row.epoch \in EpochsOf(decisions') \cup EpochsOf(directives')
    BY DEF EpochsOf
  <2>2. \A e \in EpochsOf(decisions') \cup EpochsOf(directives') :
          \E row \in decisions' \cup directives' : row.epoch = e
    BY DEF EpochsOf
  <2> QED BY <1>5, <2>1, <2>2 DEF EpochsExact, OneRowEach
<1>6. ASSUME NEW c \in Clients, NEW r \in Records, NEW s \in Records,
             NEW kind \in Kinds, Decide(c, r, s, kind)
      PROVE  EpochsExact'
  <2> DEFINE new == Written(decisions, PairOf(r, s), kind)
  <2>1. /\ EpochsOf(new) = EpochsOf(decisions) \cup {epoch + 1}
        /\ \A a, b \in new : a.epoch = b.epoch => a = b
    BY <1>0, <1>1, <1>3, <1>4, WriteEpochs DEF OneRowEach
  <2>2. \A a \in new, b \in directives : a.epoch # b.epoch
    <3> TAKE a \in new, b \in directives
    <3>1. a.epoch \in EpochsOf(decisions) \cup {epoch + 1}
      BY <2>1, Zenon DEF EpochsOf
    <3>2. a.epoch = epoch + 1 \/ \E d \in decisions : a.epoch = d.epoch
      BY <3>1, Zenon DEF EpochsOf
    <3>3. b.epoch \in 1 .. epoch
      BY <1>3
    <3> QED BY <1>0, <1>1, <3>2, <3>3 DEF OneRowEach
  <2>3. decisions' = new /\ directives' = directives /\ epoch' = epoch + 1
    BY <1>6 DEF Decide
  <2> HIDE DEF new
  <2>4. Numbering(decisions', directives', epoch')
    <3>1. EpochsOf(decisions') \cup EpochsOf(directives') = 1 .. epoch'
      BY <1>0, <1>1, <1>2, <2>1, <2>3
    <3> QED BY <1>1, <2>1, <2>2, <2>3, <3>1 DEF OneRowEach
  <2> QED BY <1>5, <2>4
<1>7. ASSUME NEW c \in Clients, NEW f \in Fields, NEW x \in Anchors,
             NEW act \in Actions, Override(c, f, x, act)
      PROVE  EpochsExact'
  <2> DEFINE new == Written(directives, <<f, x>>, act)
  <2>1. /\ EpochsOf(new) = EpochsOf(directives) \cup {epoch + 1}
        /\ \A a, b \in new : a.epoch = b.epoch => a = b
    BY <1>0, <1>1, <1>3, <1>4, WriteEpochs DEF OneRowEach
  <2>2. \A a \in decisions, b \in new : a.epoch # b.epoch
    <3> TAKE a \in decisions, b \in new
    <3>1. b.epoch \in EpochsOf(directives) \cup {epoch + 1}
      BY <2>1, Zenon DEF EpochsOf
    <3>2. b.epoch = epoch + 1 \/ \E d \in directives : b.epoch = d.epoch
      BY <3>1, Zenon DEF EpochsOf
    <3>3. a.epoch \in 1 .. epoch
      BY <1>3
    <3> QED BY <1>0, <1>1, <3>2, <3>3 DEF OneRowEach
  <2>3. directives' = new /\ decisions' = decisions /\ epoch' = epoch + 1
    BY <1>7 DEF Override
  <2> HIDE DEF new
  <2>4. Numbering(decisions', directives', epoch')
    <3>1. EpochsOf(decisions') \cup EpochsOf(directives') = 1 .. epoch'
      BY <1>0, <1>1, <1>2, <2>1, <2>3
    <3> QED BY <1>1, <2>1, <2>2, <2>3, <3>1 DEF OneRowEach
  <2> QED BY <1>5, <2>4
<1>8. ASSUME UNCHANGED <<decisions, directives, epoch>> PROVE EpochsExact'
  BY <1>8 DEF EpochsExact
<1> QED BY <1>6, <1>7, <1>8 DEF Next, Read, Publish, Replace, vars

\* Every decision epoch belongs to exactly one row of the two tables, whatever
\* stewards write in whatever order: load_control_changes can rebuild what
\* happened since any publication.
THEOREM EpochLedger == Spec => []EpochsExact
<1>1. Init => EpochsExact
  BY DEF Init, EpochsExact, OneRowEach
<1>2. TypeOK /\ EpochsExact /\ [Next]_vars => EpochsExact'
  BY EpochStep
<1> QED BY <1>1, <1>2, TypeCorrect, PTL DEF Spec

-----------------------------------------------------------------------------
(* Control changes since the last publication.                             *)

\* A write touches no row of another target, and gives its own target a row
\* with the new epoch.
LEMMA WriteTarget ==
  ASSUME NEW rows, NEW target, NEW what, NEW other, other # target,
         \A row \in rows : [row EXCEPT !.current = FALSE].on = row.on
  PROVE  /\ \A row : row.on = other =>
                (row \in Written(rows, target, what) <=> row \in rows)
         /\ CurrentOn(Written(rows, target, what), other) = CurrentOn(rows, other)
<1>1. NewRow(rows, target, what).on = target
  BY DEF NewRow
<1>2. ASSUME NEW row, row.on = other, row \in Retired(rows, target)
      PROVE  row \in rows
  <2>1. PICK old \in rows : row = IF old.current /\ old.on = target
                                    THEN [old EXCEPT !.current = FALSE] ELSE old
    BY <1>2, RetiredRows
  <2>2. CASE old.current /\ old.on = target
    <3>1. row.on = target
      BY <2>1, <2>2
    <3> QED BY <1>2, <3>1
  <2>3. CASE ~(old.current /\ old.on = target)
    BY <2>1, <2>3
  <2> QED BY <2>2, <2>3
<1>3. ASSUME NEW row \in rows, row.on = other
      PROVE  row \in Retired(rows, target)
  <2>1. row = IF row.current /\ row.on = target
                THEN [row EXCEPT !.current = FALSE] ELSE row
    BY <1>3
  <2> QED BY <2>1, Zenon DEF Retired
<1>4. \A row : row.on = other =>
         (row \in Written(rows, target, what) <=> row \in rows)
  BY <1>1, <1>2, <1>3 DEF Written
<1>5. CurrentOn(Written(rows, target, what), other) = CurrentOn(rows, other)
  BY <1>4 DEF CurrentOn
<1> QED BY <1>4, <1>5

\* What the last publication took from a table stands until a row with a later
\* epoch is written on the target.
UnchangedSince(rows, old, targets) ==
  \A t \in targets :
    (\A row \in rows : row.on = t => row.epoch <= pubEpoch) => Says(rows, t) = Says(old, t)

BasisInv ==
  /\ UnchangedSince(decisions, basis.decisions, Pairs)
  /\ UnchangedSince(directives, basis.directives, Targets)

LEMMA WriteUnchanged ==
  ASSUME NEW rows, NEW target, NEW what, NEW old, NEW targets,
         epoch \in Nat, pubEpoch \in 0 .. epoch,
         \A row \in rows : [row EXCEPT !.current = FALSE].on = row.on,
         UnchangedSince(rows, old, targets)
  PROVE  UnchangedSince(Written(rows, target, what), old, targets)
<1> SUFFICES ASSUME NEW t \in targets,
                    \A row \in Written(rows, target, what) :
                       row.on = t => row.epoch <= pubEpoch
             PROVE  Says(Written(rows, target, what), t) = Says(old, t)
  BY DEF UnchangedSince
<1>1. CASE t = target
  <2>1. /\ NewRow(rows, target, what) \in Written(rows, target, what)
        /\ NewRow(rows, target, what).on = target
        /\ NewRow(rows, target, what).epoch = epoch + 1
    BY DEF NewRow, Written
  <2>2. epoch + 1 <= pubEpoch
    BY <1>1, <2>1
  <2> QED BY <2>2
<1>2. CASE t # target
  <2>1. \A row \in rows : row.on = t => row.epoch <= pubEpoch
    BY <1>2, WriteTarget
  <2>2. CurrentOn(Written(rows, target, what), t) = CurrentOn(rows, t)
    BY <1>2, WriteTarget
  <2>3. Says(Written(rows, target, what), t) = Says(rows, t)
    BY <2>2 DEF Says
  <2> QED BY <2>1, <2>3 DEF UnchangedSince
<1> QED BY <1>1, <1>2

LEMMA BasisStep == TypeOK /\ BasisInv /\ [Next]_vars => BasisInv'
<1> SUFFICES ASSUME TypeOK, BasisInv, [Next]_vars PROVE BasisInv'
  OBVIOUS
<1>0. /\ epoch \in Nat /\ pubEpoch \in 0 .. epoch
      /\ \A row \in decisions : [row EXCEPT !.current = FALSE].on = row.on
      /\ \A row \in directives : [row EXCEPT !.current = FALSE].on = row.on
  BY DEF TypeOK, DecisionRows, DirectiveRows
<1>1. ASSUME NEW c \in Clients, NEW r \in Records, NEW s \in Records,
             NEW kind \in Kinds, Decide(c, r, s, kind)
      PROVE  BasisInv'
  <2>1. UnchangedSince(Written(decisions, PairOf(r, s), kind), basis.decisions, Pairs)
    BY <1>0, WriteUnchanged DEF BasisInv
  <2> QED BY <1>1, <2>1 DEF BasisInv, UnchangedSince, Decide
<1>2. ASSUME NEW c \in Clients, NEW f \in Fields, NEW x \in Anchors,
             NEW act \in Actions, Override(c, f, x, act)
      PROVE  BasisInv'
  <2>1. UnchangedSince(Written(directives, <<f, x>>, act), basis.directives, Targets)
    BY <1>0, WriteUnchanged DEF BasisInv
  <2> QED BY <1>2, <2>1 DEF BasisInv, UnchangedSince, Override
<1>3. ASSUME NEW A \in SUBSET Records, Publish(A) PROVE BasisInv'
  <2>1. \A rows, t : Says(Current(rows), t) = Says(rows, t)
    BY DEF Says, Current, CurrentOn
  <2>2. /\ decisions' = decisions /\ directives' = directives
        /\ basis' = [decisions |-> Current(decisions),
                     directives |-> Current(directives)]
    BY <1>3 DEF Publish
  <2> QED BY <2>1, <2>2 DEF BasisInv, UnchangedSince
<1>4. ASSUME UNCHANGED <<decisions, directives, pubEpoch, basis>> PROVE BasisInv'
  BY <1>4 DEF BasisInv, UnchangedSince
<1> QED BY <1>1, <1>2, <1>3, <1>4 DEF Next, Read, Replace, vars

LEMMA ChangesFollow == TypeOK /\ EpochsExact /\ BasisInv => ChangesSeeded
<1> SUFFICES ASSUME TypeOK, EpochsExact, BasisInv, revision > 0
             PROVE  ChangesSeeded
  BY DEF ChangesSeeded
<1>0. epoch \in Nat /\ pubEpoch \in 0 .. epoch
  BY DEF TypeOK
<1>1. Reconstructable
  <2> DEFINE ds == RowsSince(decisions, pubEpoch)
             os == RowsSince(directives, pubEpoch)
  <2>1. OneRowEach(ds, os)
    BY DEF EpochsExact, OneRowEach, RowsSince
  <2>2. ASSUME NEW e \in pubEpoch + 1 .. epoch
        PROVE  \E row \in ds \cup os : row.epoch = e
    <3>1. e \in 1 .. epoch /\ pubEpoch < e /\ e <= epoch
      BY <1>0
    <3>2. PICK row \in decisions \cup directives : row.epoch = e
      BY <3>1 DEF EpochsExact
    <3> QED BY <3>1, <3>2 DEF RowsSince
  <2>3. revision # 0
    BY DEF TypeOK
  <2> QED BY <1>0, <2>1, <2>2, <2>3 DEF Reconstructable
<1>2. ASSUME NEW p \in Pairs, Says(decisions, p) # Says(basis.decisions, p)
      PROVE  {p[1], p[2]} \subseteq ControlSeeds
  <2>1. PICK row \in decisions : row.on = p /\ ~(row.epoch <= pubEpoch)
    BY <1>2 DEF BasisInv, UnchangedSince
  <2>2. row.epoch \in 1 .. epoch
    BY DEF EpochsExact
  <2>3. row \in RowsSince(decisions, pubEpoch)
    BY <1>0, <2>1, <2>2 DEF RowsSince
  <2> QED BY <2>1, <2>3 DEF ControlSeeds
<1>3. ASSUME NEW t \in Targets, IsSet(directives, t) # IsSet(basis.directives, t)
      PROVE  active \cup {t[2]} \subseteq ControlSeeds
  <2>1. Says(directives, t) # Says(basis.directives, t)
    BY <1>3 DEF IsSet
  <2>2. PICK row \in directives : row.on = t /\ ~(row.epoch <= pubEpoch)
    BY <2>1 DEF BasisInv, UnchangedSince
  <2>3. row.epoch \in 1 .. epoch
    BY DEF EpochsExact
  <2>4. row \in RowsSince(directives, pubEpoch)
    BY <1>0, <2>2, <2>3 DEF RowsSince
  <2> QED BY <2>2, <2>4 DEF ControlSeeds
<1> QED BY <1>1, <1>2, <1>3 DEF ChangesSeeded

\* After the first publication the control changes since it can be rebuilt,
\* and load_control_changes seeds every record they can concern: an affected
\* evaluation never misses a steward's change.
THEOREM SeedsCover == Spec => []ChangesSeeded
<1>1. Init => BasisInv
  BY DEF Init, BasisInv, UnchangedSince, Says, CurrentOn
<1>2. TypeOK /\ BasisInv /\ [Next]_vars => BasisInv'
  BY BasisStep
<1>3. TypeOK /\ EpochsExact /\ BasisInv => ChangesSeeded
  BY ChangesFollow
<1> QED BY <1>1, <1>2, <1>3, TypeCorrect, EpochLedger, PTL DEF Spec

-----------------------------------------------------------------------------
(* The decisions never contradict each other.                              *)

\* A component contains its record, is the same for both ends of an edge, and
\* two that meet are linked: the complement of a closed set is closed.
LEMMA ComponentFacts ==
  ASSUME NEW edges \in SUBSET Pairs
  PROVE  /\ \A r \in Records : r \in Component(edges, r)
         /\ \A e \in edges : Component(edges, e[1]) = Component(edges, e[2])
         /\ \A r, s, x \in Records :
              x \in Component(edges, r) /\ x \in Component(edges, s) =>
                s \in Component(edges, r)
<1>1. \A r \in Records : r \in Component(edges, r)
  BY DEF Component
<1>2. \A e \in edges : Component(edges, e[1]) = Component(edges, e[2])
  BY DEF Component, ClosedUnder
<1>3. ASSUME NEW r \in Records, NEW s \in Records, NEW x \in Records,
             x \in Component(edges, r), x \in Component(edges, s)
      PROVE  s \in Component(edges, r)
  <2> SUFFICES ASSUME NEW S \in SUBSET Records, r \in S, ClosedUnder(edges, S),
                      s \notin S
               PROVE  FALSE
    BY DEF Component
  <2>1. x \in S
    BY <1>3 DEF Component
  <2>2. ClosedUnder(edges, Records \ S)
    BY DEF ClosedUnder, Pairs
  <2>3. x \in Records \ S
    BY <1>3, <2>2 DEF Component
  <2> QED BY <2>1, <2>3
<1> QED BY <1>1, <1>2, <1>3

Satisfied(comp, matches, cannots) ==
  /\ \A e \in matches : comp[e[1]] = comp[e[2]]
  /\ \A e \in cannots : comp[e[1]] # comp[e[2]]

LEMMA SatisfiableWithoutContradiction ==
  ASSUME NEW matches \in SUBSET Pairs, NEW cannots \in SUBSET Pairs,
         ~Contradiction(matches, cannots)
  PROVE  \E comp \in [Records -> Records] : Satisfied(comp, matches, cannots)
<1> DEFINE label(r) == CHOOSE x : x \in Component(matches, r)
           comp == [r \in Records |-> label(r)]
<1>1. \A r \in Records : label(r) \in Component(matches, r)
  BY ComponentFacts
<1>2. \A r \in Records : label(r) \in Records
  BY <1>1 DEF Component
<1>3. comp \in [Records -> Records]
  BY <1>2
<1>4. ASSUME NEW e \in matches PROVE comp[e[1]] = comp[e[2]]
  <2>1. e[1] \in Records /\ e[2] \in Records
    BY DEF Pairs
  <2>2. Component(matches, e[1]) = Component(matches, e[2])
    BY ComponentFacts
  <2>3. label(e[1]) = label(e[2])
    BY <2>2, Zenon
  <2> HIDE DEF label
  <2> QED BY <2>1, <2>3
<1>5. ASSUME NEW e \in cannots PROVE comp[e[1]] # comp[e[2]]
  <2>1. e[1] \in Records /\ e[2] \in Records
    BY DEF Pairs
  <2>2. e[2] \notin Component(matches, e[1])
    BY DEF Contradiction
  <2>3. label(e[1]) # label(e[2])
    <3> SUFFICES ASSUME label(e[1]) = label(e[2]) PROVE FALSE
      OBVIOUS
    <3>1. /\ label(e[1]) \in Component(matches, e[1])
          /\ label(e[1]) \in Component(matches, e[2])
          /\ label(e[1]) \in Records
      BY <1>1, <1>2, <2>1
    <3> HIDE DEF label
    <3> QED BY <2>1, <2>2, <3>1, ComponentFacts
  <2> QED BY <2>1, <2>3
<1> HIDE DEF comp
<1> QED BY <1>3, <1>4, <1>5 DEF Satisfied

Consistent == ~Contradiction(Edges(Current(decisions), "MATCH"),
                             Edges(Current(decisions), "NOT_MATCH"))

\* After a decision the current edges are those that were validated.
LEMMA DecidedEdges ==
  ASSUME TypeOK, NEW p \in Pairs, NEW kind \in Kinds
  PROVE  /\ Edges(Current(Written(decisions, p, kind)), "MATCH") = Proposed(p, kind).matches
         /\ Edges(Current(Written(decisions, p, kind)), "NOT_MATCH") = Proposed(p, kind).cannots
<1> DEFINE others == {row \in Current(decisions) : row.on # p}
           new == NewRow(decisions, p, kind)
<1>1. Current(Written(decisions, p, kind)) = others \cup {new}
  <2>1. \A row \in decisions : /\ row.current \in BOOLEAN
                               /\ [row EXCEPT !.current = FALSE].current = FALSE
    BY DEF TypeOK, DecisionRows
  <2>2. new.current = TRUE
    BY DEF NewRow
  <2>3. ASSUME NEW row \in Retired(decisions, p), row.current PROVE row \in others
    <3>1. PICK old \in decisions : row = IF old.current /\ old.on = p
                                     THEN [old EXCEPT !.current = FALSE] ELSE old
      BY RetiredRows
    <3>2. ~(old.current /\ old.on = p)
      BY <2>1, <2>3, <3>1
    <3> QED BY <2>3, <3>1, <3>2 DEF Current
  <2>4. ASSUME NEW row \in others PROVE row \in Retired(decisions, p)
    <3>1. row \in decisions
          /\ row = IF row.current /\ row.on = p
                     THEN [row EXCEPT !.current = FALSE] ELSE row
      BY <2>4 DEF Current
    <3> QED BY <3>1, Zenon DEF Retired
  <2>5. \A row \in others : row.current
    BY DEF Current
  <2> HIDE DEF others, new
  <2>6. Written(decisions, p, kind) = Retired(decisions, p) \cup {new}
    BY DEF Written, new
  <2> QED BY <2>2, <2>3, <2>4, <2>5, <2>6 DEF Current
<1>2. new.on = p /\ new.says = kind
  BY DEF NewRow
<1> HIDE DEF new
<1>3. \A k : Edges(others \cup {new}, k) = Edges(others, k) \cup {q \in {p} : kind = k}
  BY <1>2 DEF Edges
<1>4. /\ Proposed(p, kind).matches = Edges(others, "MATCH") \cup {q \in {p} : kind = "MATCH"}
      /\ Proposed(p, kind).cannots = Edges(others, "NOT_MATCH") \cup {q \in {p} : kind = "NOT_MATCH"}
  BY DEF Proposed
<1> HIDE DEF others
<1> QED BY <1>1, <1>3, <1>4

LEMMA ConsistentStep == TypeOK /\ Consistent /\ [Next]_vars => Consistent'
<1> SUFFICES ASSUME TypeOK, Consistent, [Next]_vars PROVE Consistent'
  OBVIOUS
<1>1. ASSUME NEW c \in Clients, NEW r \in Records, NEW s \in Records,
             NEW kind \in Kinds, Decide(c, r, s, kind)
      PROVE  Consistent'
  <2>1. PairOf(r, s) \in Pairs
    BY <1>1, PairOfType DEF Decide
  <2>2. ~Contradiction(Proposed(PairOf(r, s), kind).matches,
                       Proposed(PairOf(r, s), kind).cannots)
    BY <1>1 DEF Decide, Valid
  <2>3. decisions' = Written(decisions, PairOf(r, s), kind)
    BY <1>1 DEF Decide
  <2>4. ~Contradiction(Edges(Current(decisions'), "MATCH"),
                       Edges(Current(decisions'), "NOT_MATCH"))
    BY <2>1, <2>2, <2>3, DecidedEdges
  <2> QED BY <2>4 DEF Consistent, Contradiction
<1>2. ASSUME UNCHANGED decisions PROVE Consistent'
  BY <1>2 DEF Consistent, Contradiction
<1> QED BY <1>1, <1>2 DEF Next, Read, Override, Publish, Replace, vars

LEMMA ConsistentSatisfiable == TypeOK /\ Consistent => AlwaysSatisfiable
<1> SUFFICES ASSUME TypeOK, Consistent, NEW A \in SUBSET Records
             PROVE  \E comp \in [Records -> Records] :
                      /\ \A e \in Among(A, Edges(Current(decisions), "MATCH")) :
                           comp[e[1]] = comp[e[2]]
                      /\ \A e \in Among(A, Edges(Current(decisions), "NOT_MATCH")) :
                           comp[e[1]] # comp[e[2]]
  BY DEF AlwaysSatisfiable
<1>1. \A k : Edges(Current(decisions), k) \in SUBSET Pairs
  BY DEF Edges, Current, TypeOK, DecisionRows
<1>2. PICK comp \in [Records -> Records] :
        Satisfied(comp, Edges(Current(decisions), "MATCH"),
                  Edges(Current(decisions), "NOT_MATCH"))
  BY <1>1, SatisfiableWithoutContradiction DEF Consistent
<1>3. \A k : Among(A, Edges(Current(decisions), k)) \subseteq Edges(Current(decisions), k)
  BY DEF Among
<1> QED BY <1>2, <1>3 DEF Satisfied

\* Decisions accepted one by one, whatever records were active at the time,
\* can always be met together, for every set of active records: a refresh
\* never fails for a contradiction among accepted decisions.
THEOREM NeverContradictory == Spec => []AlwaysSatisfiable
<1>1. Init => Consistent
  BY DEF Init, Consistent, Contradiction, Edges, Current
<1>2. TypeOK /\ Consistent /\ [Next]_vars => Consistent'
  BY ConsistentStep
<1>3. TypeOK /\ Consistent => AlwaysSatisfiable
  BY ConsistentSatisfiable
<1> QED BY <1>1, <1>2, <1>3, TypeCorrect, PTL DEF Spec

-----------------------------------------------------------------------------
(* What stewards have seen.                                                *)

\* What was seen of a table is not newer than its current row, and is that row
\* if it has its version.
SeenOf(s, table, rows) ==
  s.table = table =>
    /\ s.version <= VersionOn(rows, s.on)
    /\ s.version = VersionOn(rows, s.on) => s.epoch = Superseded(rows, s.on)

SeenIn(view, ds, os) ==
  \A c \in Clients : SeenOf(view[c], "decisions", ds) /\ SeenOf(view[c], "directives", os)

SeenInv == SeenIn(seen, decisions, directives)

\* A write leaves the target one current row, with the next version.
LEMMA WrittenCurrent ==
  ASSUME NEW rows, NEW target, NEW what,
         \A row \in rows : /\ [row EXCEPT !.current = FALSE].on = row.on
                          /\ [row EXCEPT !.current = FALSE].current = FALSE
  PROVE  LET new == NewRow(rows, target, what)
         IN  /\ \A row \in Written(rows, target, what) \ rows : row.current => row = new
             /\ VersionOn(Written(rows, target, what), target) = VersionOn(rows, target) + 1
             /\ \A other : other # target =>
                  /\ VersionOn(Written(rows, target, what), other) = VersionOn(rows, other)
                  /\ Superseded(Written(rows, target, what), other) = Superseded(rows, other)
<1> DEFINE new == NewRow(rows, target, what)
           after == Written(rows, target, what)
<1>1. /\ new \in after /\ new.on = target /\ new.current
      /\ new.version = VersionOn(rows, target) + 1
  BY DEF NewRow, Written
<1>2. ASSUME NEW row \in Retired(rows, target), row.current
      PROVE  row \in rows /\ row.on # target
  <2>1. PICK old \in rows : row = IF old.current /\ old.on = target
                                    THEN [old EXCEPT !.current = FALSE] ELSE old
    BY RetiredRows
  <2>2. ~(old.current /\ old.on = target)
    BY <1>2, <2>1
  <2>3. row = old
    BY <2>1, <2>2
  <2> QED BY <1>2, <2>2, <2>3
<1>3. after = Retired(rows, target) \cup {new}
  BY DEF Written
<1>4. CurrentOn(after, target) = {new}
  <2> HIDE DEF new, after
  <2> QED BY <1>1, <1>2, <1>3 DEF CurrentOn
<1>5. \A other : other # target => CurrentOn(after, other) = CurrentOn(rows, other)
  BY WriteTarget
<1>6. \A row \in after \ rows : row.current => row = new
  <2> HIDE DEF new, after
  <2> QED BY <1>2, <1>3
<1>7. VersionOn(after, target) = new.version
  <2> HIDE DEF new, after
  <2> QED BY <1>4 DEF VersionOn
<1>8. \A other : other # target =>
        /\ VersionOn(after, other) = VersionOn(rows, other)
        /\ Superseded(after, other) = Superseded(rows, other)
  <2> SUFFICES ASSUME NEW other, other # target
               PROVE  /\ VersionOn(after, other) = VersionOn(rows, other)
                      /\ Superseded(after, other) = Superseded(rows, other)
    OBVIOUS
  <2>1. CurrentOn(after, other) = CurrentOn(rows, other)
    BY <1>5
  <2> HIDE DEF after
  <2> QED BY <2>1 DEF VersionOn, Superseded
<1> QED BY <1>1, <1>6, <1>7, <1>8

\* A write makes what was seen of its target outdated.
LEMMA WriteOutdates ==
  ASSUME NEW rows, NEW target, NEW what, NEW s, NEW table,
         \A row \in rows : /\ [row EXCEPT !.current = FALSE].on = row.on
                          /\ [row EXCEPT !.current = FALSE].current = FALSE,
         VersionOn(rows, target) \in Nat, s.version \in Nat, SeenOf(s, table, rows)
  PROVE  SeenOf(s, table, Written(rows, target, what))
<1>1. CASE s.on = target
  <2>1. VersionOn(Written(rows, target, what), target) = VersionOn(rows, target) + 1
    BY WrittenCurrent
  <2> QED BY <1>1, <2>1 DEF SeenOf
<1>2. CASE s.on # target
  <2>1. /\ VersionOn(Written(rows, target, what), s.on) = VersionOn(rows, s.on)
        /\ Superseded(Written(rows, target, what), s.on) = Superseded(rows, s.on)
    BY <1>2, WrittenCurrent
  <2> QED BY <2>1 DEF SeenOf
<1> QED BY <1>1, <1>2

LEMMA RowFacts ==
  ASSUME TypeOK
  PROVE  /\ \A row \in decisions : /\ [row EXCEPT !.current = FALSE].on = row.on
                                   /\ [row EXCEPT !.current = FALSE].current = FALSE
         /\ \A row \in directives : /\ [row EXCEPT !.current = FALSE].on = row.on
                                    /\ [row EXCEPT !.current = FALSE].current = FALSE
         /\ \A t : VersionOn(decisions, t) \in Nat /\ VersionOn(directives, t) \in Nat
         /\ \A c \in Clients : seen[c].version \in Nat
<1>1. \A t : VersionOn(decisions, t) \in Nat /\ VersionOn(directives, t) \in Nat
  BY DecisionVersions, DirectiveVersions DEF TypeOK
<1>2. \A s \in Seen : s.version \in Nat
  BY DEF Seen, Unread
<1> QED BY <1>1, <1>2 DEF TypeOK, DecisionRows, DirectiveRows

LEMMA ReadSees ==
  ASSUME TypeOK, SeenInv, NEW c \in Clients, NEW table \in Tables, NEW target,
         LET rows == IF table = "decisions" THEN decisions ELSE directives
         IN  Read(c, table, rows, target)
  PROVE  SeenInv'
<1> DEFINE rows == IF table = "decisions" THEN decisions ELSE directives
           s == [table |-> table, on |-> target, version |-> VersionOn(rows, target),
                 epoch |-> Superseded(rows, target)]
<1>1. seen' = [seen EXCEPT ![c] = s] /\ decisions' = decisions /\ directives' = directives
  BY DEF Read
<1>2. /\ s.table = table /\ s.on = target
      /\ s.version = VersionOn(rows, target) /\ s.epoch = Superseded(rows, target)
  OBVIOUS
<1>3. VersionOn(rows, target) \in Nat
  BY RowFacts
<1> HIDE DEF s
<1>4. SeenOf(s, "decisions", decisions) /\ SeenOf(s, "directives", directives)
  BY <1>2, <1>3 DEF SeenOf, Tables
<1>5. seen \in [Clients -> Seen]
  BY DEF TypeOK
<1>6. \A d \in Clients : seen'[d] = IF d = c THEN s ELSE seen[d]
  BY <1>1, <1>5
<1>7. SeenIn(seen', decisions, directives)
  BY <1>4, <1>6 DEF SeenInv, SeenIn
<1> QED BY <1>1, <1>7 DEF SeenInv

LEMMA SeenStep == TypeOK /\ SeenInv /\ [Next]_vars => SeenInv'
<1> SUFFICES ASSUME TypeOK, SeenInv, [Next]_vars PROVE SeenInv'
  OBVIOUS
<1>1. ASSUME NEW c \in Clients, NEW p \in Pairs, Read(c, "decisions", decisions, p)
      PROVE  SeenInv'
  BY <1>1, ReadSees DEF Tables
<1>2. ASSUME NEW c \in Clients, NEW t \in Targets, Read(c, "directives", directives, t)
      PROVE  SeenInv'
  BY <1>2, ReadSees DEF Tables
<1>3. ASSUME NEW c \in Clients, NEW r \in Records, NEW s \in Records,
             NEW kind \in Kinds, Decide(c, r, s, kind)
      PROVE  SeenInv'
  <2>1. SeenIn(seen, Written(decisions, PairOf(r, s), kind), directives)
    BY RowFacts, WriteOutdates DEF SeenInv, SeenIn
  <2> QED BY <1>3, <2>1 DEF Decide, SeenInv
<1>4. ASSUME NEW c \in Clients, NEW f \in Fields, NEW a \in Anchors,
             NEW x \in Actions, Override(c, f, a, x)
      PROVE  SeenInv'
  <2>1. SeenIn(seen, decisions, Written(directives, <<f, a>>, x))
    BY RowFacts, WriteOutdates DEF SeenInv, SeenIn
  <2> QED BY <1>4, <2>1 DEF Override, SeenInv
<1>5. ASSUME UNCHANGED <<seen, decisions, directives>> PROVE SeenInv'
  BY <1>5 DEF SeenInv
<1> QED BY <1>1, <1>2, <1>3, <1>4, <1>5 DEF Next, Publish, Replace, vars

\* Of a step: a row it writes supersedes what some steward had seen.
Informed ==
  \A row \in (decisions' \cup directives') \ (decisions \cup directives) :
    row.current =>
      \E c \in Clients : /\ seen[c].table # "none"
                         /\ seen[c].on = row.on
                         /\ seen[c].epoch = row.supersedes

LEMMA InformedWrite ==
  ASSUME TypeOK, SeenInv, NEW c \in Clients, NEW table \in Tables, NEW target, NEW what,
         NEW rows, rows = IF table = "decisions" THEN decisions ELSE directives,
         Expects(c, table, rows, target),
         NEW row \in Written(rows, target, what) \ rows, row.current
  PROVE  /\ seen[c].table # "none"
         /\ seen[c].on = row.on
         /\ seen[c].epoch = row.supersedes
<1>1. row = NewRow(rows, target, what)
  BY RowFacts, WrittenCurrent
<1>2. row.on = target /\ row.supersedes = Superseded(rows, target)
  BY <1>1 DEF NewRow
<1>3. seen[c].table = table /\ seen[c].on = target /\ seen[c].version = VersionOn(rows, target)
  BY DEF Expects
<1>4. SeenOf(seen[c], table, rows)
  BY DEF SeenInv, SeenIn, Tables
<1> QED BY <1>2, <1>3, <1>4 DEF SeenOf, Tables

LEMMA InformedStep == TypeOK /\ SeenInv /\ [Next]_vars => [Informed]_vars
<1> SUFFICES ASSUME TypeOK, SeenInv, Next PROVE Informed
  OBVIOUS
<1>1. ASSUME NEW c \in Clients, NEW r \in Records, NEW s \in Records,
             NEW kind \in Kinds, Decide(c, r, s, kind)
      PROVE  Informed
  <2>1. /\ decisions' = Written(decisions, PairOf(r, s), kind) /\ directives' = directives
        /\ Expects(c, "decisions", decisions, PairOf(r, s))
    BY <1>1 DEF Decide
  <2> QED BY <2>1, InformedWrite DEF Informed, Tables
<1>2. ASSUME NEW c \in Clients, NEW f \in Fields, NEW a \in Anchors,
             NEW x \in Actions, Override(c, f, a, x)
      PROVE  Informed
  <2>1. /\ directives' = Written(directives, <<f, a>>, x) /\ decisions' = decisions
        /\ Expects(c, "directives", directives, <<f, a>>)
    BY <1>2 DEF Override
  <2> QED BY <2>1, InformedWrite DEF Informed, Tables
<1>3. ASSUME UNCHANGED <<decisions, directives>> PROVE Informed
  BY <1>3 DEF Informed
<1> QED BY <1>1, <1>2, <1>3 DEF Next, Read, Publish, Replace

\* No write replaces a row that its steward had not seen as current, nor
\* writes the first row of a target that another wrote meanwhile, although
\* only versions are compared: the version of a target only grows.
THEOREM NothingLostUnseen == Spec => NoLostUpdate
<1>1. Init => SeenInv
  BY DEF Init, SeenInv, SeenIn, SeenOf, Unread
<1>2. TypeOK /\ SeenInv /\ [Next]_vars => SeenInv'
  BY SeenStep
<1>3. TypeOK /\ SeenInv /\ [Next]_vars => [Informed]_vars
  BY InformedStep
<1> QED BY <1>1, <1>2, <1>3, TypeCorrect, PTL DEF Spec, NoLostUpdate, Informed
=============================================================================
