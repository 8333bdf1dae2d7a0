------------------------ MODULE PolicyIntent_proofs ------------------------
(***************************************************************************)
(* Proofs about PolicyIntent for every set of clients, keys, bindings and  *)
(* requests, any number of restarts and revisions: the types, that an      *)
(* intent takes effect only under live authority and once, that no change  *)
(* of the case is lost, and that what a client was told stays true.        *)
(*                                                                         *)
(* The argument is that of the two row locks: what a call read under a     *)
(* lock is what is there when it commits.                                  *)
(***************************************************************************)
EXTENDS PolicyIntent, WellFoundedInduction, TLAPS

\* Request bodies, without a bound on what they name of the case.
AnyBody ==
  [binding : Bindings, key : Keys, action : AllowedActions \cup {q.action : q \in Requests},
   arg : {q.arg : q \in Requests}, plain : BOOLEAN, policy : {Policy[b] : b \in Bindings},
   basis : Nat, rev : Nat]

CaseRows ==
  [status : {"unread", "open", "resolved"}, pending : BOOLEAN, queue : Nat, due : Nat,
   level : Nat, protected : BOOLEAN, opened : Nat, basis : Nat, rev : Nat]
BindingRows ==
  [status : {"absent", "current", "replaced"}, version : Nat,
   state : {"active", "paused"}, epoch : Nat]
CallRows ==
  [pc : {"waiting", "bound", "deciding"}, body : AnyBody, at : Nat, bound : BindingRows,
   row : CaseRows]
ReceiptRows == [body : AnyBody, outcome : Outcomes, rev : Nat]

\* The case and the server are as TypeOK says.
RowsOk ==
  /\ case \in CaseRows /\ case.status # "unread"
  /\ case.rev # 0 /\ case.basis # 0 /\ case.opened <= now
  /\ now \in Nat \ {0} /\ epoch \in Nat \ {0}

\* A binding that is absent has no server; none has a server yet to start.
BindingsOk ==
  /\ binding \in [Bindings -> BindingRows]
  /\ \A b \in Bindings :
       /\ binding[b].version <= MaxVersion /\ binding[b].epoch <= epoch
       /\ binding[b].status = "absent" => binding[b].epoch = 0

\* Requests name a state of the case that was there.
SentOk ==
  sent \subseteq AnyBody /\ \A body \in sent : body.basis \in 1 .. case.basis
                                               /\ body.rev \in 1 .. case.rev

CallsOk ==
  /\ call = [s \in Calling |-> call[s]] /\ Calling \subseteq Sessions
  /\ \A s \in Calling : call[s] \in CallRows /\ call[s].body \in sent /\ call[s].at \in 1 .. now

\* The lock of a binding: who has it holds what is there, was activated on this
\* server, and found no receipt under its key.
BindingLock ==
  /\ \A s \in Calling :
       call[s].pc # "waiting" =>
         /\ call[s].bound = binding[call[s].body.binding] /\ call[s].bound.epoch = epoch
         /\ Slot(call[s].body) = {}
  /\ \A s, t \in Calling :
       call[s].pc # "waiting" /\ call[t].pc # "waiting"
         /\ call[s].body.binding = call[t].body.binding => s = t

\* The lock of the case: who has it holds the case as it is.
CaseLock ==
  /\ \A s \in Calling : call[s].pc = "deciding" => call[s].row = case
  /\ \A s, t \in Calling : call[s].pc = "deciding" /\ call[t].pc = "deciding" => s = t

ReceiptsOk ==
  \A r \in receipts : r \in ReceiptRows /\ r.body \in sent /\ r.rev \in 1 .. case.rev

AnswersOk ==
  \A a \in answers :
    a.body \in sent /\ a.outcome \in Outcomes \cup {"IDEMPOTENCY_CONFLICT", "ERROR"}

\* The inductive invariant.
IInv ==
  /\ RowsOk /\ BindingsOk /\ SentOk /\ CallsOk
  /\ BindingLock /\ CaseLock
  /\ ReceiptsOk /\ AnswersOk
  /\ OneEffectPerRevision /\ EscalateOnce /\ AnswersTrue

-----------------------------------------------------------------------------
(* What a call decides.                                                    *)

\* A list of checks that refuses nothing holds none of them.
LEMMA NoneRefused ==
  ASSUME NEW checks, FirstOf(checks) = {}
  PROVE  \A i \in DOMAIN checks : ~checks[i][1]
  BY DEF FirstOf

\* Among some checks of a list there is a first.
LEMMA FirstOne ==
  ASSUME NEW n \in Nat, NEW held \in SUBSET (1 .. n), held # {}
  PROVE  \E i \in held : \A j \in held : i <= j
<1> DEFINE less == OpToRel(<, Nat)
<1>1. IsWellFoundedOn(less, Nat)
  BY NatLessThanWellFounded
<1>2. \A i, j \in Nat : <<j, i>> \in less <=> j < i
  BY DEF OpToRel
<1>3. held \subseteq Nat
  OBVIOUS
<1> HIDE DEF less
<1>4. \E i \in held : \A j \in held : ~(<<j, i>> \in less)
  BY <1>1, <1>3, WFMin
<1>5. PICK i \in held : \A j \in held : ~(<<j, i>> \in less)
  BY <1>4
<1>6. \A j \in held : j \in Nat /\ i \in Nat /\ ~(j < i)
  BY <1>2, <1>3, <1>5
<1>7. \A j \in held : i <= j
  BY <1>6
<1> QED BY <1>7

\* What a list of checks refuses with is the outcome of one that holds.
LEMMA RefusedWith ==
  ASSUME NEW checks, \E n \in Nat : DOMAIN checks = 1 .. n
  PROVE  \A o \in FirstOf(checks) :
           \E i \in DOMAIN checks : checks[i][1] /\ o = checks[i][2]
<1> PICK n \in Nat : DOMAIN checks = 1 .. n
  OBVIOUS
<1> DEFINE held == {i \in DOMAIN checks : checks[i][1]}
<1>1. CASE held = {}
  BY <1>1 DEF FirstOf
<1>2. CASE held # {}
  <2>1. held \in SUBSET (1 .. n)
    OBVIOUS
  <2>2. \E i \in held : \A j \in held : i <= j
    <3> HIDE DEF held
    <3> QED BY <1>2, <2>1, FirstOne
  <2>3. (CHOOSE i \in held : \A j \in held : i <= j) \in held
    BY <2>2
  <2> QED BY <1>2, <2>3 DEF FirstOf
<1> QED BY <1>1, <1>2

LEMMA FreshWith ==
  ASSUME NEW body, NEW bound, NEW row
  PROVE  /\ FirstOf(FreshnessChecks(body, bound, row)) \subseteq Outcomes \ {"APPLIED_CONTROL"}
         /\ FirstOf(FreshnessChecks(body, bound, row)) = {} =>
              /\ bound.status # "replaced" /\ bound.version # 0 /\ bound.state # "paused"
              /\ row.basis = body.basis /\ row.rev = body.rev
              /\ row.status = "open" /\ body.action \in PermittedActions(row)
<1> DEFINE checks == FreshnessChecks(body, bound, row)
<1>1. DOMAIN checks = 1 .. 7
  BY DEF FreshnessChecks
<1>2. \A i \in 1 .. 7 : checks[i][2] \in Outcomes \ {"APPLIED_CONTROL"}
  BY DEF FreshnessChecks, Outcomes
<1>3. FirstOf(checks) \subseteq Outcomes \ {"APPLIED_CONTROL"}
  <2> HIDE DEF checks
  <2>1. \A o \in FirstOf(checks) : \E i \in DOMAIN checks : o = checks[i][2]
    BY <1>1, RefusedWith
  <2> QED BY <1>1, <1>2, <2>1
<1>4. ASSUME FirstOf(checks) = {}
      PROVE  /\ bound.status # "replaced" /\ bound.version # 0 /\ bound.state # "paused"
             /\ row.basis = body.basis /\ row.rev = body.rev
             /\ row.status = "open" /\ body.action \in PermittedActions(row)
  <2>1. \A i \in 1 .. 7 : ~checks[i][1]
    <3> HIDE DEF checks
    <3> QED BY <1>1, <1>4, NoneRefused
  <2>2. ~checks[1][1] /\ ~checks[2][1] /\ ~checks[5][1] /\ ~checks[6][1] /\ ~checks[7][1]
    <3> HIDE DEF checks
    <3> QED BY <2>1
  <2> QED BY <2>2 DEF FreshnessChecks, Stale
<1> QED BY <1>3, <1>4

LEMMA AllowedWith ==
  ASSUME NEW body, NEW row, NEW at, body.action \in PermittedActions(row)
  PROVE  /\ FirstOf(ActionChecks(body, row, at)) \subseteq Outcomes \ {"APPLIED_CONTROL"}
         /\ FirstOf(ActionChecks(body, row, at)) = {} =>
              /\ body.action = "ASSIGN_QUEUE" => ~row.protected
              /\ body.action = "ESCALATE" =>
                   row.due # 0 /\ ~(row.due > at) /\ ~Escalated(body)
<1> DEFINE checks == ActionChecks(body, row, at)
<1>1. CASE body.action = "ASSIGN_QUEUE"
  <2>1. checks = << <<body.arg \notin AllowedQueues, "ACTION_DENIED">>,
                    <<row.protected, "MANUAL_PROTECTION">> >>
    BY <1>1 DEF ActionChecks
  <2>2. /\ DOMAIN checks = 1 .. 2 /\ checks[2][1] = row.protected
        /\ \A i \in 1 .. 2 : checks[i][2] \in Outcomes \ {"APPLIED_CONTROL"}
    BY <2>1 DEF Outcomes
  <2> HIDE DEF checks
  <2>3. \A o \in FirstOf(checks) : \E i \in DOMAIN checks : o = checks[i][2]
    BY <2>2, RefusedWith
  <2>4. FirstOf(checks) = {} => ~checks[2][1]
    BY <2>2, NoneRefused
  <2> QED BY <1>1, <2>2, <2>3, <2>4 DEF checks
<1>2. CASE body.action = "SET_DUE_AT"
  <2>1. checks = << <<row.opened = 0, "OPENED_AT_UNKNOWN">>,
                    <<body.arg \notin row.opened .. (row.opened + MaxDueInterval),
                      "LIMIT_EXCEEDED">> >>
    BY <1>2 DEF ActionChecks
  <2>2. ~(row.opened = 0)
    BY <1>2 DEF PermittedActions
  <2>3. /\ DOMAIN checks = 1 .. 2 /\ checks[1][1] = (row.opened = 0)
        /\ checks[2][2] \in Outcomes \ {"APPLIED_CONTROL"}
    BY <2>1 DEF Outcomes
  <2> HIDE DEF checks
  <2>4. \A o \in FirstOf(checks) : \E i \in DOMAIN checks : checks[i][1] /\ o = checks[i][2]
    BY <2>3, RefusedWith
  <2>5. \A i \in DOMAIN checks : checks[i][1] => i = 2
    <3>1. ~checks[1][1]
      BY <2>2, <2>3
    <3>2. \A i \in 1 .. 2 : i = 1 \/ i = 2
      OBVIOUS
    <3> QED BY <2>3, <3>1, <3>2
  <2>6. \A o \in FirstOf(checks) : o = checks[2][2]
    BY <2>4, <2>5
  <2> QED BY <1>2, <2>3, <2>6 DEF checks
<1>3. CASE body.action \notin {"ASSIGN_QUEUE", "SET_DUE_AT"}
  <2>1. checks = << <<row.due = 0 \/ row.due > at, "ACTION_DENIED">>,
                    <<body.arg # row.level + 1, "STALE_CASE">>,
                    <<body.arg > MaxEscalationLevel, "LIMIT_EXCEEDED">>,
                    <<Escalated(body), "ACTION_DENIED">> >>
    BY <1>3 DEF ActionChecks
  <2>2. /\ DOMAIN checks = 1 .. 4 /\ checks[1][1] = (row.due = 0 \/ row.due > at)
        /\ checks[4][1] = Escalated(body)
        /\ \A i \in 1 .. 4 : checks[i][2] \in Outcomes \ {"APPLIED_CONTROL"}
    BY <2>1 DEF Outcomes
  <2> HIDE DEF checks
  <2>3. \A o \in FirstOf(checks) : \E i \in DOMAIN checks : o = checks[i][2]
    BY <2>2, RefusedWith
  <2>4. FirstOf(checks) = {} => ~checks[1][1] /\ ~checks[4][1]
    BY <2>2, NoneRefused
  <2> QED BY <1>3, <2>2, <2>3, <2>4 DEF checks
<1> QED BY <1>1, <1>2, <1>3

-----------------------------------------------------------------------------
(* What a call that holds both locks does.                                 *)

\* A call that is deciding.
LEMMA DecidingCall ==
  ASSUME IInv, NEW s \in Calling, call[s].pc = "deciding"
  PROVE  /\ s \in Sessions /\ call[s] \in CallRows /\ call[s].body \in AnyBody /\ call[s].body \in sent
         /\ call[s].at \in 1 .. now /\ call[s].row = case
         /\ call[s].bound = binding[call[s].body.binding] /\ call[s].bound.epoch = epoch
         /\ call[s].body.binding \in Bindings /\ Slot(call[s].body) = {}
<1>1. call[s] \in CallRows /\ call[s].body \in sent /\ call[s].at \in 1 .. now /\ s \in Sessions
  BY DEF IInv, CallsOk
<1>2. call[s].body \in AnyBody /\ call[s].body.binding \in Bindings
  BY <1>1 DEF CallRows, AnyBody
<1> QED BY <1>1, <1>2 DEF IInv, CaseLock, BindingLock

LEMMA ControlledRow ==
  ASSUME NEW row \in CaseRows, NEW body \in AnyBody, body.action \in PermittedActions(row)
  PROVE  /\ Controlled(body, row) \in CaseRows
         /\ Controlled(body, row).rev = row.rev
         /\ Controlled(body, row).status = row.status /\ Controlled(body, row).opened = row.opened
         /\ Controlled(body, row).basis = row.basis /\ Controlled(body, row).pending = row.pending
         /\ Controlled(body, row).protected = row.protected
         /\ body.action # "ASSIGN_QUEUE" => Controlled(body, row).queue = row.queue
         /\ body.action # "ESCALATE" => Controlled(body, row).level = row.level
<1>1. body.arg \in Nat
  BY InstanceAssumption DEF AnyBody
<1>2. CASE body.action = "ASSIGN_QUEUE"
  <2>1. Controlled(body, row) = [row EXCEPT !.queue = body.arg]
    BY <1>2 DEF Controlled
  <2> QED BY <1>1, <1>2, <2>1 DEF CaseRows
<1>3. CASE body.action = "SET_DUE_AT"
  <2>1. Controlled(body, row) = [row EXCEPT !.due = body.arg]
    BY <1>3 DEF Controlled
  <2> QED BY <1>1, <1>3, <2>1 DEF CaseRows
<1>4. CASE body.action = "ESCALATE"
  <2>1. Controlled(body, row) = [row EXCEPT !.level = body.arg]
    BY <1>4 DEF Controlled
  <2> QED BY <1>1, <1>4, <2>1 DEF CaseRows
<1> QED BY <1>2, <1>3, <1>4 DEF PermittedActions

\* What a decision is from the rows it read.
LEMMA DecisionIs ==
  ASSUME NEW c, c.row \in CaseRows, c.body \in AnyBody
  PROVE  /\ Decision(c).outcome \in Outcomes
         /\ Decision(c).outcome # "APPLIED_CONTROL" => Decision(c).case = c.row
         /\ Decision(c).outcome = "APPLIED_CONTROL" =>
              /\ Decision(c).case = [Controlled(c.body, c.row) EXCEPT !.rev = @ + 1]
              /\ Controlled(c.body, c.row) # c.row \/ Respelled(c.body)
              /\ c.bound.status # "replaced" /\ c.bound.version # 0 /\ c.bound.state # "paused"
              /\ c.row.rev = c.body.rev /\ c.body.action \in PermittedActions(c.row)
              /\ c.body.action = "ASSIGN_QUEUE" => ~c.row.protected
              /\ c.body.action = "ESCALATE" =>
                   c.row.due # 0 /\ ~(c.row.due > c.at) /\ ~Escalated(c.body)
<1> DEFINE fresh == FirstOf(FreshnessChecks(c.body, c.bound, c.row))
           allowed == FirstOf(ActionChecks(c.body, c.row, c.at))
           refusals == fresh \cup (IF fresh # {} THEN {} ELSE allowed)
           next == Controlled(c.body, c.row)
<1>1. Decision(c) = IF refusals # {}
                    THEN [outcome |-> CHOOSE o \in refusals : TRUE, case |-> c.row]
                    ELSE IF next = c.row /\ ~Respelled(c.body)
                    THEN [outcome |-> "NO_CHANGE", case |-> c.row]
                    ELSE [outcome |-> "APPLIED_CONTROL", case |-> [next EXCEPT !.rev = @ + 1]]
  BY DEF Decision
<1>2. /\ fresh \subseteq Outcomes \ {"APPLIED_CONTROL"}
      /\ fresh = {} =>
           /\ c.bound.status # "replaced" /\ c.bound.version # 0 /\ c.bound.state # "paused"
           /\ c.row.rev = c.body.rev /\ c.body.action \in PermittedActions(c.row)
  BY FreshWith
<1>3. fresh = {} =>
        /\ allowed \subseteq Outcomes \ {"APPLIED_CONTROL"}
        /\ allowed = {} =>
             /\ c.body.action = "ASSIGN_QUEUE" => ~c.row.protected
             /\ c.body.action = "ESCALATE" =>
                  c.row.due # 0 /\ ~(c.row.due > c.at) /\ ~Escalated(c.body)
  BY <1>2, AllowedWith
<1> HIDE DEF fresh, allowed, next
<1>4. refusals \subseteq Outcomes \ {"APPLIED_CONTROL"}
      /\ (refusals = {} <=> fresh = {} /\ allowed = {})
  BY <1>2, <1>3
<1>5. CASE refusals # {}
  <2>1. (CHOOSE o \in refusals : TRUE) \in refusals
    BY <1>5
  <2>2. Decision(c).outcome \in refusals /\ Decision(c).case = c.row
    BY <1>1, <1>5, <2>1
  <2> QED BY <1>4, <2>2
<1>6. CASE refusals = {} /\ next = c.row /\ ~Respelled(c.body)
  BY <1>1, <1>6 DEF Outcomes
<1>7. CASE refusals = {} /\ (next # c.row \/ Respelled(c.body))
  <2>1. Decision(c) = [outcome |-> "APPLIED_CONTROL", case |-> [next EXCEPT !.rev = @ + 1]]
    BY <1>1, <1>7
  <2>2. Decision(c).outcome = "APPLIED_CONTROL" /\ Decision(c).case = [next EXCEPT !.rev = @ + 1]
        /\ "APPLIED_CONTROL" \in Outcomes
    BY <2>1 DEF Outcomes
  <2> QED BY <1>2, <1>3, <1>4, <1>7, <2>2 DEF next
<1> QED BY <1>5, <1>6, <1>7

\* What the transaction of a call leaves.
LEMMA CommitLeaves ==
  ASSUME IInv, NEW s \in Sessions, Commit(s)
  PROVE  LET body == call[s].body
             outcome == Decision(call[s]).outcome
         IN  /\ s \in Calling /\ call' = [t \in Calling \ {s} |-> call[t]]
             /\ body \in AnyBody /\ body \in sent /\ body.binding \in Bindings
             /\ Slot(body) = {} /\ outcome \in Outcomes
             /\ receipts' = receipts \cup {[body |-> body, outcome |-> outcome, rev |-> case'.rev]}
             /\ answers' = answers \cup {[body |-> body, outcome |-> outcome]}
             /\ case' = Decision(call[s]).case
             /\ outcome # "APPLIED_CONTROL" => case' = case
             /\ outcome = "APPLIED_CONTROL" =>
                  LET b == binding[body.binding]
                  IN  /\ case' = [Controlled(body, case) EXCEPT !.rev = @ + 1]
                      /\ Controlled(body, case) # case \/ Respelled(body)
                      /\ body.action \in PermittedActions(case) /\ body.rev = case.rev
                      /\ b.status # "replaced" /\ b.version # 0 /\ b.state # "paused"
                      /\ b.epoch = epoch
                      /\ body.action = "ASSIGN_QUEUE" => ~case.protected
                      /\ body.action = "ESCALATE" =>
                           case.due # 0 /\ case.due <= now /\ ~Escalated(body)
<1> DEFINE c == call[s]
           body == c.body
           d == Decision(c)
           receipt == [body |-> body, outcome |-> d.outcome, rev |-> d.case.rev]
<1>1. s \in Calling /\ c.pc = "deciding" /\ Ended(s)
  BY DEF Commit
<1>2. /\ c \in CallRows /\ body \in AnyBody /\ body \in sent
      /\ c.at \in 1 .. now /\ c.row = case
      /\ c.bound = binding[body.binding] /\ c.bound.epoch = epoch
      /\ body.binding \in Bindings /\ Slot(body) = {}
  BY <1>1, DecidingCall
<1>3. case \in CaseRows /\ now \in Nat
  BY DEF IInv, RowsOk
<1>4. /\ d.outcome \in Outcomes
      /\ d.outcome # "APPLIED_CONTROL" => d.case = case
      /\ d.outcome = "APPLIED_CONTROL" =>
           /\ d.case = [Controlled(body, case) EXCEPT !.rev = @ + 1]
           /\ Controlled(body, case) # case \/ Respelled(body)
           /\ c.bound.status # "replaced" /\ c.bound.version # 0 /\ c.bound.state # "paused"
           /\ case.rev = body.rev /\ body.action \in PermittedActions(case)
           /\ body.action = "ASSIGN_QUEUE" => ~case.protected
           /\ body.action = "ESCALATE" =>
                case.due # 0 /\ ~(case.due > c.at) /\ ~Escalated(body)
  BY <1>2, <1>3, DecisionIs
<1>5. case' = IF d.outcome # "APPLIED_CONTROL" THEN case
              ELSE [case EXCEPT !.queue = d.case.queue, !.due = d.case.due,
                                !.level = d.case.level, !.rev = d.case.rev]
  BY DEF Commit
<1>6. receipts' = receipts \cup {receipt}
      /\ answers' = answers \cup {[body |-> body, outcome |-> d.outcome]}
  <2> HIDE DEF d
  <2>1. receipt.outcome = d.outcome
    OBVIOUS
  <2> QED BY <1>2, <2>1 DEF Commit, Told, d
<1>7. case' = d.case
  <2>1. CASE d.outcome # "APPLIED_CONTROL"
    BY <1>4, <1>5, <2>1
  <2>2. CASE d.outcome = "APPLIED_CONTROL"
    <3> DEFINE new == Controlled(body, case)
    <3>1. new \in CaseRows /\ d.case = [new EXCEPT !.rev = @ + 1] /\ new.rev = case.rev
          /\ new.status = case.status /\ new.opened = case.opened
          /\ new.basis = case.basis /\ new.pending = case.pending /\ new.protected = case.protected
      BY <1>2, <1>3, <1>4, <2>2, ControlledRow
    <3>2. case' = [case EXCEPT !.queue = d.case.queue, !.due = d.case.due,
                               !.level = d.case.level, !.rev = d.case.rev]
      BY <1>5, <2>2
    <3> HIDE DEF new, d
    <3>3. d.case \in CaseRows /\ d.case.rev = case.rev + 1 /\ d.case.status = case.status
          /\ d.case.opened = case.opened /\ d.case.basis = case.basis
          /\ d.case.pending = case.pending /\ d.case.protected = case.protected
      BY <1>3, <3>1 DEF CaseRows
    <3>4. case' \in CaseRows
      BY <1>3, <3>2, <3>3 DEF CaseRows
    <3> QED BY <1>3, <3>2, <3>3, <3>4 DEF CaseRows
  <2> QED BY <2>1, <2>2
<1>8. \A n \in Nat : ~(n > c.at) => n <= now
  BY <1>2, <1>3
<1>9. case.due \in Nat
  BY <1>3 DEF CaseRows
<1> HIDE DEF d
<1> QED BY <1>1, <1>2, <1>4, <1>6, <1>7, <1>8, <1>9 DEF Ended, d

-----------------------------------------------------------------------------
(* The invariant is inductive: the calls.                                  *)

\* What does not depend on the calls stays when only calls change.
LEMMA CallsChange ==
  ASSUME IInv, UNCHANGED <<case, binding, receipts, epoch, now, sent, answers>>,
         CallsOk', BindingLock', CaseLock'
  PROVE  IInv'
  BY DEF IInv, RowsOk, BindingsOk, SentOk, ReceiptsOk, AnswersOk, OneEffectPerRevision,
         EscalateOnce, AnswersTrue, Applied, Slot

\* A call that goes leaves the locks of the others.
LEMMA AbortIInv ==
  ASSUME IInv, NEW s \in Sessions, Abort(s)
  PROVE  IInv'
<1>1. Ended(s) /\ UNCHANGED <<case, binding, receipts, epoch, now, sent, answers>>
  BY DEF Abort
<1>2. Calling' = Calling \ {s} /\ \A t \in Calling \ {s} : call'[t] = call[t]
  BY <1>1 DEF Ended, Calling
<1>3. CallsOk'
  BY <1>1, <1>2 DEF IInv, CallsOk, Ended, Calling
<1>4. BindingLock'
  BY <1>1, <1>2 DEF IInv, BindingLock, Slot
<1>5. CaseLock'
  BY <1>1, <1>2 DEF IInv, CaseLock
<1> QED BY <1>1, <1>3, <1>4, <1>5, CallsChange

LEMMA LockCaseIInv ==
  ASSUME IInv, NEW s \in Sessions, LockCase(s)
  PROVE  IInv'
<1>1. /\ s \in Calling /\ call[s].pc = "bound" /\ \A t \in Calling : call[t].pc # "deciding"
      /\ UNCHANGED <<case, binding, receipts, epoch, now, sent, answers>>
  BY DEF LockCase, CaseFree
<1>2. call[s] \in CallRows /\ case \in CaseRows
  BY <1>1 DEF IInv, CallsOk, RowsOk
<1> DEFINE new == [call[s] EXCEPT !.pc = "deciding", !.row = case]
<1>3. call' = [t \in Calling |-> IF t = s THEN new ELSE call[t]]
  BY <1>1 DEF LockCase, IInv, CallsOk, Calling
<1>4. /\ new \in CallRows /\ new.pc = "deciding" /\ new.row = case /\ new.body = call[s].body
      /\ new.bound = call[s].bound /\ new.at = call[s].at
  BY <1>2 DEF CallRows
<1> HIDE DEF new
<1>5. Calling' = Calling /\ \A t \in Calling : call'[t] = IF t = s THEN new ELSE call[t]
  BY <1>3 DEF Calling
<1>6. CallsOk'
  BY <1>1, <1>3, <1>4, <1>5 DEF IInv, CallsOk
<1>7. BindingLock'
  <2>1. ASSUME NEW t \in Calling, call'[t].pc # "waiting"
        PROVE  /\ call[t].pc # "waiting" /\ call'[t].body = call[t].body
               /\ call'[t].bound = call[t].bound
    BY <1>1, <1>4, <1>5, <2>1
  <2>2. \A body : Slot(body)' = Slot(body)
    BY <1>1 DEF Slot
  <2> QED BY <1>1, <1>5, <2>1, <2>2 DEF IInv, BindingLock, Slot
<1>8. CaseLock'
  BY <1>1, <1>4, <1>5 DEF CaseLock
<1> QED BY <1>1, <1>6, <1>7, <1>8, CallsChange

LEMMA BeginIInv ==
  ASSUME IInv, NEW s \in Sessions, Begin(s)
  PROVE  IInv'
<1>1. s \notin Calling /\ UNCHANGED <<case, binding, receipts, epoch, now, answers>>
  BY DEF Begin
<1>2. PICK b \in {b \in Bindings : binding[b].status # "absent"},
           k \in Keys, q \in Requests, p \in {Policy[b] : b \in Bindings} :
        LET body == [binding |-> b, key |-> k, action |-> q.action, arg |-> q.arg,
                     plain |-> q.plain, policy |-> p, basis |-> case.basis, rev |-> case.rev]
        IN  \E sending \in sent \cup {body} :
              /\ sent' = sent \cup {sending}
              /\ Sendable(sent')
              /\ call' = [t \in Calling \cup {s} |->
                   IF t # s THEN call[t]
                   ELSE [pc |-> "waiting", body |-> sending, at |-> now,
                         bound |-> binding[sending.binding], row |-> Unread]]
  BY Zenon DEF Begin
<1> DEFINE body == [binding |-> b, key |-> k, action |-> q.action, arg |-> q.arg,
                    plain |-> q.plain, policy |-> p, basis |-> case.basis, rev |-> case.rev]
<1>3. PICK sending \in sent \cup {body} :
        /\ sent' = sent \cup {sending}
        /\ call' = [t \in Calling \cup {s} |->
             IF t # s THEN call[t]
             ELSE [pc |-> "waiting", body |-> sending, at |-> now,
                   bound |-> binding[sending.binding], row |-> Unread]]
  BY <1>2
<1>4. case.basis \in Nat \ {0} /\ case.rev \in Nat \ {0} /\ now \in Nat \ {0}
  BY DEF IInv, RowsOk, CaseRows
<1>5. body \in AnyBody /\ body.basis = case.basis /\ body.rev = case.rev
  BY <1>4, InstanceAssumption DEF AnyBody
<1>6. /\ sending \in AnyBody /\ sending.basis \in 1 .. case.basis /\ sending.rev \in 1 .. case.rev
      /\ sending.binding \in Bindings
  <2> HIDE DEF body
  <2>1. sending \in AnyBody /\ sending.basis \in 1 .. case.basis /\ sending.rev \in 1 .. case.rev
    BY <1>3, <1>4, <1>5 DEF IInv, SentOk
  <2> QED BY <2>1 DEF AnyBody
<1>7. SentOk'
  BY <1>1, <1>3, <1>6 DEF IInv, SentOk
<1> DEFINE new == [pc |-> "waiting", body |-> sending, at |-> now,
                   bound |-> binding[sending.binding], row |-> Unread]
<1>8. new \in CallRows
  <2>1. Unread \in CaseRows
    BY DEF Unread, CaseRows
  <2>2. binding[sending.binding] \in BindingRows
    BY <1>6 DEF IInv, BindingsOk
  <2> QED BY <1>4, <1>6, <2>1, <2>2 DEF CallRows
<1>9. new.pc = "waiting" /\ new.body = sending /\ new.at = now
  OBVIOUS
<1>10. /\ call' = [t \in Calling \cup {s} |-> IF t # s THEN call[t] ELSE new]
       /\ sent' = sent \cup {sending}
  BY <1>3
<1> HIDE DEF new, body
<1>11. Calling' = Calling \cup {s}
       /\ \A t \in Calling \cup {s} : call'[t] = IF t # s THEN call[t] ELSE new
  BY <1>10 DEF Calling
<1>12. CallsOk'
  BY <1>1, <1>4, <1>8, <1>9, <1>10, <1>11 DEF IInv, CallsOk
<1>13. BindingLock'
  BY <1>1, <1>9, <1>11 DEF IInv, BindingLock, Slot
<1>14. CaseLock'
  BY <1>1, <1>9, <1>11 DEF IInv, CaseLock
<1>15. ReceiptsOk' /\ AnswersOk'
  BY <1>1, <1>10 DEF IInv, ReceiptsOk, AnswersOk
<1> QED BY <1>1, <1>7, <1>12, <1>13, <1>14, <1>15
        DEF IInv, RowsOk, BindingsOk, OneEffectPerRevision, EscalateOnce, AnswersTrue, Applied, Slot

LEMMA LockBindingIInv ==
  ASSUME IInv, NEW s \in Sessions, LockBinding(s)
  PROVE  IInv'
<1> DEFINE body == call[s].body
<1>1. /\ s \in Calling /\ call[s].pc = "waiting" /\ BindingFree(body.binding)
      /\ UNCHANGED <<case, binding, receipts, epoch, now, sent>>
  BY DEF LockBinding
<1>2. call[s] \in CallRows /\ body \in sent /\ body \in AnyBody /\ body.binding \in Bindings
  BY <1>1 DEF IInv, CallsOk, CallRows, AnyBody
<1>3. ASSUME NEW o, Told(body, o), Ended(s),
             o = "ERROR" \/ o \in Replay(body)
      PROVE  IInv'
  <2>1. Calling' = Calling \ {s} /\ \A t \in Calling \ {s} : call'[t] = call[t]
    BY <1>3 DEF Ended, Calling
  <2>2. CallsOk'
    BY <1>1, <1>3, <2>1 DEF IInv, CallsOk, Ended, Calling
  <2>3. BindingLock'
    BY <1>1, <2>1 DEF IInv, BindingLock, Slot
  <2>4. CaseLock'
    BY <1>1, <2>1 DEF IInv, CaseLock
  <2> DEFINE told == [body |-> body, outcome |-> o]
  <2>5. answers' = answers \cup {told} /\ told.body = body /\ told.outcome = o
    BY <1>3 DEF Told
  <2> HIDE DEF told
  <2>6. ASSUME o # "ERROR"
        PROVE  \E r \in Slot(body) :
                 IF o = "IDEMPOTENCY_CONFLICT" THEN r.body # body
                 ELSE r.body = body /\ r.outcome = o
    <3>1. PICK r \in Slot(body) : o = IF r.body = body THEN r.outcome ELSE "IDEMPOTENCY_CONFLICT"
      BY <1>3, <2>6 DEF Replay
    <3>2. r.outcome \in Outcomes
      BY <3>1 DEF IInv, ReceiptsOk, ReceiptRows, Slot
    <3>3. r.outcome # "IDEMPOTENCY_CONFLICT"
      BY <3>2 DEF Outcomes
    <3> QED BY <3>1, <3>3
  <2>7. o \in Outcomes \cup {"IDEMPOTENCY_CONFLICT", "ERROR"}
    <3>1. \A r \in Slot(body) : r.outcome \in Outcomes
      BY DEF IInv, ReceiptsOk, ReceiptRows, Slot
    <3> QED BY <1>3, <3>1 DEF Replay
  <2>8. AnswersOk'
    BY <1>1, <1>2, <2>5, <2>7 DEF IInv, AnswersOk
  <2>9. \A b : Slot(b)' = Slot(b)
    BY <1>1 DEF Slot
  <2>10. AnswersTrue'
    <3>1. ASSUME NEW a \in answers', a.outcome # "ERROR"
          PROVE  \E r \in Slot(a.body)' :
                   IF a.outcome = "IDEMPOTENCY_CONFLICT" THEN r.body # a.body
                   ELSE r.body = a.body /\ r.outcome = a.outcome
      <4>1. CASE a \in answers
        BY <2>9, <3>1, <4>1 DEF IInv, AnswersTrue
      <4>2. CASE a = told
        BY <2>5, <2>6, <2>9, <3>1, <4>2
      <4> QED BY <2>5, <3>1, <4>1, <4>2
    <3> QED BY <3>1 DEF AnswersTrue, Slot
  <2> QED BY <1>1, <2>2, <2>3, <2>4, <2>8, <2>10
          DEF IInv, RowsOk, BindingsOk, SentOk, ReceiptsOk, OneEffectPerRevision, EscalateOnce, Applied
<1>4. ASSUME Replay(body) = {}, Reread(call[s]).epoch = epoch, UNCHANGED answers,
             call' = [call EXCEPT ![s].pc = "bound", ![s].bound = Reread(call[s])]
      PROVE  IInv'
  <2> DEFINE new == [call[s] EXCEPT !.pc = "bound", !.bound = binding[body.binding]]
  <2>1. call' = [t \in Calling |-> IF t = s THEN new ELSE call[t]]
    BY <1>1, <1>4 DEF IInv, CallsOk, Calling, Reread
  <2>2. binding[body.binding] \in BindingRows
    BY <1>2 DEF IInv, BindingsOk
  <2>3. /\ new \in CallRows /\ new.pc = "bound" /\ new.body = body /\ new.at = call[s].at
        /\ new.bound = binding[body.binding]
    BY <1>2, <2>2 DEF CallRows
  <2>4. Slot(body) = {}
    BY <1>4 DEF Replay
  <2>5. binding[body.binding].epoch = epoch
    BY <1>4 DEF Reread
  <2> HIDE DEF new
  <2>6. Calling' = Calling /\ \A t \in Calling : call'[t] = IF t = s THEN new ELSE call[t]
    BY <2>1 DEF Calling
  <2>7. CallsOk'
    BY <1>1, <2>1, <2>3, <2>6 DEF IInv, CallsOk
  <2>8. \A b : Slot(b)' = Slot(b)
    BY <1>1 DEF Slot
  <2>9. \A t \in Calling : t # s /\ call[t].pc # "waiting" => call[t].body.binding # body.binding
    BY <1>1 DEF BindingFree
  <2>10. ASSUME NEW t \in Calling, call'[t].pc # "waiting"
         PROVE  /\ call'[t].bound = binding[call'[t].body.binding] /\ call'[t].bound.epoch = epoch
                /\ Slot(call'[t].body) = {}
    BY <2>3, <2>4, <2>5, <2>6, <2>10 DEF IInv, BindingLock
  <2>11. ASSUME NEW t \in Calling, NEW u \in Calling, call'[t].pc # "waiting", call'[u].pc # "waiting",
                call'[t].body.binding = call'[u].body.binding
         PROVE  t = u
    BY <2>3, <2>6, <2>9, <2>11 DEF IInv, BindingLock
  <2>12. BindingLock'
    BY <1>1, <2>6, <2>8, <2>10, <2>11 DEF BindingLock
  <2>13. CaseLock'
    BY <1>1, <2>3, <2>6 DEF IInv, CaseLock
  <2> QED BY <1>1, <1>4, <2>7, <2>12, <2>13, CallsChange
<1>5. CASE Told(body, "ERROR") /\ Ended(s)
  BY <1>3, <1>5
<1>6. CASE (\E o \in Replay(body) : Told(body, o)) /\ Ended(s)
  BY <1>3, <1>6
<1> QED BY <1>4, <1>5, <1>6 DEF LockBinding

LEMMA CommitIInv ==
  ASSUME IInv, NEW s \in Sessions, Commit(s)
  PROVE  IInv'
<1> DEFINE body == call[s].body
           outcome == Decision(call[s]).outcome
           receipt == [body |-> body, outcome |-> outcome, rev |-> case'.rev]
           told == [body |-> body, outcome |-> outcome]
<1>1. /\ s \in Calling /\ call' = [t \in Calling \ {s} |-> call[t]]
      /\ body \in AnyBody /\ body \in sent /\ body.binding \in Bindings
      /\ Slot(body) = {} /\ outcome \in Outcomes
      /\ receipts' = receipts \cup {receipt} /\ answers' = answers \cup {told}
      /\ outcome # "APPLIED_CONTROL" => case' = case
      /\ outcome = "APPLIED_CONTROL" =>
           /\ case' = [Controlled(body, case) EXCEPT !.rev = @ + 1]
           /\ body.action \in PermittedActions(case) /\ body.rev = case.rev
           /\ body.action = "ESCALATE" => ~Escalated(body)
  BY CommitLeaves
<1>2. call[s].pc = "deciding" /\ UNCHANGED <<binding, epoch, now, sent>>
  BY DEF Commit
<1>3. /\ receipt.body = body /\ receipt.outcome = outcome /\ receipt.rev = case'.rev
      /\ told.body = body /\ told.outcome = outcome
  OBVIOUS
<1>4. case \in CaseRows /\ case.rev \in Nat \ {0}
  BY DEF IInv, RowsOk, CaseRows
<1>5. /\ case' \in CaseRows /\ case'.status = case.status /\ case'.basis = case.basis
      /\ case'.opened = case.opened
      /\ case'.rev = IF outcome = "APPLIED_CONTROL" THEN case.rev + 1 ELSE case.rev
  <2>1. CASE outcome = "APPLIED_CONTROL"
    <3> DEFINE new == Controlled(body, case)
    <3>1. /\ new \in CaseRows /\ new.rev = case.rev /\ new.status = case.status
          /\ new.basis = case.basis /\ new.opened = case.opened
      BY <1>1, <1>4, <2>1, ControlledRow
    <3>2. case' = [new EXCEPT !.rev = @ + 1]
      BY <1>1, <2>1
    <3> HIDE DEF new, outcome
    <3> QED BY <1>4, <2>1, <3>1, <3>2 DEF CaseRows
  <2>2. CASE outcome # "APPLIED_CONTROL"
    BY <1>1, <1>4, <2>2
  <2> QED BY <2>1, <2>2
<1>6. receipt \in ReceiptRows /\ receipt.rev \in 1 .. case'.rev
  <2> HIDE DEF outcome, body
  <2> QED BY <1>1, <1>4, <1>5 DEF ReceiptRows
<1> HIDE DEF outcome, receipt, told, body
<1>7. RowsOk' /\ BindingsOk' /\ SentOk'
  BY <1>2, <1>4, <1>5 DEF IInv, RowsOk, BindingsOk, SentOk
<1>8. ReceiptsOk'
  <2>1. \A n \in 1 .. case.rev : n \in 1 .. case'.rev
    BY <1>4, <1>5
  <2> QED BY <1>1, <1>2, <1>3, <1>6, <2>1 DEF IInv, ReceiptsOk
<1>9. AnswersOk'
  BY <1>1, <1>2, <1>3 DEF IInv, AnswersOk
<1>10. Calling' = Calling \ {s} /\ \A t \in Calling \ {s} : call'[t] = call[t]
  BY <1>1 DEF Calling
<1>11. CallsOk'
  BY <1>1, <1>2, <1>10 DEF IInv, CallsOk
<1>12. CaseLock'
  BY <1>1, <1>2, <1>10 DEF IInv, CaseLock
<1>13. \A x : Slot(x) \subseteq Slot(x)' /\ (x.binding # body.binding => Slot(x)' = Slot(x))
  BY <1>1, <1>3 DEF Slot
<1>14. BindingLock'
  <2>1. \A t \in Calling \ {s} : call[t].pc # "waiting" => call[t].body.binding # body.binding
    BY <1>1, <1>2 DEF IInv, BindingLock, body
  <2>2. ASSUME NEW t \in Calling', call'[t].pc # "waiting"
        PROVE  /\ call'[t].bound = binding'[call'[t].body.binding] /\ call'[t].bound.epoch = epoch'
               /\ Slot(call[t].body)' = {}
    <3>1. t \in Calling \ {s} /\ call'[t] = call[t]
      BY <1>10
    <3> DEFINE x == call[t].body
    <3>2. x.binding # body.binding /\ Slot(x) = {}
      BY <2>1, <2>2, <3>1 DEF IInv, BindingLock
    <3>3. {r \in receipts' : r.body.binding = x.binding /\ r.body.key = x.key} = {}
      BY <1>1, <1>3, <3>2 DEF Slot
    <3> QED BY <1>2, <2>2, <3>1, <3>3 DEF IInv, BindingLock, Slot
  <2>3. \A t, u \in Calling' : call'[t].pc # "waiting" /\ call'[u].pc # "waiting"
                              /\ call'[t].body.binding = call'[u].body.binding => t = u
    BY <1>10 DEF IInv, BindingLock
  <2> QED BY <2>2, <2>3 DEF BindingLock
<1>15. AnswersTrue'
  <2>1. ASSUME NEW a \in answers', a.outcome # "ERROR"
        PROVE  \E r \in receipts' :
                 /\ r.body.binding = a.body.binding /\ r.body.key = a.body.key
                 /\ IF a.outcome = "IDEMPOTENCY_CONFLICT" THEN r.body # a.body
                    ELSE r.body = a.body /\ r.outcome = a.outcome
    <3>1. CASE a \in answers
      BY <1>1, <2>1, <3>1 DEF IInv, AnswersTrue, Slot
    <3>2. CASE a = told
      <4>1. outcome # "IDEMPOTENCY_CONFLICT"
        BY <1>1 DEF Outcomes
      <4> QED BY <1>1, <1>3, <3>2, <4>1
    <3> QED BY <1>1, <2>1, <3>1, <3>2
  <2> QED BY <2>1 DEF AnswersTrue, Slot
<1>16. \A r \in Applied(receipts') : r \in Applied(receipts) \/ (r = receipt /\ outcome = "APPLIED_CONTROL")
  BY <1>1, <1>3 DEF Applied
<1>17. OneEffectPerRevision'
  <2>1. \A r \in Applied(receipts) : r.rev <= case.rev /\ r.rev \in Nat
    BY <1>4 DEF IInv, ReceiptsOk, Applied
  <2>2. outcome = "APPLIED_CONTROL" => receipt.rev = body.rev + 1 /\ receipt.rev = case.rev + 1
    BY <1>1, <1>3, <1>5
  <2>3. outcome = "APPLIED_CONTROL" => \A r \in Applied(receipts) : r.rev # receipt.rev
    BY <1>4, <2>1, <2>2
  <2>4. \A r \in Applied(receipts') : r.rev = r.body.rev + 1
    BY <1>3, <1>16, <2>2 DEF IInv, OneEffectPerRevision
  <2>5. \A r, t \in Applied(receipts') : t # r => t.rev # r.rev
    BY <1>16, <2>3 DEF IInv, OneEffectPerRevision
  <2> QED BY <2>4, <2>5 DEF OneEffectPerRevision, Applied
<1>18. EscalateOnce'
  <2>1. outcome = "APPLIED_CONTROL" /\ body.action = "ESCALATE" =>
          \A r \in Applied(receipts) : r.body.action = "ESCALATE" => r.body.arg # body.arg
    BY <1>1 DEF Escalated, Applied
  <2>2. \A r, t \in Applied(receipts') :
          r.body.action = "ESCALATE" /\ t.body.action = "ESCALATE" /\ r # t => r.body.arg # t.body.arg
    BY <1>3, <1>16, <2>1 DEF IInv, EscalateOnce
  <2> QED BY <2>2 DEF EscalateOnce, Applied
<1> QED BY <1>7, <1>8, <1>9, <1>11, <1>12, <1>14, <1>15, <1>17, <1>18 DEF IInv

-----------------------------------------------------------------------------
(* The invariant is inductive: the administrator.                          *)

\* A binding that changes is locked by nobody.
LEMMA BindingWriteIInv ==
  ASSUME IInv, UNCHANGED <<case, receipts, epoch, now, call, sent, answers>>, BindingsOk',
         \A b \in Bindings :
           binding'[b] # binding[b] => BindingFree(b) \/ binding[b].status = "absent"
  PROVE  IInv'
<1>1. ASSUME NEW s \in Calling, call[s].pc # "waiting"
      PROVE  binding'[call[s].body.binding] = binding[call[s].body.binding]
  <2> DEFINE b == call[s].body.binding
  <2>1. b \in Bindings
    BY DEF IInv, CallsOk, CallRows, AnyBody
  <2>2. ~BindingFree(b)
    BY <1>1 DEF BindingFree
  <2>3. binding[b].epoch = epoch /\ epoch # 0
    BY <1>1 DEF IInv, BindingLock, RowsOk
  <2>4. binding[b].status # "absent"
    BY <2>1, <2>3 DEF IInv, BindingsOk
  <2> QED BY <2>1, <2>2, <2>4
<1>2. BindingLock'
  BY <1>1 DEF IInv, BindingLock, Calling, Slot
<1> QED BY <1>2 DEF IInv, RowsOk, SentOk, CallsOk, CaseLock, ReceiptsOk, AnswersOk,
                    OneEffectPerRevision, EscalateOnce, AnswersTrue, Applied, Slot, Calling

LEMMA CreateBindingIInv ==
  ASSUME IInv, NEW b \in Bindings, CreateBinding(b)
  PROVE  IInv'
<1>1. /\ binding[b].status = "absent"
      /\ UNCHANGED <<case, receipts, epoch, now, call, sent, answers>>
      /\ binding \in [Bindings -> BindingRows] /\ epoch \in Nat \ {0}
  BY DEF CreateBinding, IInv, BindingsOk, RowsOk
<1>2. binding' = [binding EXCEPT ![b] = Activated(epoch)]
  BY DEF CreateBinding
<1>3. /\ Activated(epoch) \in BindingRows /\ Activated(epoch).version = 1
      /\ Activated(epoch).epoch = epoch /\ Activated(epoch).status = "current"
  BY <1>1 DEF Activated, BindingRows
<1>4. BindingsOk'
  BY <1>1, <1>2, <1>3, InstanceAssumption DEF IInv, BindingsOk
<1> QED BY <1>1, <1>2, <1>4, BindingWriteIInv

LEMMA ReplaceIInv ==
  ASSUME IInv, NEW b \in Bindings, NEW new \in Bindings \ {b}, Replace(b, new)
  PROVE  IInv'
<1> DEFINE next == IF binding[b].version = 0 THEN 0 ELSE binding[b].version + 1
           old == [binding[b] EXCEPT !.status = "replaced", !.state = "paused", !.version = next]
           fresh == [Activated(epoch) EXCEPT !.state = "paused"]
<1>1. /\ BindingFree(b) /\ binding[new].status = "absent" /\ binding[b].version < MaxVersion
      /\ UNCHANGED <<case, receipts, epoch, now, call, sent, answers>>
      /\ binding \in [Bindings -> BindingRows] /\ epoch \in Nat \ {0}
      /\ binding[b] \in BindingRows /\ binding[b].epoch <= epoch
  BY DEF Replace, IInv, BindingsOk, RowsOk
<1>2. binding' = [binding EXCEPT ![b] = old, ![new] = fresh]
  BY <1>1 DEF Replace
<1>3. /\ fresh \in BindingRows /\ fresh.version = 1
      /\ fresh.epoch = epoch /\ fresh.status = "current"
  BY <1>1 DEF Activated, BindingRows
<1>4. /\ old \in BindingRows /\ old.version <= MaxVersion
      /\ old.epoch = binding[b].epoch /\ old.status = "replaced"
  <2>1. next \in Nat /\ next <= MaxVersion
    BY <1>1, InstanceAssumption DEF BindingRows
  <2> DEFINE row == binding[b]
  <2> HIDE DEF next
  <2>2. old = [row EXCEPT !.status = "replaced", !.state = "paused", !.version = next]
        /\ row \in BindingRows
    BY <1>1
  <2> HIDE DEF row
  <2>3. /\ old \in BindingRows /\ old.version = next /\ old.epoch = row.epoch
        /\ old.status = "replaced"
    BY <2>1, <2>2 DEF BindingRows
  <2> QED BY <2>1, <2>3 DEF row
<1> HIDE DEF old, fresh
<1>5. \A c \in Bindings : binding'[c] = IF c = new THEN fresh ELSE IF c = b THEN old ELSE binding[c]
  BY <1>1, <1>2
<1>6. BindingsOk'
  BY <1>1, <1>2, <1>3, <1>4, <1>5, InstanceAssumption DEF IInv, BindingsOk
<1> QED BY <1>1, <1>5, <1>6, BindingWriteIInv

LEMMA SetStateIInv ==
  ASSUME IInv, NEW b \in Bindings, NEW state \in {"active", "paused"}, SetState(b, state)
  PROVE  IInv'
<1> DEFINE next == binding[b].version + 1
           new == [binding[b] EXCEPT !.state = state, !.version = next, !.epoch = epoch]
<1>1. /\ BindingFree(b) /\ binding[b].status = "current" /\ binding[b].version < MaxVersion
      /\ UNCHANGED <<case, receipts, epoch, now, call, sent, answers>>
      /\ binding \in [Bindings -> BindingRows] /\ epoch \in Nat \ {0}
      /\ binding[b] \in BindingRows
  BY DEF SetState, IInv, BindingsOk, RowsOk
<1>2. binding' = [binding EXCEPT ![b] = new]
  BY <1>1 DEF SetState
<1>3. /\ new \in BindingRows /\ new.version <= MaxVersion
      /\ new.epoch = epoch /\ new.status = "current"
  <2>1. next \in Nat /\ next <= MaxVersion
    BY <1>1, InstanceAssumption DEF BindingRows
  <2> DEFINE row == binding[b]
  <2> HIDE DEF next
  <2>2. new = [row EXCEPT !.state = state, !.version = next, !.epoch = epoch]
        /\ row \in BindingRows /\ row.status = "current"
    BY <1>1
  <2> HIDE DEF row
  <2>3. /\ new \in BindingRows /\ new.version = next /\ new.epoch = epoch
        /\ new.status = "current"
    BY <1>1, <2>1, <2>2 DEF BindingRows
  <2> QED BY <2>1, <2>3
<1> HIDE DEF new
<1>4. BindingsOk'
  BY <1>1, <1>2, <1>3 DEF IInv, BindingsOk
<1> QED BY <1>1, <1>2, <1>4, BindingWriteIInv

-----------------------------------------------------------------------------
(* The invariant is inductive: the steward, the refreshes, time and the    *)
(* server.                                                                 *)

\* A case that changes is locked by nobody.
LEMMA CaseWriteIInv ==
  ASSUME IInv, CaseFree, NEW c \in CaseRows, Written(c), c.status # "unread",
         c.opened <= now, c.rev = case.rev, c.basis >= case.basis
  PROVE  IInv'
<1>1. /\ UNCHANGED <<binding, receipts, epoch, now, call, sent, answers>>
      /\ case' = [c EXCEPT !.rev = @ + 1]
  BY DEF Written
<1>2. /\ case.rev \in Nat \ {0} /\ case.basis \in Nat \ {0} /\ now \in Nat \ {0}
  BY DEF IInv, RowsOk, CaseRows
<1>3. /\ case' \in CaseRows /\ case'.status = c.status /\ case'.opened = c.opened
      /\ case'.basis = c.basis /\ case'.rev = case.rev + 1
      /\ c.basis \in Nat
  BY <1>1, <1>2 DEF CaseRows
<1>4. RowsOk'
  BY <1>1, <1>2, <1>3 DEF IInv, RowsOk
<1>5. /\ \A n \in 1 .. case.rev : n \in 1 .. case'.rev
      /\ \A n \in 1 .. case.basis : n \in 1 .. case'.basis
  BY <1>2, <1>3
<1>6. SentOk' /\ ReceiptsOk'
  BY <1>1, <1>5 DEF IInv, SentOk, ReceiptsOk
<1>7. CaseLock'
  BY <1>1 DEF CaseFree, CaseLock, Calling
<1> QED BY <1>1, <1>4, <1>6, <1>7
        DEF IInv, BindingsOk, CallsOk, BindingLock, AnswersOk, OneEffectPerRevision,
            EscalateOnce, AnswersTrue, Applied, Slot, Calling

\* What the steward and a refresh write.
LEMMA CaseWrites ==
  ASSUME IInv, Steward \/ Refresh
  PROVE  /\ CaseFree
         /\ \E c \in CaseRows :
              /\ Written(c) /\ c # case /\ c.status # "unread" /\ c.opened <= now
              /\ c.rev = case.rev /\ c.basis >= case.basis
<1>1. /\ case \in CaseRows /\ case.status # "unread" /\ case.opened <= now
      /\ case.basis \in Nat /\ now \in Nat
  BY DEF IInv, RowsOk, CaseRows
<1>2. CASE Steward
  <2>1. PICK new \in Controls : SetCaseControls(new)
    BY <1>2 DEF Steward
  <2>2. new \in [queue : Nat, due : Nat, level : Nat, protected : BOOLEAN]
    BY InstanceAssumption
  <2> DEFINE c == [case EXCEPT !.queue = new.queue, !.due = new.due,
                               !.level = new.level, !.protected = new.protected]
  <2>3. CaseFree /\ Written(c)
    BY <2>1 DEF SetCaseControls
  <2>4. /\ c \in CaseRows /\ c.status = case.status /\ c.opened = case.opened
        /\ c.rev = case.rev /\ c.basis = case.basis
    BY <1>1, <2>2 DEF CaseRows
  <2>5. ControlsOf(c) = new /\ new # ControlsOf(case)
    BY <1>1, <2>1, <2>2 DEF SetCaseControls, ControlsOf, CaseRows
  <2> HIDE DEF c
  <2> QED BY <1>1, <2>3, <2>4, <2>5
<1>3. CASE MarkPending
  <2> DEFINE c == [case EXCEPT !.pending = TRUE]
  <2>1. CaseFree /\ Written(c) /\ ~case.pending
    BY <1>3 DEF MarkPending
  <2>2. /\ c.pending /\ c \in CaseRows /\ c.status = case.status /\ c.opened = case.opened
        /\ c.rev = case.rev /\ c.basis = case.basis
    BY <1>1 DEF CaseRows
  <2> HIDE DEF c
  <2> QED BY <1>1, <2>1, <2>2
<1>4. CASE CaseFree /\ case.pending /\ Written([case EXCEPT !.pending = FALSE])
  <2> DEFINE c == [case EXCEPT !.pending = FALSE]
  <2>1. /\ ~c.pending /\ c \in CaseRows /\ c.status = case.status /\ c.opened = case.opened
        /\ c.rev = case.rev /\ c.basis = case.basis
    BY <1>1 DEF CaseRows
  <2>2. CaseFree /\ Written(c) /\ case.pending
    BY <1>4
  <2> HIDE DEF c
  <2> QED BY <1>1, <2>1, <2>2
<1>5. ASSUME NEW status \in {case.status, "resolved"}, CaseFree,
             Written([case EXCEPT !.pending = FALSE, !.basis = @ + 1, !.status = status])
      PROVE  \E c \in CaseRows :
               /\ Written(c) /\ c # case /\ c.status # "unread" /\ c.opened <= now
               /\ c.rev = case.rev /\ c.basis >= case.basis
  <2> DEFINE c == [case EXCEPT !.pending = FALSE, !.basis = @ + 1, !.status = status]
  <2>1. /\ c \in CaseRows /\ c.status = status /\ c.opened = case.opened
        /\ c.rev = case.rev /\ c.basis = case.basis + 1
    <3>1. status \in {"unread", "open", "resolved"} /\ case.basis + 1 \in Nat
      BY <1>1 DEF CaseRows
    <3> QED BY <1>1, <3>1 DEF CaseRows
  <2>2. Written(c)
    BY <1>5
  <2> HIDE DEF c
  <2> QED BY <1>1, <2>1, <2>2
<1>6. CASE BackfillOpenedAt
  <2>1. PICK t \in 1 .. now : Written([case EXCEPT !.opened = t])
    BY <1>6 DEF BackfillOpenedAt
  <2> DEFINE c == [case EXCEPT !.opened = t]
  <2>2. /\ c \in CaseRows /\ c.status = case.status /\ c.opened = t
        /\ c.rev = case.rev /\ c.basis = case.basis
    BY <1>1 DEF CaseRows
  <2>3. Written(c) /\ CaseFree /\ t <= now /\ t # 0 /\ case.opened = 0
    BY <1>1, <1>6, <2>1 DEF BackfillOpenedAt
  <2> HIDE DEF c
  <2> QED BY <1>1, <2>2, <2>3
<1>7. CASE ProjectReview
  BY <1>4, <1>5, <1>7 DEF ProjectReview
<1>8. CASE ProjectOthers
  BY <1>4, <1>8 DEF ProjectOthers
<1> QED BY <1>2, <1>3, <1>6, <1>7, <1>8 DEF Refresh

LEMMA TickIInv ==
  ASSUME IInv, Tick
  PROVE  IInv'
<1>1. /\ now \in Nat \ {0} /\ now' = now + 1
      /\ UNCHANGED <<case, binding, receipts, epoch, call, sent, answers>>
      /\ case.opened \in Nat /\ case.opened <= now
  BY DEF Tick, IInv, RowsOk, CaseRows
<1>2. RowsOk'
  BY <1>1 DEF IInv, RowsOk
<1>3. \A n \in 1 .. now : n \in 1 .. now'
  BY <1>1
<1>4. CallsOk'
  BY <1>1, <1>3 DEF IInv, CallsOk, Calling
<1> QED BY <1>1, <1>2, <1>4
        DEF IInv, BindingsOk, SentOk, BindingLock, CaseLock, ReceiptsOk, AnswersOk,
            OneEffectPerRevision, EscalateOnce, AnswersTrue, Applied, Slot, Calling

\* A server that starts has no calls.
LEMMA StartIInv ==
  ASSUME IInv, call' = <<>>, epoch' = epoch + 1, BindingsOk',
         UNCHANGED <<case, receipts, now, sent, answers>>
  PROVE  IInv'
<1>1. Calling' = {} /\ call' = [s \in {} |-> call'[s]]
  BY DEF Calling
<1>2. CallsOk'
  BY <1>1 DEF CallsOk
<1>3. BindingLock' /\ CaseLock'
  BY <1>1 DEF BindingLock, CaseLock
<1>4. RowsOk'
  BY DEF IInv, RowsOk
<1> QED BY <1>2, <1>3, <1>4
        DEF IInv, SentOk, ReceiptsOk, AnswersOk,
            OneEffectPerRevision, EscalateOnce, AnswersTrue, Applied, Slot

LEMMA RestartIInv ==
  ASSUME IInv, Restart
  PROVE  IInv'
<1>1. epoch \in Nat /\ epoch' = epoch + 1 /\ binding' = binding
  BY DEF IInv, RowsOk, Restart
<1>2. \A b \in Bindings : binding[b].epoch \in Nat
  BY DEF IInv, BindingsOk, BindingRows
<1>3. \A b \in Bindings : binding[b].epoch <= epoch + 1
  BY <1>1, <1>2 DEF IInv, BindingsOk
<1>4. BindingsOk'
  BY <1>1, <1>3 DEF IInv, BindingsOk
<1> QED BY <1>4, StartIInv DEF Restart

LEMMA RestoreIInv ==
  ASSUME IInv, Restore
  PROVE  IInv'
<1>1. epoch \in Nat /\ epoch' = epoch + 1
      /\ binding' = [b \in Bindings |-> [Absent EXCEPT !.status = binding[b].status]]
  BY DEF IInv, RowsOk, Restore
<1>2. \A b \in Bindings : binding[b].status \in {"absent", "current", "replaced"}
  BY DEF IInv, BindingsOk, BindingRows
<1>3. \A b \in Bindings :
        /\ binding'[b] \in BindingRows /\ binding'[b].version = 0 /\ binding'[b].epoch = 0
  BY <1>1, <1>2 DEF Absent, BindingRows
<1>4. binding' \in [Bindings -> BindingRows]
  BY <1>1, <1>3
<1>5. BindingsOk'
  BY <1>1, <1>3, <1>4, InstanceAssumption DEF BindingsOk
<1> QED BY <1>5, StartIInv DEF Restore

-----------------------------------------------------------------------------
(* The invariant.                                                          *)

LEMMA InitIInv == Init => IInv
<1> SUFFICES ASSUME Init PROVE IInv
  OBVIOUS
<1>1. receipts = {} /\ answers = {} /\ sent = {} /\ epoch = 1 /\ now = 1 /\ call = <<>>
  BY DEF Init
<1>2. Calling = {} /\ call = [s \in {} |-> call[s]]
  BY <1>1 DEF Calling
<1>3. RowsOk
  <2>1. case = [Unread EXCEPT !.status = "open", !.opened = OpenedAtFirst,
                              !.basis = 1, !.rev = 1]
    BY DEF Init
  <2>2. Unread \in CaseRows
    BY DEF Unread, CaseRows
  <2>3. OpenedAtFirst \in Nat /\ OpenedAtFirst <= 1
    BY InstanceAssumption
  <2>4. /\ case \in CaseRows /\ case.status = "open" /\ case.opened = OpenedAtFirst
        /\ case.basis = 1 /\ case.rev = 1
    BY <2>1, <2>2, <2>3 DEF CaseRows
  <2> QED BY <1>1, <2>3, <2>4 DEF RowsOk
<1>4. BindingsOk
  <2>1. Activated(1) \in BindingRows /\ Absent \in BindingRows
    BY DEF Activated, Absent, BindingRows
  <2>2. /\ Activated(1).version = 1 /\ Activated(1).epoch = 1 /\ Activated(1).status = "current"
        /\ Absent.version = 0 /\ Absent.epoch = 0
    BY DEF Activated, Absent
  <2>3. binding = [b \in Bindings |-> IF b = FirstBinding THEN Activated(1) ELSE Absent]
    BY DEF Init
  <2> QED BY <1>1, <2>1, <2>2, <2>3, InstanceAssumption DEF BindingsOk
<1>5. CallsOk /\ BindingLock /\ CaseLock
  BY <1>2 DEF CallsOk, BindingLock, CaseLock
<1> QED BY <1>1, <1>3, <1>4, <1>5
        DEF IInv, SentOk, ReceiptsOk, AnswersOk, OneEffectPerRevision, EscalateOnce,
            AnswersTrue, Applied

LEMMA StepIInv == IInv /\ [Next]_vars => IInv'
<1> SUFFICES ASSUME IInv, [Next]_vars PROVE IInv'
  OBVIOUS
<1>1. CASE Submit
  BY <1>1, BeginIInv, LockBindingIInv, LockCaseIInv, CommitIInv DEF Submit
<1>2. CASE Administer
  BY <1>2, CreateBindingIInv, ReplaceIInv, SetStateIInv DEF Administer
<1>3. CASE Steward \/ Refresh
  BY <1>3, CaseWrites, CaseWriteIInv
<1>4. CASE Tick
  BY <1>4, TickIInv
<1>5. CASE Fail
  BY <1>5, RestartIInv, RestoreIInv, AbortIInv DEF Fail
<1>6. CASE UNCHANGED vars
  BY <1>6 DEF vars, IInv, RowsOk, BindingsOk, SentOk, CallsOk, BindingLock, CaseLock, ReceiptsOk,
              AnswersOk, OneEffectPerRevision, EscalateOnce, AnswersTrue, Applied, Slot, Calling
<1> QED BY <1>1, <1>2, <1>3, <1>4, <1>5, <1>6 DEF Next

LEMMA Invariance == Spec => []IInv
  BY InitIInv, StepIInv, PTL DEF Spec

\* The case and the receipts are written by the end of a call, or the case
\* alone by the steward or a refresh.
LEMMA WhoWrites ==
  ASSUME IInv, [Next]_vars
  PROVE  \/ UNCHANGED <<case, receipts>>
         \/ \E s \in Sessions : Commit(s)
         \/ /\ receipts' = receipts /\ case'.rev = case.rev + 1
            /\ case' # [case EXCEPT !.rev = @ + 1]
<1>1. CASE Steward \/ Refresh
  <2>1. PICK c \in CaseRows : Written(c) /\ c # case /\ c.rev = case.rev
    BY <1>1, CaseWrites
  <2>2. receipts' = receipts /\ case' = [c EXCEPT !.rev = @ + 1]
    BY <2>1 DEF Written
  <2>3. case \in CaseRows
    BY DEF IInv, RowsOk
  <2>4. [c EXCEPT !.rev = @ + 1] # [case EXCEPT !.rev = @ + 1]
    BY <2>1, <2>3 DEF CaseRows
  <2> QED BY <2>1, <2>2, <2>4 DEF CaseRows
<1>2. CASE Submit
  BY <1>2 DEF Submit, Begin, LockBinding, LockCase
<1>3. CASE Administer
  BY <1>3 DEF Administer, CreateBinding, Replace, SetState
<1>4. CASE Tick \/ Fail \/ UNCHANGED vars
  BY <1>4 DEF Tick, Fail, Restart, Restore, Abort, vars
<1> QED BY <1>1, <1>2, <1>3, <1>4 DEF Next

-----------------------------------------------------------------------------
(* Theorems.                                                               *)

\* The types, whatever the clients, the bindings, the controls that a steward
\* sets and the numbers of restarts and revisions.
THEOREM TypeCorrect == Spec => []TypeOK
<1>1. IInv => TypeOK
  <2> SUFFICES ASSUME IInv PROVE TypeOK
    OBVIOUS
  <2>1. /\ case \in CaseRows /\ case.status # "unread" /\ case.opened <= now
        /\ case.rev # 0 /\ case.basis # 0 /\ now \in Nat /\ epoch \in Nat
    BY DEF IInv, RowsOk
  <2>2. case \in [status : {"open", "resolved"}, pending : BOOLEAN, queue : Nat, due : Nat,
                  level : Nat, protected : BOOLEAN, opened : 0 .. now, basis : Nat \ {0},
                  rev : Nat \ {0}]
    BY <2>1 DEF CaseRows
  <2>3. binding \in [Bindings -> [status : {"absent", "current", "replaced"},
                   version : 0 .. MaxVersion, state : {"active", "paused"}, epoch : 0 .. epoch]]
    <3>1. ASSUME NEW b \in Bindings
          PROVE  binding[b] \in [status : {"absent", "current", "replaced"},
                   version : 0 .. MaxVersion, state : {"active", "paused"}, epoch : 0 .. epoch]
      <4>1. /\ binding[b] \in BindingRows /\ binding[b].version <= MaxVersion
            /\ binding[b].epoch <= epoch
        BY DEF IInv, BindingsOk
      <4> QED BY <2>1, <4>1, InstanceAssumption DEF BindingRows
    <3> QED BY <3>1 DEF IInv, BindingsOk
  <2>4. sent \subseteq Bodies
    <3>1. ASSUME NEW body \in sent
          PROVE  body \in Bodies
      <4>1. body \in AnyBody /\ body.basis \in 1 .. case.basis /\ body.rev \in 1 .. case.rev
        BY DEF IInv, SentOk
      <4> QED BY <4>1 DEF AnyBody, Bodies
    <3> QED BY <3>1
  <2>5. \A r \in receipts : r.body \in sent /\ r.outcome \in Outcomes /\ r.rev \in 1 .. case.rev
    BY DEF IInv, ReceiptsOk, ReceiptRows
  <2>6. /\ Calling \subseteq Sessions
        /\ \A s \in Calling :
             /\ call[s].pc \in {"waiting", "bound", "deciding"}
             /\ call[s].body \in sent /\ call[s].at \in 1 .. now
    BY DEF IInv, CallsOk, CallRows
  <2> QED BY <2>2, <2>3, <2>4, <2>5, <2>6 DEF TypeOK, IInv, AnswersOk
<1> QED BY <1>1, Invariance, PTL

\* Every effect answers one state of the case, and no two the same.
THEOREM EffectsOnce == Spec => []OneEffectPerRevision
<1>1. IInv => OneEffectPerRevision
  BY DEF IInv
<1> QED BY <1>1, Invariance, PTL

\* Automation reaches a level at most once, through any binding and any key.
THEOREM EscalatesOnce == Spec => []EscalateOnce
<1>1. IInv => EscalateOnce
  BY DEF IInv
<1> QED BY <1>1, Invariance, PTL

\* What a client was told stays true, whatever happens to the binding, the
\* case and the server.
THEOREM AnswersStayTrue == Spec => []AnswersTrue
<1>1. IInv => AnswersTrue
  BY DEF IInv
<1> QED BY <1>1, Invariance, PTL

\* An effect has authority that is live at that very moment: what the call read
\* under the lock of the binding is still there.
THEOREM AuthorityIsLive == Spec => LiveAuthority
<1> DEFINE Live == \A r \in Applied(receipts' \ receipts) :
                     LET b == binding[r.body.binding]
                     IN  /\ b.status = "current" /\ b.version > 0 /\ b.state = "active"
                         /\ b.epoch = epoch
<1>1. ASSUME IInv, [Next]_vars PROVE Live
  <2>1. CASE receipts' = receipts
    BY <2>1 DEF Applied
  <2>2. ASSUME NEW s \in Sessions, Commit(s) PROVE Live
    <3> DEFINE body == call[s].body
               outcome == Decision(call[s]).outcome
               b == binding[body.binding]
    <3>1. /\ receipts' = receipts \cup {[body |-> body, outcome |-> outcome, rev |-> case'.rev]}
          /\ body.binding \in Bindings
          /\ outcome = "APPLIED_CONTROL" =>
               b.status # "replaced" /\ b.version # 0 /\ b.state # "paused" /\ b.epoch = epoch
      BY <1>1, <2>2, CommitLeaves
    <3>2. b \in BindingRows /\ (b.status = "absent" => b.epoch = 0) /\ epoch # 0
      BY <1>1, <3>1 DEF IInv, BindingsOk, RowsOk
    <3>3. outcome = "APPLIED_CONTROL" =>
            b.status = "current" /\ b.version > 0 /\ b.state = "active" /\ b.epoch = epoch
      <4> HIDE DEF b, outcome, body
      <4> QED BY <3>1, <3>2 DEF BindingRows, b
    <3> HIDE DEF outcome
    <3>4. \A r \in Applied(receipts' \ receipts) : r.body = body /\ outcome = "APPLIED_CONTROL"
      BY <3>1 DEF Applied
    <3> QED BY <3>3, <3>4
  <2> QED BY <1>1, <2>1, <2>2, WhoWrites
<1>2. IInv /\ [Next]_vars => [Live]_vars
  BY <1>1
<1> QED BY <1>2, Invariance, PTL DEF Spec, LiveAuthority

\* No change of the case is lost or goes unnumbered, only a due time in another
\* spelling takes a revision for nothing, and an intent takes effect on the case
\* as it stands.
THEOREM NothingLost == Spec => NoLostChange
<1> DEFINE Kept == /\ case'.rev \in {case.rev, case.rev + 1}
                   /\ case'.rev = case.rev => case' = case
                   /\ case' = [case EXCEPT !.rev = @ + 1] =>
                        \E r \in Applied(receipts' \ receipts) : Respelled(r.body)
                   /\ \A r \in Applied(receipts' \ receipts) :
                        /\ case' = [Controlled(r.body, case) EXCEPT !.rev = @ + 1]
                        /\ case'.queue # case.queue => ~case.protected
                        /\ case'.level # case.level => case.due \in 1 .. now
<1>1. ASSUME IInv, [Next]_vars PROVE Kept
  <2>1. case \in CaseRows /\ case.rev \in Nat /\ case.due \in Nat /\ now \in Nat
    BY <1>1 DEF IInv, RowsOk, CaseRows
  <2>2. case # [case EXCEPT !.rev = @ + 1] /\ case.rev # case.rev + 1
    BY <2>1 DEF CaseRows
  <2>3. CASE UNCHANGED <<case, receipts>>
    BY <2>1, <2>2, <2>3 DEF Applied
  <2>4. CASE /\ receipts' = receipts /\ case'.rev = case.rev + 1
             /\ case' # [case EXCEPT !.rev = @ + 1]
    BY <2>1, <2>4 DEF Applied
  <2>5. ASSUME NEW s \in Sessions, Commit(s) PROVE Kept
    <3> DEFINE body == call[s].body
               outcome == Decision(call[s]).outcome
    <3>1. /\ receipts' = receipts \cup {[body |-> body, outcome |-> outcome, rev |-> case'.rev]}
          /\ body \in AnyBody /\ body \in sent /\ Slot(body) = {}
          /\ outcome # "APPLIED_CONTROL" => case' = case
          /\ outcome = "APPLIED_CONTROL" =>
               /\ case' = [Controlled(body, case) EXCEPT !.rev = @ + 1]
               /\ Controlled(body, case) # case \/ Respelled(body)
               /\ body.action \in PermittedActions(case)
               /\ body.action = "ASSIGN_QUEUE" => ~case.protected
               /\ body.action = "ESCALATE" => case.due # 0 /\ case.due <= now
      BY <1>1, <2>5, CommitLeaves
    <3> HIDE DEF outcome, body
    <3>2. \A r \in Applied(receipts' \ receipts) : r.body = body /\ outcome = "APPLIED_CONTROL"
      BY <3>1 DEF Applied
    <3>3. CASE outcome # "APPLIED_CONTROL"
      <4>1. Applied(receipts' \ receipts) = {}
        BY <3>2, <3>3
      <4>2. case' = case
        BY <3>1, <3>3
      <4> QED BY <2>2, <4>1, <4>2
    <3>4. CASE outcome = "APPLIED_CONTROL"
      <4> DEFINE new == Controlled(body, case)
      <4>1. /\ new \in CaseRows /\ new.rev = case.rev
            /\ body.action # "ASSIGN_QUEUE" => new.queue = case.queue
            /\ body.action # "ESCALATE" => new.level = case.level
        BY <2>1, <3>1, <3>4, ControlledRow
      <4>2. case' = [new EXCEPT !.rev = @ + 1]
        BY <3>1, <3>4
      <4>3. case'.rev = case.rev + 1 /\ case'.queue = new.queue /\ case'.level = new.level
        <5> HIDE DEF new
        <5> QED BY <2>1, <4>1, <4>2 DEF CaseRows
      <4>4. case'.rev # case.rev
        BY <2>1, <4>3
      <4>5. case'.queue # case.queue => ~case.protected
        BY <3>1, <3>4, <4>1, <4>3
      <4>6. case'.level # case.level => case.due \in 1 .. now
        BY <2>1, <3>1, <3>4, <4>1, <4>3
      <4>7. \A r \in Applied(receipts' \ receipts) :
              case' = [Controlled(r.body, case) EXCEPT !.rev = @ + 1]
        BY <3>2, <4>2
      <4>8. CASE new = case
        <5> DEFINE receipt == [body |-> body, outcome |-> outcome, rev |-> case'.rev]
        <5>1. Respelled(body)
          BY <3>1, <3>4, <4>8
        <5>2. receipt.body = body /\ receipt.outcome = "APPLIED_CONTROL"
          BY <3>4
        <5>3. receipt \in receipts' \ receipts
          BY <3>1, <5>2 DEF Slot
        <5>4. receipt \in Applied(receipts' \ receipts)
          BY <5>2, <5>3 DEF Applied
        <5> QED BY <4>3, <4>4, <4>5, <4>6, <4>7, <5>1, <5>2, <5>4
      <4>9. CASE new # case
        <5> HIDE DEF new
        <5>1. case' # [case EXCEPT !.rev = @ + 1]
          BY <2>1, <4>1, <4>2, <4>9 DEF CaseRows
        <5> QED BY <4>3, <4>4, <4>5, <4>6, <4>7, <5>1
      <4> QED BY <4>8, <4>9
    <3> QED BY <3>3, <3>4
  <2> QED BY <1>1, <2>3, <2>4, <2>5, WhoWrites
<1>2. IInv /\ [Next]_vars => [Kept]_vars
  BY <1>1
<1> QED BY <1>2, Invariance, PTL DEF Spec, NoLostChange
\* To everybody else a call happens at one instant: taking the lock of the
\* binding is where an answer is repeated or the call fails, and the end of the
\* transaction is where it decides, on rows that are there at that moment.
THEOREM CallsHappenAtOnce == Spec => CallsAreAtomic
<1> DEFINE shared == <<case, binding, receipts, epoch, now, answers>>
           AtOnce == \/ \E body \in sent :
                           \/ RepeatsAtOnce(body) \/ FailsAtOnce(body)
                           \/ \E at \in 1 .. now : DecidesAtOnce(body, at)
                     \/ Administer \/ Steward \/ Refresh \/ Tick \/ Fail
<1>1. ASSUME IInv, [Next]_vars PROVE [AtOnce]_shared
  <2>1. ASSUME NEW s \in Sessions, Begin(s) \/ LockCase(s) PROVE UNCHANGED shared
    BY <2>1 DEF Begin, LockCase
  <2>2. ASSUME NEW s \in Sessions, LockBinding(s) PROVE AtOnce \/ UNCHANGED shared
    <3> DEFINE body == call[s].body
    <3>1. body \in sent
      BY <1>1, <2>2 DEF IInv, CallsOk, LockBinding
    <3>2. /\ UNCHANGED <<case, binding, receipts, epoch, now>>
          /\ \/ Told(body, "ERROR")
             \/ \E o \in Replay(body) : Told(body, o)
             \/ UNCHANGED answers
      BY <2>2 DEF LockBinding
    <3>3. RepeatsAtOnce(body) \/ FailsAtOnce(body) \/ UNCHANGED shared
      BY <3>2 DEF RepeatsAtOnce, FailsAtOnce
    <3> QED BY <3>1, <3>3
  <2>3. ASSUME NEW s \in Sessions, Commit(s) PROVE AtOnce
    <3> DEFINE body == call[s].body
               read == [body |-> body, bound |-> binding[body.binding], row |-> case,
                        at |-> call[s].at]
               d == Decision(call[s])
    <3>1. s \in Calling /\ call[s].pc = "deciding" /\ UNCHANGED <<binding, epoch, now>>
      BY <2>3 DEF Commit
    <3>2. /\ body \in sent /\ call[s].at \in 1 .. now /\ call[s].row = case
          /\ call[s].bound = binding[body.binding] /\ call[s].bound.epoch = epoch
          /\ Slot(body) = {}
      BY <1>1, <3>1, DecidingCall
    <3>3. Decision(read) = d
      BY <3>2 DEF Decision
    <3>4. /\ case' = d.case
          /\ receipts' = receipts \cup {[body |-> body, outcome |-> d.outcome, rev |-> d.case.rev]}
          /\ Told(body, d.outcome)
      <4>1. /\ receipts' = receipts \cup {[body |-> body, outcome |-> d.outcome, rev |-> case'.rev]}
            /\ answers' = answers \cup {[body |-> body, outcome |-> d.outcome]}
            /\ case' = d.case
        BY <1>1, <2>3, CommitLeaves
      <4> QED BY <4>1 DEF Told
    <3>5. DecidesAtOnce(body, call[s].at)
      BY <3>1, <3>2, <3>3, <3>4 DEF DecidesAtOnce
    <3> QED BY <3>2, <3>5
  <2>4. CASE UNCHANGED vars
    BY <2>4 DEF vars
  <2> QED BY <1>1, <2>1, <2>2, <2>3, <2>4 DEF Next, Submit
<1>2. IInv /\ [Next]_vars => [AtOnce]_shared
  BY <1>1
<1> QED BY <1>2, Invariance, PTL DEF Spec, CallsAreAtomic
=============================================================================
